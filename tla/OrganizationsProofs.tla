------------------------- MODULE OrganizationsProofs -------------------------
(***************************************************************************)
(* Proofs about organizations and their slugs, for any organizations,      *)
(* names, slugs, concurrent calls and retries, and about the lists of      *)
(* organizations, for any page sizes and sizes of a batch.                 *)
(***************************************************************************)
EXTENDS Listing, FiniteSetTheorems, WellFoundedInduction, TLAPS

\* An organization that exists keeps no slug but its own from the others: a
\* rename gives the old one up in the step that takes the new one.
HoldsOneSlug ==
  \A s \in Slug : registry[s] # None /\ Exists(registry[s]) => organization[registry[s]].slug = s

\* Ids are never used twice, so an id to come holds no slug.
HoldersExisted ==
  /\ \A o \in Org : Exists(o) => o \in minted
  /\ \A s \in Slug : registry[s] # None => registry[s] \in minted

\* SQLite has no registrations; its index speaks for the rows.
IndexIsUnique ==
  adapter = "sqlite" =>
    /\ \A s \in Slug : registry[s] = None
    /\ \A o, p \in Org : o # p /\ Exists(o) /\ Exists(p) => organization[o].slug # organization[p].slug

TableInv ==
  /\ adapter \in {"sqlite", "dynamodb"}
  /\ organization \in [Org -> Row \cup {None}]
  /\ registry \in [Slug -> Org \cup {None}]
  /\ minted \in SUBSET Org
  /\ loose \in SUBSET Org
  /\ SlugsGuarded /\ HoldsOneSlug /\ HoldersExisted /\ IndexIsUnique

CallRecord ==
  [phase : Phase, kind : Kind, org : Org \cup {None}, home : Org \cup {None},
   name : Name \cup {None}, slug : Slug \cup {None}, old : Slug \cup {None},
   attempts : 0 .. MaxAttempts - 1]

\* What a call has been given, or has found out, by each phase.
Knows(q) ==
  /\ q.phase # "idle" => q.org \in Org /\ q.name \in Name
  /\ q.phase \in {"context", "create", "update", "read", "name", "slug", "lookup"} => q.slug \in Slug
  /\ q.phase = "update" => adapter = "sqlite"
  /\ q.phase \in {"read", "name", "slug"} => adapter = "dynamodb"
  /\ q.phase = "slug" => q.old \in Slug

CallInv ==
  /\ call \in [Call -> CallRecord]
  /\ outcome \in [Call -> Answer]
  /\ \A c \in Call : Knows(call[c])

ErasingInv ==
  /\ erasing \in [phase : {"idle", "scan", "slugs"}, org : Org \cup {None}, slugs : SUBSET Slug]
  /\ erasing.phase # "idle" => adapter = "dynamodb" /\ erasing.org \in Org

\* The inductive invariant.
IInv == TableInv /\ CallInv /\ ErasingInv
---------------------------------------------------------------------------
\* Of two conditions the first that fails decides.
LEMMA VerdictOfTwo ==
  ASSUME NEW c1, NEW c2
  PROVE  Verdict(<<c1, c2>>) =
           IF ~c1.holds THEN c1.answer ELSE IF ~c2.holds THEN c2.answer ELSE "ok"
<1> DEFINE cs == <<c1, c2>>
<1> DEFINE failed == {k \in DOMAIN cs : ~cs[k].holds}
<1>1. DOMAIN cs = 1 .. 2 /\ cs[1] = c1 /\ cs[2] = c2
  OBVIOUS
<1> HIDE DEF cs
<1>2. CASE ~c1.holds
  <2>1. 1 \in failed /\ failed \subseteq 1 .. 2
    BY <1>1, <1>2
  <2>2. (CHOOSE k \in failed : \A j \in failed : k <= j) = 1
    BY <2>1
  <2>3. Verdict(cs) = cs[1].answer
    BY <2>1, <2>2, Zenon DEF Verdict
  <2>4. QED
    BY <1>1, <1>2, <2>3 DEF cs
<1>3. CASE c1.holds /\ ~c2.holds
  <2>1. 2 \in failed /\ failed \subseteq 2 .. 2
    BY <1>1, <1>3
  <2>2. (CHOOSE k \in failed : \A j \in failed : k <= j) = 2
    BY <2>1
  <2>3. Verdict(cs) = cs[2].answer
    BY <2>1, <2>2, Zenon DEF Verdict
  <2>4. QED
    BY <1>1, <1>3, <2>3 DEF cs
<1>4. CASE c1.holds /\ c2.holds
  <2>1. failed = {}
    BY <1>1, <1>4
  <2>2. QED
    BY <1>1, <1>4, <2>1 DEF Verdict, cs
<1>5. QED
  BY <1>2, <1>3, <1>4 DEF cs

\* So it does of three.
LEMMA VerdictOfThree ==
  ASSUME NEW c1, NEW c2, NEW c3
  PROVE  Verdict(<<c1, c2, c3>>) =
           IF ~c1.holds THEN c1.answer ELSE IF ~c2.holds THEN c2.answer ELSE IF ~c3.holds THEN c3.answer ELSE "ok"
<1> DEFINE cs == <<c1, c2, c3>>
<1> DEFINE failed == {k \in DOMAIN cs : ~cs[k].holds}
<1>1. DOMAIN cs = 1 .. 3 /\ cs[1] = c1 /\ cs[2] = c2 /\ cs[3] = c3
  OBVIOUS
<1> HIDE DEF cs
<1>2. CASE ~c1.holds
  <2>1. 1 \in failed /\ failed \subseteq 1 .. 3
    BY <1>1, <1>2
  <2>2. (CHOOSE k \in failed : \A j \in failed : k <= j) = 1
    BY <2>1
  <2>3. Verdict(cs) = cs[1].answer
    BY <2>1, <2>2, Zenon DEF Verdict
  <2>4. QED
    BY <1>1, <1>2, <2>3 DEF cs
<1>3. CASE c1.holds /\ ~c2.holds
  <2>1. 2 \in failed /\ failed \subseteq 2 .. 3
    BY <1>1, <1>3
  <2>2. (CHOOSE k \in failed : \A j \in failed : k <= j) = 2
    BY <2>1
  <2>3. Verdict(cs) = cs[2].answer
    BY <2>1, <2>2, Zenon DEF Verdict
  <2>4. QED
    BY <1>1, <1>3, <2>3 DEF cs
<1>4. CASE c1.holds /\ c2.holds /\ ~c3.holds
  <2>1. 3 \in failed /\ failed \subseteq 3 .. 3
    BY <1>1, <1>4
  <2>2. (CHOOSE k \in failed : \A j \in failed : k <= j) = 3
    BY <2>1
  <2>3. Verdict(cs) = cs[3].answer
    BY <2>1, <2>2, Zenon DEF Verdict
  <2>4. QED
    BY <1>1, <1>4, <2>3 DEF cs
<1>5. CASE c1.holds /\ c2.holds /\ c3.holds
  <2>1. failed = {}
    BY <1>1, <1>5
  <2>2. QED
    BY <1>1, <1>5, <2>1 DEF Verdict, cs
<1>6. QED
  BY <1>2, <1>3, <1>4, <1>5 DEF cs

---------------------------------------------------------------------------
\* Rows that exist are rows.
LEMMA RowOf ==
  ASSUME TableInv, NEW o \in Org, Exists(o)
  PROVE  organization[o] \in Row
  BY DEF TableInv, Exists

LEMMA InvInit == Init => IInv
<1> SUFFICES ASSUME Init PROVE IInv
  OBVIOUS
<1>1. /\ organization \in [Org -> Row \cup {None}]
      /\ \A o, p \in Org : o # p /\ Exists(o) /\ Exists(p) => organization[o].slug # organization[p].slug
      /\ \A o \in Org : Exists(o) => organization[o] \in Row /\ organization[o].slug \in Slug
  BY InitialIsRegistered DEF Init, Exists, Row
<1>2. \A s \in Slug : \A o \in Having(s) : Having(s) = {o}
  BY <1>1 DEF Having
<1>3. registry \in [Slug -> Org \cup {None}]
  BY DEF Init, Having
<1>4. \A s \in Slug : registry[s] # None => adapter = "dynamodb" /\ registry[s] \in Having(s)
  BY DEF Init
<1>5. \A o \in Org : Exists(o) /\ adapter = "dynamodb" => registry[organization[o].slug] = o
  <2> SUFFICES ASSUME NEW o \in Org, Exists(o), adapter = "dynamodb"
               PROVE  registry[organization[o].slug] = o
    OBVIOUS
  <2> DEFINE s == organization[o].slug
  <2>1. s \in Slug /\ o \in Having(s)
    BY <1>1 DEF Having
  <2>2. (CHOOSE p \in Having(s) : TRUE) \in Having(s)
    BY <2>1
  <2>3. registry[s] = CHOOSE p \in Having(s) : TRUE
    BY <2>1 DEF Init
  <2>4. QED
    BY <1>2, <2>1, <2>2, <2>3
<1>6. TableInv
  <2>1. SlugsGuarded /\ HoldsOneSlug
    BY <1>4, <1>5 DEF SlugsGuarded, HoldsOneSlug, Having
  <2>2. HoldersExisted
    BY <1>4 DEF HoldersExisted, Init, Having, Exists
  <2>3. IndexIsUnique
    BY <1>1, <1>4 DEF IndexIsUnique
  <2>4. QED
    BY <1>1, <1>3, <2>1, <2>2, <2>3 DEF TableInv, Init
<1>7. CallInv
  <2>1. NoCall \in CallRecord
    BY SomeAttempts DEF NoCall, CallRecord, Phase, Kind
  <2>2. Knows(NoCall)
    BY DEF Knows, NoCall
  <2>3. QED
    BY <2>1, <2>2 DEF CallInv, Init, Silence, Answer
<1>8. ErasingInv
  BY DEF ErasingInv, Init, NoErasing
<1>9. QED
  BY <1>6, <1>7, <1>8 DEF IInv

LEMMA TablesStay ==
  ASSUME TableInv, UNCHANGED <<adapter, tables, loose>>
  PROVE  TableInv'
  BY DEF TableInv, tables, SlugsGuarded, HoldsOneSlug, HoldersExisted, IndexIsUnique, Exists

LEMMA CallsStay ==
  ASSUME CallInv, UNCHANGED <<adapter, call>>, outcome' = Silence
  PROVE  CallInv'
  BY DEF CallInv, Knows, Silence, Answer

LEMMA ReplyKeeps ==
  ASSUME CallInv, UNCHANGED adapter, NEW c \in Call, NEW a \in Answer, Reply(c, a)
  PROVE  CallInv'
<1>1. NoCall \in CallRecord
  BY SomeAttempts DEF NoCall, CallRecord, Phase, Kind
<1>2. Knows(NoCall)'
  BY DEF Knows, NoCall
<1>3. call' \in [Call -> CallRecord] /\ outcome' \in [Call -> Answer]
  BY <1>1 DEF CallInv, Reply, Silence, Answer
<1>4. \A d \in Call : Knows(call[d])'
  BY <1>2 DEF CallInv, Reply, Knows
<1>5. QED
  BY <1>3, <1>4 DEF CallInv

LEMMA ContinueKeeps ==
  ASSUME CallInv, UNCHANGED adapter, NEW c \in Call, NEW next \in CallRecord, Knows(next), Continue(c, next)
  PROVE  CallInv'
<1>1. call' \in [Call -> CallRecord] /\ outcome' \in [Call -> Answer]
  BY DEF CallInv, Continue, Silence, Answer
<1>2. \A d \in Call : Knows(call[d])'
  BY DEF CallInv, Continue, Knows
<1>3. QED
  BY <1>1, <1>2 DEF CallInv
---------------------------------------------------------------------------
(***************************************************************************)
(* What steps do to rows and registrations.                                *)
(***************************************************************************)
\* Rows may go, or change in all but their slugs.
LEMMA SlugsStay ==
  ASSUME TableInv, UNCHANGED <<adapter, registry, minted, loose>>,
         organization' \in [Org -> Row \cup {None}],
         \A o \in Org : organization'[o] # None => Exists(o) /\ organization'[o].slug = organization[o].slug
  PROVE  TableInv'
<1>1. SlugsGuarded' /\ HoldsOneSlug'
  BY DEF TableInv, SlugsGuarded, HoldsOneSlug, Exists
<1>2. HoldersExisted' /\ IndexIsUnique'
  BY DEF TableInv, HoldersExisted, IndexIsUnique, Exists
<1>3. QED
  BY <1>1, <1>2 DEF TableInv

\* A row is given other values than its slug.
LEMMA RowChanges ==
  ASSUME TableInv, UNCHANGED <<adapter, registry, minted, loose>>,
         NEW o \in Org, Exists(o), NEW r \in Row, r.slug = organization[o].slug,
         organization' = [organization EXCEPT ![o] = r]
  PROVE  TableInv'
<1>1. organization' \in [Org -> Row \cup {None}]
  BY DEF TableInv
<1>2. \A p \in Org : organization'[p] # None => Exists(p) /\ organization'[p].slug = organization[p].slug
  BY DEF TableInv, Exists
<1>3. QED
  BY <1>1, <1>2, SlugsStay

\* A row goes.
LEMMA RowGoes ==
  ASSUME TableInv, UNCHANGED <<adapter, registry, minted, loose>>,
         NEW o \in Org, organization' = [organization EXCEPT ![o] = None]
  PROVE  TableInv'
<1>1. organization' \in [Org -> Row \cup {None}]
  BY DEF TableInv
<1>2. \A p \in Org : organization'[p] # None => Exists(p) /\ organization'[p].slug = organization[p].slug
  BY DEF TableInv, Exists
<1>3. QED
  BY <1>1, <1>2, SlugsStay

\* A new organization takes a slug that is free.
LEMMA SlugTaken ==
  ASSUME TableInv, UNCHANGED <<adapter, loose>>,
         NEW o \in Org, o \notin minted, NEW r \in Row, Free(o, r.slug),
         organization' = [organization EXCEPT ![o] = r],
         registry' = Registered(o, r.slug),
         minted' = minted \cup {o}
  PROVE  TableInv'
<1> DEFINE s == r.slug
<1>0. s \in Slug /\ r # None /\ o # None /\ ~Exists(o)
  BY NoneIsNothing DEF Row, TableInv, HoldersExisted
<1>1. /\ organization' \in [Org -> Row \cup {None}]
      /\ registry' \in [Slug -> Org \cup {None}]
      /\ minted' \in SUBSET Org
  BY <1>0 DEF TableInv, Registered
<1>2. /\ organization'[o] = r /\ Exists(o)'
      /\ \A p \in Org : p # o => organization'[p] = organization[p] /\ (Exists(p)' <=> Exists(p))
  BY <1>0 DEF TableInv, Exists
<1>3. CASE adapter = "dynamodb"
  <2>1. /\ registry[s] = None /\ registry'[s] = o
        /\ \A t \in Slug : t # s => registry'[t] = registry[t]
    BY <1>0, <1>3 DEF TableInv, Registered, Free
  <2>2. \A p \in Org : Exists(p) => organization[p].slug \in Slug
    BY RowOf DEF Row
  <2>3. \A p \in Org : Exists(p) /\ p \notin loose => registry[organization[p].slug] = p /\ p # None
    BY <1>3, NoneIsNothing DEF TableInv, SlugsGuarded
  <2>4. SlugsGuarded'
    BY <1>0, <1>2, <2>1, <2>2, <2>3 DEF SlugsGuarded
  <2>5. \A t \in Slug : registry[t] # None => registry[t] \in Org /\ registry[t] # o
    BY DEF TableInv, HoldersExisted
  <2>6. HoldsOneSlug'
    BY <1>0, <1>2, <2>1, <2>5 DEF TableInv, HoldsOneSlug
  <2>7. HoldersExisted'
    BY <1>0, <1>2, <2>1 DEF TableInv, HoldersExisted
  <2>8. QED
    BY <1>1, <1>3, <2>4, <2>6, <2>7 DEF TableInv, IndexIsUnique
<1>4. CASE adapter = "sqlite"
  <2>1. registry' = registry /\ Having(s) \subseteq {o}
    BY <1>4 DEF Registered, Free
  <2>2. IndexIsUnique'
    BY <1>0, <1>2, <1>4, <2>1 DEF TableInv, IndexIsUnique, Having
  <2>3. HoldersExisted' /\ HoldsOneSlug' /\ SlugsGuarded'
    BY <1>0, <1>2, <1>4, <2>1 DEF TableInv, IndexIsUnique, HoldersExisted, HoldsOneSlug, SlugsGuarded
  <2>4. QED
    BY <1>1, <1>4, <2>2, <2>3 DEF TableInv
<1>5. QED
  BY <1>3, <1>4 DEF TableInv

\* SQLite: a row takes a slug no other row has.
LEMMA SlugUpdated ==
  ASSUME TableInv, UNCHANGED <<adapter, registry, minted, loose>>, adapter = "sqlite",
         NEW o \in Org, Exists(o), NEW r \in Row, Free(o, r.slug),
         organization' = [organization EXCEPT ![o] = r]
  PROVE  TableInv'
<1>1. organization' \in [Org -> Row \cup {None}]
  BY DEF TableInv
<1>2. /\ organization'[o] = r /\ Exists(o)'
      /\ \A p \in Org : p # o => organization'[p] = organization[p] /\ (Exists(p)' <=> Exists(p))
  BY NoneIsNothing DEF TableInv, Exists
<1>3. Having(r.slug) \subseteq {o}
  BY DEF Free
<1>4. IndexIsUnique'
  BY <1>2, <1>3 DEF TableInv, IndexIsUnique, Having
<1>5. HoldersExisted' /\ HoldsOneSlug' /\ SlugsGuarded'
  BY <1>2 DEF TableInv, IndexIsUnique, HoldersExisted, HoldsOneSlug, SlugsGuarded
<1>6. QED
  BY <1>1, <1>4, <1>5 DEF TableInv

\* DynamoDB: row, old and new registration move together.
LEMMA SlugMoved ==
  ASSUME TableInv, UNCHANGED <<adapter, minted, loose>>, adapter = "dynamodb",
         NEW o \in Org, Exists(o), NEW r \in Row, NEW old \in Slug,
         organization[o].slug = old, registry[old] = o, Free(o, r.slug),
         organization' = [organization EXCEPT ![o] = r],
         registry' = Moved(o, old, r.slug)
  PROVE  TableInv'
<1> DEFINE s == r.slug
<1>0. s \in Slug /\ r # None /\ o # None /\ registry[s] = None /\ s # old
  BY NoneIsNothing DEF Row, Free
<1>1. /\ organization' \in [Org -> Row \cup {None}]
      /\ registry' \in [Slug -> Org \cup {None}]
  BY <1>0 DEF TableInv, Moved
<1>2. /\ organization'[o] = r /\ Exists(o)'
      /\ \A p \in Org : p # o => organization'[p] = organization[p] /\ (Exists(p)' <=> Exists(p))
  BY <1>0 DEF TableInv, Exists
<1>3. /\ registry'[s] = o /\ registry'[old] = None
      /\ \A t \in Slug : t # s /\ t # old => registry'[t] = registry[t]
  BY <1>0 DEF TableInv, Moved
<1>4. SlugsGuarded'
  <2>1. \A p \in Org : Exists(p) => organization[p].slug \in Slug
    BY RowOf DEF Row
  <2>2. \A p \in Org : p # o /\ Exists(p) /\ p \notin loose =>
          registry[organization[p].slug] = p /\ p # None
    BY NoneIsNothing DEF TableInv, SlugsGuarded
  <2>3. QED
    BY <1>0, <1>2, <1>3, <2>1, <2>2 DEF SlugsGuarded
<1>5. HoldsOneSlug'
  <2>1. \A t \in Slug : registry[t] = o => t = old
    BY <1>0 DEF TableInv, HoldsOneSlug
  <2>2. \A t \in Slug : registry[t] # None => registry[t] \in Org
    BY DEF TableInv
  <2>3. QED
    BY <1>0, <1>2, <1>3, <2>1, <2>2 DEF TableInv, HoldsOneSlug
<1>6. HoldersExisted'
  BY <1>0, <1>2, <1>3 DEF TableInv, HoldersExisted
<1>7. QED
  BY <1>1, <1>4, <1>5, <1>6 DEF TableInv, IndexIsUnique
---------------------------------------------------------------------------
(***************************************************************************)
(* One lemma for each action of a call.                                    *)
(***************************************************************************)
\* What is known of a call in progress.
LEMMA CallFacts ==
  ASSUME CallInv, NEW c \in Call
  PROVE  call[c] \in CallRecord /\ Knows(call[c])
  BY DEF CallInv

\* A call moves to another phase, which asks for no more than it knows.
LEMMA GotoKeeps ==
  ASSUME CallInv, UNCHANGED adapter, NEW c \in Call, NEW p \in Phase,
         Knows([call[c] EXCEPT !.phase = p]), Goto(c, p)
  PROVE  CallInv'
<1>1. [call[c] EXCEPT !.phase = p] \in CallRecord
  BY CallFacts DEF CallRecord
<1>2. QED
  BY <1>1, ContinueKeeps DEF Goto

\* A conflicting transaction is counted and submitted again.
LEMMA RetryKeeps ==
  ASSUME CallInv, UNCHANGED adapter, NEW c \in Call, call[c].attempts + 1 < MaxAttempts,
         Continue(c, [call[c] EXCEPT !.attempts = @ + 1])
  PROVE  CallInv'
<1> DEFINE next == [call[c] EXCEPT !.attempts = @ + 1]
<1>1. next \in CallRecord
  BY CallFacts, SomeAttempts DEF CallRecord
<1>2. Knows(next)
  BY CallFacts DEF CallRecord, Knows
<1>3. QED
  BY <1>1, <1>2, ContinueKeeps

LEMMA AskCreateKeeps ==
  ASSUME IInv, UNCHANGED <<adapter, loose>>, NEW c \in Call,
         NEW o \in Org, NEW h \in Org, NEW n \in Name, NEW s \in Slug, AskCreate(c, o, h, n, s)
  PROVE  TableInv' /\ CallInv'
<1> DEFINE next == [NoCall EXCEPT !.phase = "context", !.org = o, !.home = h, !.name = n, !.slug = s]
<1>1. NoCall \in CallRecord
  BY SomeAttempts DEF NoCall, CallRecord, Phase, Kind
<1>2. next \in CallRecord
  BY <1>1 DEF CallRecord, Phase
<1>3. Knows(next)
  BY <1>1 DEF CallRecord, Knows
<1> HIDE DEF next
<1>4. CallInv'
  BY <1>2, <1>3, ContinueKeeps DEF AskCreate, IInv, next
<1>5. QED
  BY <1>4, TablesStay DEF AskCreate, IInv

LEMMA ReadContextKeeps ==
  ASSUME IInv, UNCHANGED <<adapter, loose>>, NEW c \in Call, ReadContext(c)
  PROVE  TableInv' /\ CallInv'
<1>1. TableInv'
  BY TablesStay DEF ReadContext, IInv
<1>2. CASE Goto(c, "create")
  <2>1. Knows([call[c] EXCEPT !.phase = "create"])
    BY CallFacts DEF ReadContext, At, IInv, CallRecord, Knows
  <2>2. QED
    BY <1>1, <1>2, <2>1, GotoKeeps DEF IInv, Phase
<1>3. CASE Reply(c, "invalid") \/ Reply(c, "forbidden")
  BY <1>1, <1>3, ReplyKeeps DEF IInv, Answer
<1>4. QED
  BY <1>2, <1>3 DEF ReadContext

LEMMA CreateKeeps ==
  ASSUME IInv, UNCHANGED <<adapter, loose>>, NEW c \in Call, Create(c)
  PROVE  TableInv' /\ CallInv'
<1> DEFINE o == call[c].org
<1> DEFINE s == call[c].slug
<1> DEFINE r == [name |-> call[c].name, slug |-> s, active |-> TRUE, confirmed |-> TRUE]
<1>1. PICK creator \in BOOLEAN :
        Write(c, << Condition(o \notin minted, "error"), Condition(Free(o, s), "conflict"),
                    Condition(creator, "reference") >>,
              /\ organization' = [organization EXCEPT ![o] = r]
              /\ registry' = Registered(o, s)
              /\ minted' = minted \cup {o})
  BY Zenon DEF Create
<1> DEFINE v == Verdict(<< Condition(o \notin minted, "error"), Condition(Free(o, s), "conflict"),
                          Condition(creator, "reference") >>)
<1>2. v \in Answer /\ (v = "ok" => o \notin minted /\ Free(o, s))
  <2>1. /\ Condition(o \notin minted, "error").holds <=> o \notin minted
        /\ Condition(Free(o, s), "conflict").holds <=> Free(o, s)
        /\ Condition(o \notin minted, "error").answer = "error"
        /\ Condition(Free(o, s), "conflict").answer = "conflict"
        /\ Condition(creator, "reference").answer = "reference"
    BY DEF Condition
  <2>2. QED
    BY <2>1, VerdictOfThree DEF Answer
<1>3. o \in Org /\ s \in Slug /\ r \in Row
  BY CallFacts DEF Create, At, IInv, Knows, Row
<1> HIDE DEF r
<1>4. \/ /\ v = "ok" /\ (Reply(c, "ok") \/ Reply(c, "error"))
         /\ organization' = [organization EXCEPT ![o] = r]
         /\ registry' = Registered(o, s) /\ minted' = minted \cup {o}
      \/ v # "ok" /\ Reply(c, v) /\ UNCHANGED tables
      \/ Reply(c, "error") /\ UNCHANGED tables
      \/ /\ call[c].attempts + 1 < MaxAttempts /\ Continue(c, [call[c] EXCEPT !.attempts = @ + 1])
         /\ UNCHANGED tables
  BY <1>1, Zenon DEF Write
<1> HIDE DEF v
<1>6. CASE /\ v = "ok" /\ (Reply(c, "ok") \/ Reply(c, "error"))
           /\ organization' = [organization EXCEPT ![o] = r]
           /\ registry' = Registered(o, s) /\ minted' = minted \cup {o}
  <2>1. o \notin minted /\ Free(o, s)
    BY <1>2, <1>6
  <2>2. r.slug = s
    BY DEF r
  <2>3. TableInv'
    BY <1>3, <1>6, <2>1, <2>2, SlugTaken DEF IInv
  <2>4. QED
    BY <1>6, <2>3, ReplyKeeps DEF IInv, Answer
<1>7. CASE v # "ok" /\ Reply(c, v) /\ UNCHANGED tables
  BY <1>2, <1>7, ReplyKeeps, TablesStay DEF IInv
<1>8. CASE Reply(c, "error") /\ UNCHANGED tables
  BY <1>8, ReplyKeeps, TablesStay DEF IInv, Answer
<1>9. CASE /\ call[c].attempts + 1 < MaxAttempts /\ Continue(c, [call[c] EXCEPT !.attempts = @ + 1])
           /\ UNCHANGED tables
  BY <1>9, RetryKeeps, TablesStay DEF IInv
<1>10. QED
  BY <1>4, <1>6, <1>7, <1>8, <1>9

LEMMA AskKeeps ==
  ASSUME IInv, UNCHANGED <<adapter, loose>>, NEW c \in Call,
         NEW kind \in {"rename", "available"}, NEW o \in Org, NEW n \in Name, Ask(c, kind, o, n)
  PROVE  TableInv' /\ CallInv'
<1> DEFINE next == [NoCall EXCEPT !.phase = "access", !.kind = kind, !.org = o, !.name = n]
<1>1. NoCall \in CallRecord
  BY SomeAttempts DEF NoCall, CallRecord, Phase, Kind
<1>2. next \in CallRecord
  BY <1>1 DEF CallRecord, Phase, Kind
<1>3. Knows(next)
  BY <1>1 DEF CallRecord, Knows
<1> HIDE DEF next
<1>4. CallInv'
  BY <1>2, <1>3, ContinueKeeps DEF Ask, IInv, next
<1>5. QED
  BY <1>4, TablesStay DEF Ask, IInv

LEMMA AuthorizeKeeps ==
  ASSUME IInv, UNCHANGED <<adapter, loose>>, NEW c \in Call, Authorize(c)
  PROVE  TableInv' /\ CallInv'
<1> DEFINE q == call[c]
<1> DEFINE s == SlugOf[q.name]
<1> DEFINE p == IF q.kind = "available" THEN "lookup" ELSE IF adapter = "sqlite" THEN "update" ELSE "read"
<1> DEFINE next == [q EXCEPT !.phase = p, !.slug = s]
<1>1. TableInv'
  BY TablesStay DEF Authorize, IInv
<1>2. q \in CallRecord /\ Knows(q) /\ q.phase = "access"
  BY CallFacts DEF Authorize, At, IInv
<1>3. q.org \in Org /\ q.name \in Name
  BY <1>2 DEF Knows
<1>4. CASE s # None /\ Continue(c, next)
  <2>1. s \in Slug
    BY <1>3, <1>4, SlugsAreDerived
  <2>2. p \in Phase /\ (p = "update" => adapter = "sqlite") /\ (p = "read" => adapter = "dynamodb")
        /\ p \in {"lookup", "update", "read"}
    BY DEF IInv, TableInv, Phase
  <2> HIDE DEF s, p
  <2>3. next \in CallRecord
    BY <1>2, <2>1, <2>2 DEF CallRecord
  <2>4. Knows(next)
    BY <1>2, <1>3, <2>1, <2>2 DEF CallRecord, Knows
  <2> HIDE DEF next
  <2>5. QED
    BY <1>1, <1>4, <2>3, <2>4, ContinueKeeps DEF IInv
<1>5. CASE \E a \in Answer : Reply(c, a)
  BY <1>1, <1>5, ReplyKeeps DEF IInv
<1>6. QED
  BY <1>4, <1>5 DEF Authorize, Answer

LEMMA UpdateKeeps ==
  ASSUME IInv, UNCHANGED <<adapter, loose>>, NEW c \in Call, Update(c)
  PROVE  TableInv' /\ CallInv'
<1> DEFINE q == call[c]
<1> DEFINE v == Verdict(<< Condition(Exists(q.org) => Free(q.org, q.slug), "conflict"),
                          Condition(Exists(q.org), "missing") >>)
<1>1. q.org \in Org /\ q.name \in Name /\ q.slug \in Slug /\ adapter = "sqlite"
  BY CallFacts DEF Update, At, IInv, Knows
<1>2. v \in Answer /\ (v = "ok" => Exists(q.org) /\ Free(q.org, q.slug))
  <2>1. /\ Condition(Exists(q.org) => Free(q.org, q.slug), "conflict").holds
              <=> (Exists(q.org) => Free(q.org, q.slug))
        /\ Condition(Exists(q.org), "missing").holds <=> Exists(q.org)
        /\ Condition(Exists(q.org) => Free(q.org, q.slug), "conflict").answer = "conflict"
        /\ Condition(Exists(q.org), "missing").answer = "missing"
    BY DEF Condition
  <2>2. QED
    BY <2>1, VerdictOfTwo DEF Answer
<1>3. \/ /\ v = "ok" /\ Reply(c, "ok")
         /\ organization' = Renamed(q.org, q.name, q.slug) /\ UNCHANGED <<registry, minted>>
      \/ v # "ok" /\ Reply(c, v) /\ UNCHANGED tables
      \/ Reply(c, "error") /\ UNCHANGED tables
  BY <1>1, Zenon DEF Update, Write
<1> HIDE DEF v
<1>4. CASE /\ v = "ok" /\ Reply(c, "ok")
           /\ organization' = Renamed(q.org, q.name, q.slug) /\ UNCHANGED <<registry, minted>>
  <2> DEFINE r == [organization[q.org] EXCEPT !.name = q.name, !.slug = q.slug, !.confirmed = TRUE]
  <2>1. organization[q.org] \in Row
    BY <1>1, <1>2, <1>4, RowOf DEF IInv
  <2>2. r \in Row /\ r.slug = q.slug
    BY <1>1, <2>1 DEF Row
  <2>3. organization' = [organization EXCEPT ![q.org] = r]
    BY <1>1, <1>4, <2>1 DEF Renamed, IInv, TableInv, Row
  <2> HIDE DEF r
  <2>4. TableInv'
    BY <1>1, <1>2, <1>4, <2>2, <2>3, SlugUpdated DEF IInv
  <2>5. QED
    BY <1>4, <2>4, ReplyKeeps DEF IInv, Answer
<1>5. CASE v # "ok" /\ Reply(c, v) /\ UNCHANGED tables
  BY <1>2, <1>5, ReplyKeeps, TablesStay DEF IInv
<1>6. CASE Reply(c, "error") /\ UNCHANGED tables
  BY <1>6, ReplyKeeps, TablesStay DEF IInv, Answer
<1>7. QED
  BY <1>3, <1>4, <1>5, <1>6

LEMMA ReadSlugKeeps ==
  ASSUME IInv, UNCHANGED <<adapter, loose>>, NEW c \in Call, ReadSlug(c)
  PROVE  TableInv' /\ CallInv'
<1> DEFINE q == call[c]
<1>1. TableInv'
  BY TablesStay DEF ReadSlug, IInv
<1>2. q \in CallRecord /\ Knows(q) /\ q.phase = "read"
  BY CallFacts DEF ReadSlug, At, IInv
<1>3. CASE Reply(c, "missing")
  BY <1>1, <1>3, ReplyKeeps DEF IInv, Answer
<1>4. CASE Goto(c, "name")
  <2>1. Knows([call[c] EXCEPT !.phase = "name"])
    BY <1>2 DEF CallRecord, Knows
  <2>2. QED
    BY <1>1, <1>4, <2>1, GotoKeeps DEF IInv, Phase
<1>5. CASE Exists(q.org) /\ Continue(c, [q EXCEPT !.phase = "slug", !.old = organization[q.org].slug])
  <2> DEFINE old == organization[q.org].slug
  <2> DEFINE next == [q EXCEPT !.phase = "slug", !.old = old]
  <2>1. old \in Slug
    BY <1>2, <1>5, RowOf DEF IInv, Knows, Row
  <2> HIDE DEF old
  <2>2. next \in CallRecord /\ Knows(next)
    BY <1>2, <2>1 DEF CallRecord, Knows, Phase
  <2> HIDE DEF next
  <2>3. QED
    BY <1>1, <1>5, <2>2, ContinueKeeps DEF IInv, next, old
<1>6. QED
  BY <1>3, <1>4, <1>5 DEF ReadSlug

LEMMA UpdateNameKeeps ==
  ASSUME IInv, UNCHANGED <<adapter, loose>>, NEW c \in Call, UpdateName(c)
  PROVE  TableInv' /\ CallInv'
<1> DEFINE q == call[c]
<1>1. q.org \in Org /\ q.name \in Name
  BY CallFacts DEF UpdateName, At, IInv, Knows
<1>2. CallInv'
  BY ReplyKeeps DEF UpdateName, IInv, Answer
<1>3. CASE /\ Exists(q.org) /\ UNCHANGED <<registry, minted>>
           /\ organization' = [organization EXCEPT ![q.org].name = q.name, ![q.org].confirmed = TRUE]
  <2> DEFINE r == [organization[q.org] EXCEPT !.name = q.name, !.confirmed = TRUE]
  <2>1. organization[q.org] \in Row
    BY <1>1, <1>3, RowOf DEF IInv
  <2>2. r \in Row /\ r.slug = organization[q.org].slug
    BY <1>1, <2>1 DEF Row
  <2>3. organization' = [organization EXCEPT ![q.org] = r]
    BY <1>1, <1>3, <2>1 DEF IInv, TableInv, Row
  <2> HIDE DEF r
  <2>4. QED
    BY <1>1, <1>2, <1>3, <2>2, <2>3, RowChanges DEF IInv
<1>4. CASE UNCHANGED tables
  BY <1>2, <1>4, TablesStay DEF IInv
<1>5. QED
  BY <1>3, <1>4 DEF UpdateName

LEMMA UpdateSlugKeeps ==
  ASSUME IInv, UNCHANGED <<adapter, loose>>, NEW c \in Call, UpdateSlug(c)
  PROVE  TableInv' /\ CallInv'
<1> DEFINE q == call[c]
<1> DEFINE current == Exists(q.org) /\ organization[q.org].slug = q.old
<1> DEFINE v == Verdict(<< Condition(Exists(q.org) /\ organization[q.org].slug = q.old, "missing"),
                          Condition(registry[q.old] = q.org, "missing"),
                          Condition(Free(q.org, q.slug), "conflict") >>)
<1>1. q.org \in Org /\ q.name \in Name /\ q.slug \in Slug /\ q.old \in Slug /\ adapter = "dynamodb"
  BY CallFacts DEF UpdateSlug, At, IInv, Knows
<1>2. /\ v \in Answer
      /\ v = "ok" => current /\ registry[q.old] = q.org /\ Free(q.org, q.slug)
  <2>1. /\ Condition(Exists(q.org) /\ organization[q.org].slug = q.old, "missing").holds <=> current
        /\ Condition(registry[q.old] = q.org, "missing").holds <=> registry[q.old] = q.org
        /\ Condition(Free(q.org, q.slug), "conflict").holds <=> Free(q.org, q.slug)
        /\ Condition(Exists(q.org) /\ organization[q.org].slug = q.old, "missing").answer = "missing"
        /\ Condition(registry[q.old] = q.org, "missing").answer = "missing"
        /\ Condition(Free(q.org, q.slug), "conflict").answer = "conflict"
    BY DEF Condition
  <2>2. QED
    BY <2>1, VerdictOfThree DEF Answer
<1>3. \/ /\ v = "ok" /\ (Reply(c, "ok") \/ Reply(c, "error"))
         /\ organization' = Renamed(q.org, q.name, q.slug)
         /\ registry' = Moved(q.org, q.old, q.slug) /\ UNCHANGED minted
      \/ v # "ok" /\ Reply(c, v) /\ UNCHANGED tables
      \/ Reply(c, "error") /\ UNCHANGED tables
      \/ /\ call[c].attempts + 1 < MaxAttempts /\ Continue(c, [call[c] EXCEPT !.attempts = @ + 1])
         /\ UNCHANGED tables
  BY Zenon DEF UpdateSlug, Write
<1> HIDE DEF v
<1>4. CASE /\ v = "ok" /\ (Reply(c, "ok") \/ Reply(c, "error"))
           /\ organization' = Renamed(q.org, q.name, q.slug)
           /\ registry' = Moved(q.org, q.old, q.slug) /\ UNCHANGED minted
  <2> DEFINE r == [organization[q.org] EXCEPT !.name = q.name, !.slug = q.slug, !.confirmed = TRUE]
  <2>1. organization[q.org] \in Row
    BY <1>1, <1>2, <1>4, RowOf DEF IInv
  <2>2. r \in Row /\ r.slug = q.slug
    BY <1>1, <2>1 DEF Row
  <2>3. organization' = [organization EXCEPT ![q.org] = r]
    BY <1>1, <1>4, <2>1 DEF Renamed, IInv, TableInv, Row
  <2> HIDE DEF r
  <2>4. TableInv'
    BY <1>1, <1>2, <1>4, <2>2, <2>3, SlugMoved DEF IInv
  <2>5. QED
    BY <1>4, <2>4, ReplyKeeps DEF IInv, Answer
<1>5. CASE v # "ok" /\ Reply(c, v) /\ UNCHANGED tables
  BY <1>2, <1>5, ReplyKeeps, TablesStay DEF IInv
<1>6. CASE Reply(c, "error") /\ UNCHANGED tables
  BY <1>6, ReplyKeeps, TablesStay DEF IInv, Answer
<1>7. CASE /\ call[c].attempts + 1 < MaxAttempts /\ Continue(c, [call[c] EXCEPT !.attempts = @ + 1])
           /\ UNCHANGED tables
  BY <1>7, RetryKeeps, TablesStay DEF IInv
<1>8. QED
  BY <1>3, <1>4, <1>5, <1>6, <1>7

LEMMA LookupOrFailKeeps ==
  ASSUME IInv, UNCHANGED <<adapter, loose>>, NEW c \in Call, LookupSlug(c) \/ Fail(c)
  PROVE  TableInv' /\ CallInv'
<1>1. UNCHANGED tables /\ \E a \in Answer : Reply(c, a)
  BY DEF LookupSlug, Fail, Answer
<1>2. QED
  BY <1>1, ReplyKeeps, TablesStay DEF IInv

\* Any step of a call.
LEMMA ServeKeeps ==
  ASSUME IInv, NEW c \in Call, Serve(c)
  PROVE  IInv'
<1>1. UNCHANGED <<adapter, loose>> /\ UNCHANGED erasing
  BY DEF Serve
<1>2. TableInv' /\ CallInv'
  BY <1>1, AskCreateKeeps, ReadContextKeeps, CreateKeeps, AskKeeps, AuthorizeKeeps, UpdateKeeps,
     ReadSlugKeeps, UpdateNameKeeps, UpdateSlugKeeps, LookupOrFailKeeps DEF Serve, CallStep
<1>3. ErasingInv'
  BY <1>1 DEF IInv, ErasingInv
<1>4. QED
  BY <1>2, <1>3 DEF IInv
---------------------------------------------------------------------------
(***************************************************************************)
(* One lemma for what administrators do.                                   *)
(***************************************************************************)
\* Whoever loses a registration to a deletion is noted.
LEMMA RegistrationErased ==
  ASSUME TableInv, UNCHANGED <<adapter, organization, minted>>, adapter = "dynamodb", NEW s \in Slug,
         registry' = [registry EXCEPT ![s] = None],
         loose' = loose \cup ({registry[s]} \ {None})
  PROVE  TableInv'
<1>1. registry' \in [Slug -> Org \cup {None}] /\ loose' \in SUBSET Org
  BY DEF TableInv
<1>2. registry'[s] = None /\ \A t \in Slug : t # s => registry'[t] = registry[t]
  BY DEF TableInv
<1>3. SlugsGuarded'
  <2>1. \A o \in Org : Exists(o) => organization[o].slug \in Slug
    BY RowOf DEF Row
  <2>2. \A o \in Org : Exists(o)' <=> Exists(o)
    BY DEF Exists
  <2>3. \A o \in Org : o # None
    BY NoneIsNothing
  <2>4. QED
    BY <1>2, <2>1, <2>2, <2>3 DEF TableInv, SlugsGuarded
<1>4. HoldsOneSlug' /\ HoldersExisted'
  BY <1>2 DEF TableInv, HoldsOneSlug, HoldersExisted, Exists
<1>5. QED
  BY <1>1, <1>3, <1>4 DEF TableInv, IndexIsUnique

LEMMA SetActiveKeeps ==
  ASSUME TableInv, UNCHANGED <<adapter, registry, minted, loose>>, NEW o \in Org, NEW a \in BOOLEAN,
         Exists(o), organization' = [organization EXCEPT ![o].active = a]
  PROVE  TableInv'
<1> DEFINE r == [organization[o] EXCEPT !.active = a]
<1>1. organization[o] \in Row
  BY RowOf
<1>2. r \in Row /\ r.slug = organization[o].slug
  BY <1>1 DEF Row
<1>3. organization' = [organization EXCEPT ![o] = r]
  BY <1>1 DEF TableInv, Row
<1> HIDE DEF r
<1>4. QED
  BY <1>2, <1>3, RowChanges

LEMMA AdministerKeeps == IInv /\ Administer => IInv'
<1> SUFFICES ASSUME IInv, Administer PROVE IInv'
  OBVIOUS
<1>1. ASSUME NEW o \in Org, DeleteAtOnce(o) PROVE TableInv' /\ ErasingInv'
  <2>1. TableInv'
    BY <1>1, RowGoes DEF DeleteAtOnce, IInv
  <2>2. QED
    BY <1>1, <2>1 DEF DeleteAtOnce, IInv, ErasingInv
<1>2. ASSUME NEW o \in Org, BeginDeletion(o) PROVE TableInv' /\ ErasingInv'
  <2>1. TableInv'
    BY <1>2, SetActiveKeeps DEF BeginDeletion, IInv
  <2>2. QED
    BY <1>2, <2>1 DEF BeginDeletion, IInv, ErasingInv, NoErasing
<1>3. ASSUME NEW o \in Org, NEW a \in BOOLEAN, SetActive(o, a) PROVE TableInv' /\ ErasingInv'
  <2>1. TableInv'
    BY <1>3, SetActiveKeeps DEF SetActive, IInv
  <2>2. QED
    BY <1>3, <2>1 DEF SetActive, IInv, ErasingInv
<1>4. ASSUME ScanSlugs PROVE TableInv' /\ ErasingInv'
  BY <1>4, TablesStay DEF ScanSlugs, IInv, ErasingInv
<1>5. ASSUME NEW s \in Slug, EraseSlug(s) PROVE TableInv' /\ ErasingInv'
  <2>1. adapter = "dynamodb"
    BY <1>5 DEF EraseSlug, IInv, ErasingInv
  <2>2. TableInv'
    BY <1>5, <2>1, RegistrationErased DEF EraseSlug, IInv
  <2>3. QED
    BY <1>5, <2>2 DEF EraseSlug, IInv, ErasingInv
<1>6. ASSUME EraseOrganization PROVE TableInv' /\ ErasingInv'
  <2>1. erasing.org \in Org
    BY <1>6 DEF EraseOrganization, IInv, ErasingInv
  <2>2. TableInv'
    BY <1>6, <2>1, RowGoes DEF EraseOrganization, IInv
  <2>3. QED
    BY <1>6, <2>2 DEF EraseOrganization, ErasingInv, NoErasing
<1>7. ASSUME Abandon PROVE TableInv' /\ ErasingInv'
  BY <1>7, TablesStay DEF Abandon, IInv, ErasingInv, NoErasing
<1>8. TableInv' /\ ErasingInv'
  BY <1>1, <1>2, <1>3, <1>4, <1>5, <1>6, <1>7 DEF Administer
<1>9. UNCHANGED <<adapter, call>> /\ outcome' = Silence
  BY DEF Administer, SetActive, DeleteAtOnce, BeginDeletion, ScanSlugs, EraseSlug, EraseOrganization, Abandon
<1>10. QED
  BY <1>8, <1>9, CallsStay DEF IInv
---------------------------------------------------------------------------
LEMMA InvStep == ASSUME IInv, [Next]_vars PROVE IInv'
<1>1. CASE Next
  BY <1>1, ServeKeeps, AdministerKeeps DEF Next
<1>2. CASE UNCHANGED vars
  <2>1. TableInv'
    BY <1>2, TablesStay DEF vars, IInv
  <2>2. CallInv' /\ ErasingInv'
    BY <1>2 DEF vars, IInv, CallInv, Knows, ErasingInv
  <2>3. QED
    BY <2>1, <2>2 DEF IInv
<1>3. QED
  BY <1>1, <1>2

\* The invariant holds in every state of every behaviour.
THEOREM Invariance == Spec => []IInv
  BY InvInit, InvStep, PTL DEF Spec

LEMMA InvTypes == IInv => TypeOK
  BY DEF IInv, TableInv, CallInv, ErasingInv, CallRecord, TypeOK

\* The variables keep their types (Organizations.TypeOK).
THEOREM TypeCorrect == Spec => []TypeOK
  BY Invariance, InvTypes, PTL

\* On DynamoDB every organization holds the registration of its slug unless a
\* deletion has erased it, whatever renames and creations do at the same time
\* (update_organization, provision_organization, delete_organization).
THEOREM SlugsAreGuarded == Spec => []SlugsGuarded
<1>1. IInv => SlugsGuarded
  BY DEF IInv, TableInv
<1>2. QED
  BY Invariance, <1>1, PTL

LEMMA InvUnique == ASSUME IInv PROVE SlugsUnique
<1> SUFFICES ASSUME NEW o \in Org, NEW p \in Org, o # p, Exists(o), Exists(p),
                    organization[o].slug = organization[p].slug
             PROVE  adapter = "dynamodb" /\ {o, p} \cap loose # {}
  BY DEF SlugsUnique
<1>1. adapter = "dynamodb"
  BY DEF IInv, TableInv, IndexIsUnique
<1>2. o \in loose \/ p \in loose
  BY <1>1 DEF IInv, TableInv, SlugsGuarded
<1>3. QED
  BY <1>1, <1>2

\* Hence two organizations share a slug only on DynamoDB, and only when a
\* deletion has erased the registration of one of them.
THEOREM SlugsAreUnique == Spec => []SlugsUnique
  BY Invariance, InvUnique, PTL
---------------------------------------------------------------------------
(***************************************************************************)
(* What the answers say.                                                   *)
(***************************************************************************)
\* Only creations are in the phases of a creation.
KindFits == \A c \in Call : call[c].phase \in {"context", "create"} => call[c].kind = "create"

LEMMA KindStays == ASSUME IInv, KindFits, [Next]_vars PROVE KindFits'
<1>1. call \in [Call -> CallRecord]
  BY DEF IInv, CallInv
<1>2. CASE UNCHANGED call
  BY <1>2 DEF KindFits
<1>3. ASSUME NEW c \in Call, call' = [call EXCEPT ![c] = NoCall] PROVE KindFits'
  BY <1>1, <1>3 DEF KindFits, NoCall
<1>4. ASSUME NEW c \in Call, NEW next, call' = [call EXCEPT ![c] = next],
             next.phase \in {"context", "create"} => next.kind = "create"
      PROVE  KindFits'
  BY <1>1, <1>4 DEF KindFits
<1>5. ASSUME NEW c \in Call, CallStep(c) PROVE KindFits'
  <2>1. call[c] \in CallRecord /\ (call[c].phase \in {"context", "create"} => call[c].kind = "create")
    BY <1>1 DEF KindFits
  <2>2. ASSUME NEW phase, Goto(c, phase), phase = "create" => call[c].kind = "create", phase # "context"
        PROVE  KindFits'
    <3> DEFINE next == [call[c] EXCEPT !.phase = phase]
    <3>1. next.phase = phase /\ next.kind = call[c].kind
      BY <2>1 DEF CallRecord
    <3>2. call' = [call EXCEPT ![c] = next]
      BY <2>2 DEF Goto, Continue
    <3> HIDE DEF next
    <3>3. QED
      BY <1>4, <2>2, <3>1, <3>2
  <2>3. ASSUME NEW a, Reply(c, a) PROVE KindFits'
    BY <1>3, <2>3 DEF Reply
  <2>4. ASSUME Continue(c, [call[c] EXCEPT !.attempts = @ + 1]) PROVE KindFits'
    <3> DEFINE next == [call[c] EXCEPT !.attempts = @ + 1]
    <3>1. next.phase = call[c].phase /\ next.kind = call[c].kind
      BY <2>1 DEF CallRecord
    <3>2. call' = [call EXCEPT ![c] = next]
      BY <2>4 DEF Continue
    <3> HIDE DEF next
    <3>3. QED
      BY <1>4, <2>1, <3>1, <3>2
  <2>5. CASE \E o, h \in Org, n \in Name, s \in Slug : AskCreate(c, o, h, n, s)
    <3>1. PICK o \in Org, h \in Org, n \in Name, s \in Slug : AskCreate(c, o, h, n, s)
      BY <2>5, Zenon
    <3> DEFINE next == [NoCall EXCEPT !.phase = "context", !.org = o, !.home = h, !.name = n, !.slug = s]
    <3>2. next.kind = "create"
      BY DEF NoCall
    <3>3. call' = [call EXCEPT ![c] = next]
      BY <3>1 DEF AskCreate, Continue
    <3> HIDE DEF next
    <3>4. QED
      BY <1>4, <3>2, <3>3
  <2>6. CASE \E o \in Org, n \in Name, kind \in {"rename", "available"} : Ask(c, kind, o, n)
    <3>1. PICK o \in Org, n \in Name, kind \in {"rename", "available"} : Ask(c, kind, o, n)
      BY <2>6, Zenon
    <3> DEFINE next == [NoCall EXCEPT !.phase = "access", !.kind = kind, !.org = o, !.name = n]
    <3>2. next.phase = "access"
      BY DEF NoCall
    <3>3. call' = [call EXCEPT ![c] = next]
      BY <3>1 DEF Ask, Continue
    <3> HIDE DEF next
    <3>4. QED
      BY <1>4, <3>2, <3>3
  <2>7. CASE ReadContext(c)
    BY <2>1, <2>2, <2>3, <2>7 DEF ReadContext, At
  <2>8. CASE Create(c) \/ Update(c) \/ UpdateSlug(c)
    <3>1. (\E a \in {"ok", "error"} : Reply(c, a)) \/ (\E a : Reply(c, a))
          \/ Continue(c, [call[c] EXCEPT !.attempts = @ + 1])
      BY <2>8, Zenon DEF Create, Update, UpdateSlug, Write
    <3>2. QED
      BY <2>3, <2>4, <3>1
  <2>9. CASE Authorize(c)
    <3>0. PICK p \in {"lookup", "update", "read"} :
            p = IF call[c].kind = "available" THEN "lookup" ELSE IF adapter = "sqlite" THEN "update" ELSE "read"
      BY Zenon
    <3>1. \/ \E a : Reply(c, a)
          \/ Continue(c, [call[c] EXCEPT !.phase = p, !.slug = SlugOf[call[c].name]])
      BY <2>9, <3>0, Zenon DEF Authorize
    <3> DEFINE next == [call[c] EXCEPT !.phase = p, !.slug = SlugOf[call[c].name]]
    <3>2. next.phase = p
      BY <2>1 DEF CallRecord
    <3>3. (\E a : Reply(c, a)) \/ call' = [call EXCEPT ![c] = next]
      BY <3>1 DEF Continue
    <3> HIDE DEF next
    <3>4. QED
      BY <1>4, <2>3, <3>2, <3>3
  <2>10. CASE ReadSlug(c)
    <3>1. \/ Reply(c, "missing") \/ Goto(c, "name")
          \/ Continue(c, [call[c] EXCEPT !.phase = "slug", !.old = organization[call[c].org].slug])
      BY <2>10, Zenon DEF ReadSlug
    <3> DEFINE next == [call[c] EXCEPT !.phase = "slug", !.old = organization[call[c].org].slug]
    <3>2. next.phase = "slug"
      BY <2>1 DEF CallRecord
    <3>3. Reply(c, "missing") \/ Goto(c, "name") \/ call' = [call EXCEPT ![c] = next]
      BY <3>1 DEF Continue
    <3> HIDE DEF next
    <3>4. QED
      BY <1>4, <2>2, <2>3, <3>2, <3>3
  <2>11. CASE UpdateName(c) \/ LookupSlug(c) \/ Fail(c)
    <3>1. \E a : Reply(c, a)
      BY <2>11, Zenon DEF UpdateName, LookupSlug, Fail
    <3>2. QED
      BY <2>3, <3>1
  <2>12. QED
    BY <1>5, <2>5, <2>6, <2>7, <2>8, <2>9, <2>10, <2>11 DEF CallStep
<1>6. QED
  BY <1>2, <1>5 DEF Next, Serve, Administer, vars

\* An answer that says nothing of taken slugs or missing creators.
Plain(c) == outcome' = Silence \/ \E a \in Answer \ {"reference", "conflict"} : Reply(c, a)

Decides(c) ==
  /\ Answers(c, "reference") => Free(call[c].org, call[c].slug)
  /\ Answers(c, "conflict") /\ call[c].kind = "rename" => Exists(call[c].org)

LEMMA RepliesAnswer ==
  ASSUME NEW c \in Call, NEW d \in Call, NEW a, Reply(d, a), NEW b \in {"reference", "conflict"}, Answers(c, b)
  PROVE  c = d /\ a = b
  BY DEF Reply, Silence, Answers

LEMMA SilenceDecides == ASSUME NEW c \in Call, outcome' = Silence PROVE Decides(c)
  BY DEF Decides, Answers, Silence

LEMMA PlainDecides == ASSUME NEW c \in Call, NEW d \in Call, Plain(d) PROVE Decides(c)
<1>1. ASSUME NEW a \in Answer \ {"reference", "conflict"}, Reply(d, a) PROVE Decides(c)
  BY <1>1, RepliesAnswer DEF Decides
<1>2. QED
  BY <1>1, SilenceDecides DEF Plain

\* What a write answers.
LEMMA CreateDecides ==
  ASSUME NEW c \in Call, NEW d \in Call, KindFits, Create(d) PROVE Decides(c)
<1> DEFINE o == call[d].org
<1> DEFINE s == call[d].slug
<1>1. PICK creator \in BOOLEAN :
        Write(d, << Condition(o \notin minted, "error"), Condition(Free(o, s), "conflict"),
                    Condition(creator, "reference") >>,
              /\ organization' = [organization EXCEPT ![o] =
                   [name |-> call[d].name, slug |-> s, active |-> TRUE, confirmed |-> TRUE]]
              /\ registry' = Registered(o, s)
              /\ minted' = minted \cup {o})
  BY Zenon DEF Create
<1> DEFINE v == Verdict(<< Condition(o \notin minted, "error"), Condition(Free(o, s), "conflict"),
                          Condition(creator, "reference") >>)
<1>2. v = "reference" => Free(o, s)
  <2>1. /\ Condition(Free(o, s), "conflict").holds <=> Free(o, s)
        /\ Condition(o \notin minted, "error").answer = "error"
        /\ Condition(Free(o, s), "conflict").answer = "conflict"
    BY DEF Condition
  <2>2. QED
    BY <2>1, VerdictOfThree
<1>3. outcome' = Silence \/ Reply(d, "ok") \/ Reply(d, "error") \/ Reply(d, v)
  BY <1>1, Zenon DEF Write, Continue
<1>4. call[d].kind = "create"
  BY DEF Create, At, KindFits
<1> HIDE DEF v
<1>5. QED
  BY <1>2, <1>3, <1>4, RepliesAnswer, SilenceDecides DEF Decides

LEMMA UpdateDecides ==
  ASSUME NEW c \in Call, NEW d \in Call, Update(d) PROVE Decides(c)
<1> DEFINE q == call[d]
<1> DEFINE v == Verdict(<< Condition(Exists(q.org) => Free(q.org, q.slug), "conflict"),
                          Condition(Exists(q.org), "missing") >>)
<1>1. v # "reference" /\ (v = "conflict" => Exists(q.org))
  <2>1. /\ Condition(Exists(q.org) => Free(q.org, q.slug), "conflict").holds
             <=> (Exists(q.org) => Free(q.org, q.slug))
        /\ Condition(Exists(q.org) => Free(q.org, q.slug), "conflict").answer = "conflict"
        /\ Condition(Exists(q.org), "missing").answer = "missing"
    BY DEF Condition
  <2>2. QED
    BY <2>1, VerdictOfTwo
<1>2. outcome' = Silence \/ Reply(d, "ok") \/ Reply(d, "error") \/ Reply(d, v)
  BY Zenon DEF Update, Write, Continue
<1> HIDE DEF v
<1>3. QED
  BY <1>1, <1>2, RepliesAnswer, SilenceDecides DEF Decides

LEMMA UpdateSlugDecides ==
  ASSUME NEW c \in Call, NEW d \in Call, UpdateSlug(d) PROVE Decides(c)
<1> DEFINE q == call[d]
<1> DEFINE h == Exists(q.org) /\ organization[q.org].slug = q.old
<1> DEFINE v == Verdict(<< Condition(h, "missing"), Condition(registry[q.old] = q.org, "missing"),
                          Condition(Free(q.org, q.slug), "conflict") >>)
<1>1. v # "reference" /\ (v = "conflict" => Exists(q.org))
  <2>1. /\ Condition(h, "missing").holds <=> h
        /\ Condition(h, "missing").answer = "missing"
        /\ Condition(registry[q.old] = q.org, "missing").answer = "missing"
        /\ Condition(Free(q.org, q.slug), "conflict").answer = "conflict"
    BY DEF Condition
  <2>2. QED
    BY <2>1, VerdictOfThree
<1>2. outcome' = Silence \/ Reply(d, "ok") \/ Reply(d, "error") \/ Reply(d, v)
  BY Zenon DEF UpdateSlug, Write, Continue
<1> HIDE DEF v
<1>3. QED
  BY <1>1, <1>2, RepliesAnswer, SilenceDecides DEF Decides

\* Everything else answers plainly.
LEMMA OthersArePlain ==
  ASSUME NEW d \in Call, CallStep(d), ~Create(d), ~Update(d), ~UpdateSlug(d) PROVE Plain(d)
<1>1. {"ok", "missing", "forbidden", "invalid", "taken", "error"} \subseteq Answer \ {"reference", "conflict"}
  BY DEF Answer
<1>2. \/ outcome' = Silence \/ Reply(d, "ok") \/ Reply(d, "missing") \/ Reply(d, "forbidden")
      \/ Reply(d, "invalid") \/ Reply(d, "taken") \/ Reply(d, "error")
  BY Zenon
  DEF CallStep, AskCreate, ReadContext, Ask, Authorize, ReadSlug, UpdateName, LookupSlug, Fail, Goto, Continue
<1>3. QED
  BY <1>1, <1>2 DEF Plain

LEMMA NextDecides == ASSUME KindFits, Next, NEW c \in Call PROVE Decides(c)
<1>1. ASSUME NEW d \in Call, CallStep(d) PROVE Decides(c)
  BY <1>1, CreateDecides, UpdateDecides, UpdateSlugDecides, OthersArePlain, PlainDecides
<1>2. CASE Administer
  BY <1>2, SilenceDecides DEF Administer
<1>3. QED
  BY <1>1, <1>2 DEF Next, Serve

LEMMA KindInit == Init => KindFits
  BY DEF Init, KindFits, NoCall

\* A caller hears of the first of several broken conditions, on both adapters
\* and whatever happens between the reads and the write of its call
\* (classify_cancellation_reasons, the statement order of SQLite).
THEOREM FirstDecides == Spec => FirstConditionDecides
<1>1. KindFits /\ [Next]_vars =>
        [\A c \in Call :
           /\ Answers(c, "reference") => Free(call[c].org, call[c].slug)
           /\ Answers(c, "conflict") /\ call[c].kind = "rename" => Exists(call[c].org)]_vars
  BY NextDecides DEF Decides
<1>2. QED
  BY <1>1, KindInit, KindStays, Invariance, PTL DEF Spec, FirstConditionDecides
---------------------------------------------------------------------------
(***************************************************************************)
(* The lists: the first n of a set of organizations and the last of it.    *)
(***************************************************************************)
\* A set of natural numbers that is not empty has a least element.
LEMMA LeastExists ==
  ASSUME NEW S \in SUBSET Nat, S # {}
  PROVE  \E x \in S : \A y \in S : x =< y
<1>1. PICK x \in S : \A y \in S : <<y, x>> \notin OpToRel(<, Nat)
  BY NatLessThanWellFounded, WFMin
<1>2. OpToRel(<, Nat) = {p \in Nat \X Nat : p[1] < p[2]}
  BY DEF OpToRel
<1>3. ASSUME NEW y \in S PROVE x =< y
  <2>1. x \in Nat /\ y \in Nat /\ ~ (y < x)
    BY <1>1, <1>2
  <2>2. QED
    BY <2>1
<1>4. QED
  BY <1>1, <1>3

\* Sets of organizations are finite.
LEMMA OrgsCount ==
  ASSUME NEW S \in SUBSET Org
  PROVE  /\ S \in SUBSET Nat /\ \A x \in S : x \in Nat
         /\ IsFiniteSet(S) /\ Cardinality(S) \in Nat
         /\ \A T \in SUBSET S : Cardinality(T) =< Cardinality(S)
         /\ \A T \in SUBSET S : Cardinality(S) = Cardinality(T) => S = T
         /\ Cardinality({}) = 0
<1>1. IsFiniteSet(S)
  BY OrgsAreOrdered, FS_Subset
<1>2. Cardinality(S) \in Nat
  BY <1>1, FS_CardinalityType
<1>3. ASSUME NEW T \in SUBSET S
      PROVE  Cardinality(T) =< Cardinality(S) /\ (Cardinality(S) = Cardinality(T) => S = T)
  BY <1>1, FS_Subset
<1>4. QED
  BY <1>1, <1>2, <1>3, OrgsAreOrdered, FS_EmptySet

\* The organizations of os before o.
Before(o, os) == {p \in os : p < o}

\* A finite set of organizations that is not empty has a last one.
LEMMA LastExists ==
  ASSUME NEW S \in SUBSET Org, S # {}
  PROVE  \E x \in S : \A y \in S : x >= y
<1> DEFINE After(o) == {p \in S : p > o}
<1> DEFINE Counts == {Cardinality(After(o)) : o \in S}
<1>1. \A o \in S : Cardinality(After(o)) \in Nat
  BY OrgsCount
<1>2. Counts \in SUBSET Nat /\ Counts # {}
  BY <1>1
<1>3. PICK n \in Counts : \A k \in Counts : n =< k
  BY <1>2, LeastExists
<1>4. PICK x \in S : n = Cardinality(After(x))
  BY <1>3
<1>5. ASSUME NEW y \in S, ~ (x >= y) PROVE FALSE
  <2>1. x \in Nat /\ y \in Nat /\ S \in SUBSET Nat /\ y > x
    BY <1>5, OrgsCount
  <2>2. After(y) \subseteq After(x) /\ y \in After(x) /\ y \notin After(y)
    <3>1. \A p \in S : p \in Nat
      BY OrgsCount
    <3>2. \A p \in S : p > y => p > x
      BY <2>1, <3>1
    <3>3. ~ (y > y)
      BY <2>1
    <3>4. QED
      BY <2>1, <3>2, <3>3
  <2>3. Cardinality(After(y)) =< Cardinality(After(x)) /\ Cardinality(After(y)) # Cardinality(After(x))
    <3>1. After(x) \in SUBSET Org /\ After(y) \in SUBSET After(x) /\ After(x) # After(y)
      BY <2>2
    <3> HIDE DEF After
    <3>2. QED
      BY <3>1, OrgsCount
  <2>4. Cardinality(After(x)) =< Cardinality(After(y))
    BY <1>3, <1>4
  <2>5. QED
    BY <1>1, <2>3, <2>4
<1>6. QED
  BY <1>5

LEMMA LastIsMember ==
  ASSUME NEW S \in SUBSET Org, S # {}
  PROVE  Max(S) \in S /\ Max(S) \in Nat /\ \A y \in S : y =< Max(S)
<1>1. \E x \in S : \A y \in S : x >= y
  BY LastExists
<1>2. Max(S) \in S /\ \A y \in S : Max(S) >= y
  BY <1>1 DEF Max
<1>3. S \in SUBSET Nat
  BY OrgsCount
<1>4. QED
  BY <1>2, <1>3

\* The first n of a set come before the others.
LEMMA FirstIsInitial ==
  ASSUME NEW S \in SUBSET Org, NEW n \in Nat, NEW x \in First(n, S), NEW y \in S, y =< x
  PROVE  y \in First(n, S)
<1>1. x \in S /\ Cardinality(Before(x, S)) < n
  BY DEF First, Before
<1>2. x \in Nat /\ \A p \in S : p \in Nat
  BY <1>1, OrgsCount
<1>3. Before(y, S) \in SUBSET Before(x, S) /\ Before(x, S) \in SUBSET Org
  <2>1. \A p \in S : p < y => p < x
    BY <1>2
  <2>2. QED
    BY <2>1 DEF Before
<1>4. /\ Cardinality(Before(y, S)) =< Cardinality(Before(x, S))
      /\ Cardinality(Before(y, S)) \in Nat /\ Cardinality(Before(x, S)) \in Nat
  BY <1>3, OrgsCount
<1>5. QED
  BY <1>1, <1>4 DEF First, Before

\* If the first n are not all, they are n at least.
LEMMA FirstIsEnough ==
  ASSUME NEW S \in SUBSET Org, NEW n \in Nat, First(n, S) # S
  PROVE  Cardinality(First(n, S)) >= n
<1> DEFINE others == S \ First(n, S)
<1>1. others # {} /\ others \in SUBSET Nat /\ First(n, S) \in SUBSET Org
  BY OrgsCount DEF First
<1>2. PICK x \in others : \A y \in others : x =< y
  BY <1>1, LeastExists
<1>3. ~ (Cardinality(Before(x, S)) < n)
  BY <1>2 DEF First, Before
<1>4. Before(x, S) \in SUBSET First(n, S)
  BY <1>1, <1>2, OrgsCount DEF Before
<1>5. /\ Cardinality(Before(x, S)) =< Cardinality(First(n, S))
      /\ Cardinality(Before(x, S)) \in Nat /\ Cardinality(First(n, S)) \in Nat
  BY <1>1, <1>4, OrgsCount
<1>6. QED
  BY <1>3, <1>5

\* If the first n are all, they are n at most.
LEMMA FirstIsBounded ==
  ASSUME NEW S \in SUBSET Org, NEW n \in Nat, First(n, S) = S
  PROVE  Cardinality(S) =< n
<1>1. CASE S = {}
  BY <1>1, OrgsCount
<1>2. CASE S # {}
  <2>1. PICK x \in S : \A y \in S : x >= y
    BY <1>2, LastExists
  <2>2. IsFiniteSet(S) /\ Cardinality(S) \in Nat /\ \A p \in S : p \in Nat
    BY OrgsCount
  <2>3. Before(x, S) = S \ {x}
    <3>1. \A p \in S : p < x <=> p # x
      BY <2>1, <2>2
    <3>2. QED
      BY <3>1 DEF Before
  <2>4. Cardinality(S \ {x}) = IF x \in S THEN Cardinality(S) - 1 ELSE Cardinality(S)
    BY <2>2, FS_RemoveElement, Zenon
  <2>5. Cardinality(Before(x, S)) < n
    BY <2>1 DEF First, Before
  <2>6. QED
    BY <2>1, <2>2, <2>3, <2>4, <2>5
<1>3. QED
  BY <1>1, <1>2

\* Of a set that is not empty one at least comes first.
LEMMA FirstIsThere ==
  ASSUME NEW S \in SUBSET Org, NEW n \in Nat \ {0}, S # {}
  PROVE  First(n, S) # {}
<1>1. S \in SUBSET Nat
  BY OrgsCount
<1>2. PICK x \in S : \A y \in S : x =< y
  BY <1>1, LeastExists
<1>3. Before(x, S) = {}
  <2>1. \A p \in S : ~ (p < x)
    BY <1>2, OrgsCount
  <2>2. QED
    BY <2>1 DEF Before
<1>4. Cardinality(Before(x, S)) = 0
  BY <1>3, OrgsCount
<1>5. QED
  BY <1>4 DEF First, Before---------------------------------------------------------------------------
(***************************************************************************)
(* The inductive invariant of a list and of the page being collected.      *)
(***************************************************************************)
ListRecord ==
  [phase : {"idle", "page", "query", "fetch", "scan", "sort", "done"}, kind : {"user", "search"},
   query : SUBSET Name, limit : Nat \ {0}, after : Nat, start : Nat, todo : SUBSET Org,
   items : SUBSET Org, returned : Seq(SUBSET Org), stable : SUBSET Org]

SeenIn(l) == UNION {l.returned[i] : i \in DOMAIN l.returned}

\* What has been returned: page after page, everything there was up to the
\* cursor, and nothing beyond it.
PagesSound(l) ==
  /\ \A i, k \in DOMAIN l.returned :
       i < k => \A o \in l.returned[i], p \in l.returned[k] : o < p
  /\ l.phase \notin {"idle", "done"} =>
       /\ \A o \in SeenIn(l) : o =< l.after
       /\ \A o \in l.stable : o =< l.after => o \in SeenIn(l)
  /\ l.phase = "done" => l.stable \subseteq SeenIn(l)

\* The items of a page lack only what comes after all of them, and nothing if
\* they do not fill the page.
Complete(l, items) ==
  \A o \in l.stable :
    o > l.after => o \in items \/ (Cardinality(items) > l.limit /\ \A i \in items : i < o)

\* What has been read for the page in progress.
ReadingSound(l) ==
  /\ l.phase = "page" => l.items = {}
  /\ l.phase = "query" =>
       /\ l.start >= l.after
       /\ \A o \in l.items : o > l.after /\ o =< l.start
       /\ \A o \in l.stable : o > l.after /\ o =< l.start => o \in l.items
  /\ l.phase = "fetch" => (\A o \in l.items : o > l.after) /\ Complete(l, l.items)
  /\ l.phase \in {"scan", "sort"} => l.stable \ l.todo \subseteq l.items
  /\ l.phase = "sort" => l.todo = {}

\* Users' lists are collected from the index, searches from a scan.
PathSound(l) ==
  /\ l.phase \in {"query", "fetch"} => l.kind = "user" /\ adapter = "dynamodb"
  /\ l.phase \in {"scan", "sort"} => l.kind = "search"

\* The inductive invariant of lists.
ListInv ==
  /\ member \subseteq Org /\ indexed \subseteq Org
  /\ list \in ListRecord
  /\ PagesSound(list) /\ ReadingSound(list) /\ PathSound(list)
  /\ list.stable \subseteq Visible

---------------------------------------------------------------------------
\* Page sizes are positive once they are brought into the range.
LEMMA ClampPositive ==
  ASSUME NEW n \in Requested
  PROVE  Clamp(n) \in Nat \ {0}
<1> DEFINE small == Min({n, MaxLimit})
<1>1. n \in Int /\ MaxLimit \in Nat \ {0}
  BY SizesArePositive
<1>2. \E x \in {n, MaxLimit} : \A y \in {n, MaxLimit} : x =< y
  BY <1>1
<1>3. small \in {n, MaxLimit}
  BY <1>2 DEF Min
<1>4. small \in Int
  BY <1>1, <1>3
<1> HIDE DEF small
<1>5. \E x \in {1, small} : \A y \in {1, small} : x >= y
  BY <1>4
<1>6. Max({1, small}) \in {1, small} /\ Max({1, small}) >= 1
  BY <1>5 DEF Max
<1>7. QED
  BY <1>4, <1>6 DEF Clamp, small

\* What may be forgotten never breaks a list.
LEMMA StableShrinks ==
  ASSUME NEW l \in ListRecord, PagesSound(l), ReadingSound(l), PathSound(l), NEW shown,
         NEW n, n = [l EXCEPT !.stable = @ \cap shown]
  PROVE  /\ n \in ListRecord /\ PagesSound(n) /\ ReadingSound(n) /\ PathSound(n)
         /\ n.stable \subseteq shown
<1>1. /\ n \in ListRecord
      /\ n.stable = l.stable \cap shown
      /\ n.phase = l.phase /\ n.kind = l.kind /\ n.query = l.query /\ n.limit = l.limit
      /\ n.after = l.after /\ n.start = l.start /\ n.todo = l.todo /\ n.items = l.items
      /\ n.returned = l.returned
  BY DEF ListRecord
<1>2. SeenIn(n) = SeenIn(l)
  BY <1>1 DEF SeenIn
<1>3. PagesSound(n)
  BY <1>1, <1>2 DEF PagesSound
<1>4. ReadingSound(n)
  BY <1>1 DEF ReadingSound, Complete
<1>5. PathSound(n)
  BY <1>1 DEF PathSound
<1>6. QED
  BY <1>1, <1>3, <1>4, <1>5

\* A step whose list is sound but for what stays visible keeps the invariant.
LEMMA WatchKeeps ==
  ASSUME NEW l \in ListRecord, PagesSound(l), ReadingSound(l), PathSound(l),
         l.kind = list.kind, l.query = list.query,
         list' = Watch(l), adapter' = adapter, member' \subseteq Org, indexed' \subseteq Org
  PROVE  ListInv'
<1> DEFINE shown == Shown(list.kind, list.query, organization', member', indexed')
<1>1. PICK n : n = [l EXCEPT !.stable = @ \cap shown]
  OBVIOUS
<1>2. list' = n
  BY <1>1 DEF Watch
<1> HIDE DEF shown
<1>3. /\ n \in ListRecord /\ PagesSound(n) /\ ReadingSound(n) /\ PathSound(n)
      /\ n.stable \subseteq shown
  BY <1>1, StableShrinks
<1>4. n.kind = list.kind /\ n.query = list.query
  BY <1>1 DEF ListRecord
<1>5. Visible' = shown
  BY <1>2, <1>4 DEF Visible, Shown, shown
<1>6. list' \in ListRecord /\ PagesSound(list') /\ ReadingSound(list') /\ PathSound(list)'
  BY <1>2, <1>3 DEF PathSound
<1>7. PagesSound(list)' /\ ReadingSound(list)'
  BY <1>6 DEF PagesSound, ReadingSound, SeenIn, Complete
<1>8. QED
  BY <1>2, <1>3, <1>5, <1>6, <1>7 DEF ListInv, ListRecord

\* A page of items that lack nothing before the page's end keeps a list sound.
LEMMA NextPageKeeps ==
  ASSUME NEW l \in ListRecord, PagesSound(l), l.phase \notin {"idle", "done"},
         NEW items \in SUBSET Org, \A o \in items : o > l.after, Complete(l, items),
         NEW n, n = NextPage(l, items)
  PROVE  /\ n \in ListRecord /\ PagesSound(n) /\ ReadingSound(n) /\ PathSound(n)
         /\ n.kind = l.kind /\ n.query = l.query
<1> DEFINE page == First(l.limit, items)
<1> DEFINE more == items # page /\ page # {}
<1>1. /\ l.after \in Nat /\ l.limit \in Nat \ {0} /\ l.stable \subseteq Org
      /\ l.returned \in Seq(SUBSET Org)
  BY DEF ListRecord
<1>2. page \in SUBSET items /\ page \in SUBSET Org
  BY DEF First
<1>3. page # {} => Max(page) \in page /\ Max(page) \in Nat /\ \A y \in page : y =< Max(page)
  BY <1>2, LastIsMember
<1>4. \A o \in Org : o \in Nat
  BY OrgsAreOrdered
<1>5. PICK after \in Nat : after = IF more THEN Max(page) ELSE l.after
  BY <1>1, <1>3
<1>6. after >= l.after /\ \A o \in page : o > l.after
  BY <1>1, <1>2, <1>3, <1>4, <1>5
<1>7. PICK returned \in Seq(SUBSET Org) : returned = Append(l.returned, page)
  <2> HIDE DEF page
  <2>1. ASSUME NEW S, NEW s \in Seq(S), NEW e \in S PROVE Append(s, e) \in Seq(S)
    OBVIOUS
  <2>2. Append(l.returned, page) \in Seq(SUBSET Org)
    BY <1>1, <1>2, <2>1
  <2>3. QED
    BY <2>2
<1>8. PICK phase \in {"page", "done"} : phase = IF more THEN "page" ELSE "done"
  OBVIOUS
<1>9. /\ DOMAIN l.returned = 1 .. Len(l.returned) /\ Len(l.returned) \in Nat
      /\ DOMAIN returned = 1 .. Len(l.returned) + 1
      /\ \A i \in DOMAIN l.returned : returned[i] = l.returned[i]
      /\ returned[Len(l.returned) + 1] = page
  BY <1>1, <1>2, <1>7
<1>10. n = [l EXCEPT !.returned = returned, !.items = {}, !.start = 0, !.todo = {},
              !.after = after, !.phase = phase]
  BY <1>5, <1>7, <1>8 DEF NextPage
<1>11. /\ n \in ListRecord
       /\ n.kind = l.kind /\ n.query = l.query /\ n.stable = l.stable
       /\ n.returned = returned /\ n.phase = phase /\ n.after = after /\ n.items = {}
  <2> HIDE DEF page, more
  <2>1. phase \in {"idle", "page", "query", "fetch", "scan", "sort", "done"}
    BY <1>8
  <2>2. /\ 0 \in Nat /\ {} \in SUBSET Org
        /\ after \in Nat /\ returned \in Seq(SUBSET Org)
    OBVIOUS
  <2>3. QED
    BY <1>10, <2>1, <2>2 DEF ListRecord
<1>12. SeenIn(n) = SeenIn(l) \cup page
  BY <1>9, <1>11 DEF SeenIn
<1>13. \A o \in SeenIn(l) : o =< l.after /\ o \in Org
  <2>1. \A i \in DOMAIN l.returned : l.returned[i] \subseteq Org
    BY <1>1
  <2>2. QED
    BY <2>1 DEF SeenIn, PagesSound
<1>14. \A i \in DOMAIN l.returned : l.returned[i] \subseteq SeenIn(l)
  BY DEF SeenIn
<1>15. \A o \in l.stable : o =< l.after => o \in SeenIn(l)
  BY DEF PagesSound
<1> HIDE DEF page
\* The pages stay in order.
<1>16. \A i, k \in DOMAIN n.returned :
         i < k => \A o \in n.returned[i], p \in n.returned[k] : o < p
  <2> SUFFICES ASSUME NEW i \in DOMAIN returned, NEW k \in DOMAIN returned, i < k,
                      NEW o \in returned[i], NEW p \in returned[k]
               PROVE  o < p
    BY <1>11
  <2>1. i \in DOMAIN l.returned /\ returned[i] = l.returned[i]
    BY <1>9
  <2>2. CASE k \in DOMAIN l.returned
    BY <1>9, <2>1, <2>2 DEF PagesSound
  <2>3. CASE k \notin DOMAIN l.returned
    <3>1. p \in page /\ p \in Nat /\ p > l.after
      BY <1>2, <1>4, <1>6, <1>9, <2>3
    <3>2. o \in Nat /\ o =< l.after
      BY <1>4, <1>13, <1>14, <2>1
    <3>3. QED
      BY <1>1, <3>1, <3>2
  <2>4. QED
    BY <2>2, <2>3
\* Another page follows after everything up to its cursor.
<1>17. CASE more
  <2>1. phase = "page" /\ after = Max(page) /\ page # {}
    BY <1>5, <1>8, <1>17
  <2>2. \A o \in SeenIn(n) : o =< after
    BY <1>1, <1>3, <1>4, <1>5, <1>6, <1>12, <1>13, <2>1
  <2>3. ASSUME NEW o \in l.stable, o =< after PROVE o \in SeenIn(n)
    <3>1. o \in Nat /\ after \in page /\ after \in items /\ after \in Nat
      BY <1>1, <1>2, <1>3, <1>4, <2>1
    <3>2. CASE o =< l.after
      BY <1>12, <1>15, <3>2
    <3>3. CASE o > l.after
      <4>1. o \in items
        BY <2>3, <3>1, <3>3 DEF Complete
      <4>2. o \in page
        BY <1>1, <2>3, <3>1, <4>1, FirstIsInitial DEF page
      <4>3. QED
        BY <1>12, <4>2
    <3>4. QED
      BY <1>1, <3>1, <3>2, <3>3
  <2>4. PagesSound(n)
    BY <1>11, <1>16, <2>1, <2>2, <2>3 DEF PagesSound
  <2>5. QED
    BY <1>11, <2>1, <2>4 DEF ReadingSound, PathSound
\* The last page shows everything that is left.
<1>18. CASE ~more
  <2>1. phase = "done"
    BY <1>8, <1>18
  <2>2. items = page
    BY <1>1, <1>2, <1>18, FirstIsThere DEF page
  <2>3. Cardinality(items) =< l.limit /\ Cardinality(items) \in Nat
    BY <1>1, <2>2, FirstIsBounded, OrgsCount DEF page
  <2>4. ASSUME NEW o \in l.stable PROVE o \in SeenIn(n)
    <3>1. o \in Nat
      BY <1>1, <1>4
    <3>2. CASE o =< l.after
      BY <1>12, <1>15, <3>2
    <3>3. CASE o > l.after
      BY <1>1, <1>12, <2>2, <2>3, <3>3 DEF Complete
    <3>4. QED
      BY <1>1, <3>1, <3>2, <3>3
  <2>5. PagesSound(n)
    BY <1>11, <1>16, <2>1, <2>4 DEF PagesSound
  <2>6. QED
    BY <1>11, <2>1, <2>5 DEF ReadingSound, PathSound
<1>19. QED
  BY <1>17, <1>18

\* What the invariant says of a list and of its organizations.
LEMMA ListFacts ==
  ASSUME ListInv
  PROVE  /\ list \in ListRecord /\ PagesSound(list) /\ ReadingSound(list) /\ PathSound(list)
         /\ list.stable \subseteq Visible /\ member \subseteq Org /\ indexed \subseteq Org
         /\ list.limit \in Nat \ {0} /\ list.after \in Nat /\ list.start \in Nat
         /\ list.items \subseteq Org /\ list.todo \subseteq Org /\ list.stable \subseteq Org
         /\ \A o \in Org : o \in Nat
  BY OrgsAreOrdered DEF ListInv, ListRecord

LEMMA NoListKeeps ==
  ASSUME ListInv, list' = NoList, UNCHANGED <<member, indexed>>
  PROVE  ListInv'
<1>1. PICK n : n = NoList
  OBVIOUS
<1>2. /\ n.phase = "idle" /\ n.stable = {} /\ n.items = {} /\ n.returned = <<>>
      /\ n \in ListRecord
  <2>1. <<>> \in Seq(SUBSET Org)
    OBVIOUS
  <2>2. QED
    BY <1>1, <2>1 DEF NoList, ListRecord
<1>3. SeenIn(n) = {} /\ DOMAIN n.returned = {}
  BY <1>2 DEF SeenIn
<1>4. list' = n
  BY <1>1
<1>5. ListInv' = /\ member' \subseteq Org /\ indexed' \subseteq Org
                 /\ n \in ListRecord
                 /\ PagesSound(n) /\ ReadingSound(n) /\ PathSound(list)'
                 /\ n.stable \subseteq Visible'
  BY <1>4 DEF ListInv, ListRecord, PagesSound, ReadingSound, SeenIn, Complete
<1>6. PagesSound(n) /\ ReadingSound(n) /\ PathSound(list)'
  BY <1>2, <1>3, <1>4 DEF PagesSound, ReadingSound, PathSound
<1>7. QED
  BY <1>2, <1>5, <1>6 DEF ListInv

LEMMA BeginKeeps ==
  ASSUME ListInv, NEW kind \in {"user", "search"}, NEW q \in SUBSET Name, Begin(kind, q),
         UNCHANGED <<adapter, organization, member, indexed>>
  PROVE  ListInv'
<1> DEFINE shown == Shown(kind, q, organization, member, indexed)
<1>0. shown \subseteq Org
  BY ListFacts DEF Shown
<1>1. PICK stable \in SUBSET Org : stable = shown
  BY <1>0
<1> HIDE DEF shown
<1>2. PICK n : n = [NoList EXCEPT !.phase = "page", !.kind = kind, !.query = q, !.stable = stable]
  OBVIOUS
<1>3. list' = n
  BY <1>1, <1>2 DEF Begin, shown
<1>4. /\ n.phase = "page" /\ n.kind = kind /\ n.query = q /\ n.stable = stable /\ n.items = {}
      /\ n.returned = <<>> /\ n.after = 0
      /\ n \in ListRecord
  <2>1. n = [phase |-> "page", kind |-> kind, query |-> q, limit |-> 1, after |-> 0, start |-> 0,
             todo |-> {}, items |-> {}, returned |-> <<>>, stable |-> stable]
    BY <1>2 DEF NoList
  <2>2. <<>> \in Seq(SUBSET Org) /\ {} \in SUBSET Org
    OBVIOUS
  <2>3. n \in ListRecord
    BY <2>1, <2>2 DEF ListRecord
  <2>4. QED
    BY <2>1, <2>3
<1>5. SeenIn(n) = {} /\ DOMAIN n.returned = {}
  BY <1>4 DEF SeenIn
<1>6. \A o \in stable : ~(o =< 0)
  BY OrgsAreOrdered
<1>7. PagesSound(n) /\ ReadingSound(n) /\ PathSound(list)'
  BY <1>3, <1>4, <1>5, <1>6 DEF PagesSound, ReadingSound, PathSound
<1>8. Visible' = shown
  BY <1>3, <1>4 DEF Visible, Shown, shown
<1>9. ListInv' = /\ member' \subseteq Org /\ indexed' \subseteq Org
                 /\ n \in ListRecord
                 /\ PagesSound(n) /\ ReadingSound(n) /\ PathSound(list)'
                 /\ n.stable \subseteq Visible'
  BY <1>3 DEF ListInv, ListRecord, PagesSound, ReadingSound, SeenIn, Complete
<1>10. QED
  BY <1>1, <1>4, <1>7, <1>8, <1>9 DEF ListInv

\* SQLite: what one query finds after the cursor.
LEMMA PageAtOnceKeeps ==
  ASSUME ListInv, NEW k \in Requested, PageAtOnce(k), UNCHANGED <<adapter, member, indexed>>
  PROVE  ListInv'
<1>1. PICK limit \in Nat \ {0} : limit = Clamp(k)
  BY ClampPositive
<1>2. PICK l : l = [list EXCEPT !.limit = limit]
  OBVIOUS
<1>3. /\ l \in ListRecord /\ l.limit = limit /\ l.phase = "page" /\ l.after = list.after
      /\ l.stable = list.stable /\ l.kind = list.kind /\ l.query = list.query
      /\ l.returned = list.returned /\ list.phase = "page"
  BY <1>2, ListFacts DEF PageAtOnce, ListRecord
<1>4. PagesSound(l)
  BY <1>3, ListFacts DEF PagesSound, SeenIn
<1> DEFINE beyond == Beyond(list.after, Visible)
<1> DEFINE items == First(limit + 1, beyond)
<1>5. beyond \in SUBSET Org /\ limit + 1 \in Nat
  BY ListFacts DEF Beyond, Visible, Shown
<1>6. items \in SUBSET Org /\ items \subseteq beyond /\ \A o \in items : o > l.after
  BY <1>3, <1>5 DEF First, Beyond
<1>7. Complete(l, items)
  <2> SUFFICES ASSUME NEW o \in l.stable, o > l.after, o \notin items
               PROVE  Cardinality(items) > limit /\ \A i \in items : i < o
    BY <1>3 DEF Complete
  <2>1. o \in beyond /\ o \in Nat
    BY <1>3, ListFacts DEF Beyond
  <2>2. Cardinality(items) >= limit + 1 /\ Cardinality(items) \in Nat
    <3>1. items # beyond
      BY <2>1
    <3> HIDE DEF beyond
    <3>2. QED
      BY <1>5, <1>6, <3>1, FirstIsEnough, OrgsCount
  <2>3. ASSUME NEW i \in items PROVE i < o
    <3>1. i \in Nat
      BY <1>6, ListFacts
    <3> HIDE DEF beyond
    <3>2. ~(o =< i)
      BY <1>5, <2>1, FirstIsInitial
    <3>3. QED
      BY <2>1, <3>1, <3>2
  <2>4. QED
    BY <2>2, <2>3
<1>8. PICK n : n = NextPage(l, items)
  OBVIOUS
<1>9. list' = Watch(n)
  BY <1>1, <1>2, <1>8 DEF PageAtOnce
<1> HIDE DEF items
<1>10. /\ n \in ListRecord /\ PagesSound(n) /\ ReadingSound(n) /\ PathSound(n)
       /\ n.kind = list.kind /\ n.query = list.query
  BY <1>3, <1>4, <1>6, <1>7, <1>8, NextPageKeeps
<1>11. QED
  BY <1>9, <1>10, WatchKeeps, ListFacts

\* DynamoDB: the page begins at the cursor, with nothing read.
LEMMA StartPageKeeps ==
  ASSUME ListInv, NEW k \in Requested, StartPage(k), UNCHANGED <<adapter, member, indexed>>
  PROVE  ListInv'
<1>1. PICK limit \in Nat \ {0} : limit = Clamp(k)
  BY ClampPositive
<1>2. PICK phase \in {"query", "scan"} : phase = IF list.kind = "user" THEN "query" ELSE "scan"
  OBVIOUS
<1>3. PICK todo \in SUBSET Org : todo = IF list.kind = "user" THEN {} ELSE Org
  OBVIOUS
<1>4. PICK n : n = [list EXCEPT !.limit = limit, !.phase = phase, !.start = list.after, !.todo = todo]
  OBVIOUS
<1>5. list' = Watch(n) /\ list.phase = "page" /\ adapter = "dynamodb" /\ list.items = {}
  BY <1>1, <1>2, <1>3, <1>4, ListFacts DEF StartPage, ReadingSound
<1>6. /\ n \in ListRecord /\ n.phase = phase /\ n.start = list.after /\ n.after = list.after
      /\ n.todo = todo /\ n.items = {} /\ n.stable = list.stable /\ n.returned = list.returned
      /\ n.kind = list.kind /\ n.query = list.query
  BY <1>4, <1>5, ListFacts DEF ListRecord
<1>7. PagesSound(n)
  BY <1>2, <1>5, <1>6, ListFacts DEF PagesSound, SeenIn
<1>8. list.kind \in {"user", "search"}
  BY ListFacts DEF ListRecord
<1>9. ReadingSound(n) /\ PathSound(n)
  <2>1. CASE list.kind = "user"
    <3>1. \A o \in n.stable : o \in Nat
      BY <1>6, ListFacts
    <3>2. QED
      BY <1>2, <1>5, <1>6, <2>1, <3>1, ListFacts DEF ReadingSound, PathSound
  <2>2. CASE list.kind = "search"
    BY <1>2, <1>3, <1>6, <2>2, ListFacts DEF ReadingSound, PathSound
  <2>3. QED
    BY <1>8, <2>1, <2>2
<1>10. QED
  BY <1>5, <1>6, <1>7, <1>9, WatchKeeps, ListFacts

\* DynamoDB: one batch of the index.
LEMMA QueryBatchKeeps ==
  ASSUME ListInv, QueryBatch, UNCHANGED <<adapter, member, indexed>>
  PROVE  ListInv'
<1> DEFINE beyond == Beyond(list.start, indexed)
<1> DEFINE batch == First(ScanBatch, beyond)
<1> DEFINE all == list.items \cup batch
<1> DEFINE end == Cardinality(batch) < ScanBatch
<1>1. /\ list.start >= list.after
      /\ \A o \in list.items : o > list.after /\ o =< list.start
      /\ \A o \in list.stable : o > list.after /\ o =< list.start => o \in list.items
      /\ list.kind = "user" /\ adapter = "dynamodb" /\ list.phase = "query"
  BY ListFacts DEF QueryBatch, ReadingSound, PathSound
<1>2. list.stable \subseteq indexed
  BY <1>1, ListFacts DEF Visible, Shown
<1>3. /\ beyond \in SUBSET Org /\ batch \in SUBSET beyond /\ batch \in SUBSET Org
      /\ all \in SUBSET Org /\ ScanBatch \in Nat \ {0}
  BY ListFacts, SizesArePositive DEF Beyond, First
<1>4. \A o \in beyond : o \in Nat /\ o > list.start /\ o > list.after
  BY <1>1, <1>3, ListFacts DEF Beyond
<1>5. \A o \in list.stable : o \in Nat /\ (o > list.start => o \in beyond)
  BY <1>2, ListFacts DEF Beyond
<1>6. \A o \in all : o > list.after /\ o \in Nat
  BY <1>1, <1>3, <1>4, ListFacts
<1> HIDE DEF beyond
<1>7. end => batch = beyond
  BY <1>3, FirstIsEnough, OrgsCount
<1>8. ~end => batch # {} /\ Max(batch) \in batch /\ Max(batch) \in Nat /\ \A y \in batch : y =< Max(batch)
  <2>1. ~end => batch # {}
    BY <1>3, OrgsCount
  <2>2. QED
    BY <1>3, <2>1, LastIsMember
<1>9. \A o \in beyond : ~end /\ o =< Max(batch) => o \in batch
  BY <1>3, <1>8, FirstIsInitial
<1> HIDE DEF batch
<1>10. PICK start \in Nat : start = IF end THEN list.start ELSE Max(batch)
  BY <1>8, ListFacts
<1>11. PICK phase \in {"query", "fetch"} :
         phase = IF end \/ Cardinality(all) > list.limit THEN "fetch" ELSE list.phase
  BY <1>1
<1>12. PICK items \in SUBSET Org : items = all
  BY <1>3
<1>13. PICK n : n = [list EXCEPT !.items = items, !.start = start, !.phase = phase]
  OBVIOUS
<1>14. list' = Watch(n)
  BY <1>10, <1>11, <1>12, <1>13 DEF QueryBatch, beyond, batch
<1>15. /\ n \in ListRecord /\ n.phase = phase /\ n.start = start /\ n.after = list.after
       /\ n.items = items /\ n.stable = list.stable /\ n.returned = list.returned
       /\ n.limit = list.limit /\ n.kind = list.kind /\ n.query = list.query
  BY <1>13, ListFacts DEF ListRecord
<1>16. PagesSound(n)
  BY <1>1, <1>15, ListFacts DEF PagesSound, SeenIn
<1>17. end => \A o \in list.stable : o > list.after => o \in items
  BY <1>1, <1>5, <1>7, <1>12, ListFacts
<1>18. ~end => /\ start >= list.start
               /\ \A o \in items : o =< start
               /\ \A o \in list.stable : o > list.after /\ o =< start => o \in items
  <2> SUFFICES ASSUME ~end PROVE /\ start >= list.start
                                 /\ \A o \in items : o =< start
                                 /\ \A o \in list.stable : o > list.after /\ o =< start => o \in items
    OBVIOUS
  <2>1. start = Max(batch) /\ start \in beyond /\ start >= list.start
    BY <1>3, <1>4, <1>8, <1>10, ListFacts
  <2>2. ASSUME NEW o \in items PROVE o =< start
    BY <1>1, <1>6, <1>8, <1>12, <2>1, <2>2, ListFacts
  <2>3. ASSUME NEW o \in list.stable, o > list.after, o =< start PROVE o \in items
    BY <1>1, <1>5, <1>9, <1>12, <2>1, <2>3, ListFacts
  <2>4. QED
    BY <2>1, <2>2, <2>3
<1>19. phase = "query" => ~end
  BY <1>11
<1>20. phase = "fetch" => Complete(n, items)
  <2> SUFFICES ASSUME phase = "fetch", NEW o \in list.stable, o > list.after, o \notin items
               PROVE  Cardinality(items) > list.limit /\ \A i \in items : i < o
    BY <1>15 DEF Complete
  <2>1. ~end
    BY <1>17
  <2>2. Cardinality(items) > list.limit
    BY <1>1, <1>11, <1>12, <2>1
  <2>3. ~(o =< start) /\ o \in Nat
    BY <1>5, <1>18, <2>1
  <2>4. \A i \in items : i \in Nat /\ i =< start
    BY <1>18, <2>1, ListFacts
  <2>5. QED
    BY <2>2, <2>3, <2>4
<1>21. start >= list.after
  BY <1>1, <1>10, <1>18, ListFacts
<1>22. ReadingSound(n) /\ PathSound(n)
  <2>1. CASE phase = "query"
    BY <1>1, <1>6, <1>12, <1>15, <1>18, <1>19, <1>21, <2>1 DEF ReadingSound, PathSound
  <2>2. CASE phase = "fetch"
    BY <1>1, <1>6, <1>12, <1>15, <1>20, <2>2 DEF ReadingSound, PathSound
  <2>3. QED
    BY <2>1, <2>2
<1>23. QED
  BY <1>14, <1>15, <1>16, <1>22, WatchKeeps, ListFacts

LEMMA ReadBackKeeps ==
  ASSUME ListInv, ReadBack, UNCHANGED <<adapter, member, indexed>>
  PROVE  ListInv'
<1>1. list.phase = "fetch" /\ (\A o \in list.items : o > list.after) /\ Complete(list, list.items)
  BY ListFacts DEF ReadBack, ReadingSound
<1>2. PICK n : n = NextPage(list, list.items)
  OBVIOUS
<1>3. /\ n \in ListRecord /\ PagesSound(n) /\ ReadingSound(n) /\ PathSound(n)
      /\ n.kind = list.kind /\ n.query = list.query
  BY <1>1, <1>2, NextPageKeeps, ListFacts
<1>4. list' = Watch(n) \/ list' = NoList
  BY <1>2, Zenon DEF ReadBack
<1>5. QED
  BY <1>3, <1>4, WatchKeeps, NoListKeeps, ListFacts

\* DynamoDB: a segment of the scan adds what matches in it.
LEMMA ScanSegmentKeeps ==
  ASSUME ListInv, NEW os \in SUBSET Org, ScanSegment(os), UNCHANGED <<adapter, member, indexed>>
  PROVE  ListInv'
<1> DEFINE found == {o \in os : Matches(organization[o], list.query)}
<1>1. /\ list.phase = "scan" /\ os \subseteq list.todo /\ list.kind = "search"
      /\ list.stable \ list.todo \subseteq list.items
  BY ListFacts DEF ScanSegment, ReadingSound, PathSound
<1>2. PICK items \in SUBSET Org : items = list.items \cup found
  BY ListFacts
<1>3. PICK todo \in SUBSET Org : todo = list.todo \ os
  BY ListFacts
<1>4. PICK phase \in {"scan", "sort"} : phase = IF list.todo = os THEN "sort" ELSE list.phase
  BY <1>1
<1>5. PICK n : n = [list EXCEPT !.items = items, !.todo = todo, !.phase = phase]
  OBVIOUS
<1>6. list' = Watch(n)
  BY <1>2, <1>3, <1>4, <1>5 DEF ScanSegment
<1>7. /\ n \in ListRecord /\ n.phase = phase /\ n.todo = todo /\ n.after = list.after
      /\ n.items = items /\ n.stable = list.stable /\ n.returned = list.returned
      /\ n.kind = list.kind /\ n.query = list.query
  BY <1>5, ListFacts DEF ListRecord
<1>8. PagesSound(n)
  BY <1>1, <1>7, ListFacts DEF PagesSound, SeenIn
<1>9. \A o \in list.stable : Matches(organization[o], list.query)
  BY <1>1, ListFacts DEF Visible, Shown
<1>10. list.stable \ todo \subseteq items
  BY <1>1, <1>2, <1>3, <1>9
<1>11. phase = "sort" => todo = {}
  BY <1>1, <1>3, <1>4
<1>12. ReadingSound(n) /\ PathSound(n)
  BY <1>1, <1>7, <1>10, <1>11 DEF ReadingSound, PathSound
<1>13. QED
  BY <1>6, <1>7, <1>8, <1>12, WatchKeeps, ListFacts

LEMMA SortPageKeeps ==
  ASSUME ListInv, SortPage, UNCHANGED <<adapter, member, indexed>>
  PROVE  ListInv'
<1>1. list.phase = "sort" /\ list.stable \subseteq list.items
  BY ListFacts DEF SortPage, ReadingSound
<1>2. PICK items : items = Beyond(list.after, list.items)
  OBVIOUS
<1>3. /\ items \in SUBSET Org /\ \A o \in items : o > list.after
      /\ Complete(list, items)
  BY <1>1, <1>2, ListFacts DEF Beyond, Complete
<1>4. PICK n : n = NextPage(list, items)
  OBVIOUS
<1>5. /\ n \in ListRecord /\ PagesSound(n) /\ ReadingSound(n) /\ PathSound(n)
      /\ n.kind = list.kind /\ n.query = list.query
  BY <1>1, <1>3, <1>4, NextPageKeeps, ListFacts
<1>6. list' = Watch(n)
  BY <1>2, <1>4 DEF SortPage
<1>7. QED
  BY <1>5, <1>6, WatchKeeps, ListFacts

\* Nobody moves a deployment to the other adapter.
LEMMA AdapterStays == Next => adapter' = adapter
  BY DEF Next, Serve, Administer, DeleteAtOnce, BeginDeletion, SetActive, ScanSlugs, EraseSlug,
         EraseOrganization, Abandon

\* Any step keeps the invariant of lists.
LEMMA ListInvStep == ASSUME ListInv, [ListNext]_allVars PROVE ListInv'
<1>1. CASE ListStep
  <2>1. UNCHANGED <<adapter, organization, member, indexed>>
    BY <1>1 DEF ListStep, rest, tables
  <2>2. {} \in SUBSET Name /\ Query \subseteq SUBSET Name
    BY QueriesMatchNames
  <2>3. \/ Begin("user", {}) \/ \E q \in Query : Begin("search", q)
        \/ \E n \in Requested : PageAtOnce(n) \/ StartPage(n)
        \/ QueryBatch \/ ReadBack \/ SortPage \/ GiveUp
        \/ \E os \in SUBSET Org : ScanSegment(os)
    BY <1>1 DEF ListStep
  <2>4. QED
    BY <2>1, <2>2, <2>3, BeginKeeps, PageAtOnceKeeps, StartPageKeeps, QueryBatchKeeps, ReadBackKeeps,
       ScanSegmentKeeps, SortPageKeeps, NoListKeeps DEF GiveUp
<1>2. CASE Membership
  <2>1. adapter' = adapter /\ list' = Watch(list)
    BY <1>2 DEF Membership, rest
  <2>2. member' \subseteq Org /\ indexed' \subseteq Org
    BY <1>2, ListFacts DEF Membership, Join, Leave, Propagate
  <2>3. QED
    BY <2>1, <2>2, WatchKeeps, ListFacts
<1>3. CASE Change
  <2>1. adapter' = adapter /\ list' = Watch(list) /\ indexed' = indexed
    BY <1>3, AdapterStays DEF Change
  <2>2. member' \subseteq Org /\ indexed' \subseteq Org
    BY <1>3, <2>1, ListFacts DEF Change
  <2>3. QED
    BY <2>1, <2>2, WatchKeeps, ListFacts
<1>4. CASE UNCHANGED allVars
  BY <1>4 DEF allVars, listVars, vars, tables, ListInv, ListRecord, PagesSound, ReadingSound, PathSound,
              SeenIn, Complete, Visible, Shown
<1>5. QED
  BY <1>1, <1>2, <1>3, <1>4 DEF ListNext

LEMMA ListInvInit == ListSpecInit => ListInv
<1> SUFFICES ASSUME ListSpecInit PROVE ListInv
  OBVIOUS
<1>1. /\ list.phase = "idle" /\ list.stable = {} /\ list.returned = <<>> /\ list \in ListRecord
      /\ member \subseteq Org /\ indexed \subseteq Org
  <2>1. <<>> \in Seq(SUBSET Org) /\ {} \in SUBSET Org
    OBVIOUS
  <2>2. QED
    BY <2>1 DEF ListSpecInit, ListInit, NoList, ListRecord
<1>2. SeenIn(list) = {} /\ DOMAIN list.returned = {}
  BY <1>1 DEF SeenIn
<1>3. QED
  BY <1>1, <1>2 DEF ListInv, PagesSound, ReadingSound, PathSound

\* The invariants of lists and of organizations hold beside each other.
THEOREM ListInvariance == ListSpec => [](IInv /\ ListInv)
<1>1. ASSUME IInv, [ListNext]_allVars PROVE IInv'
  <2>1. CASE ListStep \/ Membership
    <3>1. UNCHANGED <<adapter, tables, call, erasing, loose>> /\ outcome' = Silence
      BY <2>1 DEF ListStep, Membership, rest
    <3>2. TableInv' /\ CallInv'
      BY <1>1, <3>1, TablesStay, CallsStay DEF IInv
    <3>3. ErasingInv'
      BY <1>1, <3>1 DEF IInv, ErasingInv
    <3>4. QED
      BY <3>2, <3>3 DEF IInv
  <2>2. CASE Change \/ UNCHANGED allVars
    BY <1>1, <2>2, InvStep DEF Change, allVars
  <2>3. QED
    BY <1>1, <2>1, <2>2 DEF ListNext
<1>2. ListSpecInit => IInv
  BY InvInit DEF ListSpecInit
<1>3. QED
  BY <1>1, <1>2, ListInvInit, ListInvStep, PTL DEF ListSpec

\* So what holds of organizations and their slugs holds while they are listed.
THEOREM SlugsBesideLists == ListSpec => [](TypeOK /\ SlugsGuarded /\ SlugsUnique)
<1>1. IInv => TypeOK /\ SlugsGuarded /\ SlugsUnique
  BY InvTypes, InvUnique DEF IInv, TableInv
<1>2. QED
  BY <1>1, ListInvariance, PTL

\* Nor do the answers change.
THEOREM FirstDecidesBesideLists == ListSpec => FirstConditionDecides
<1>1. ASSUME IInv, KindFits, [ListNext]_allVars PROVE KindFits'
  <2>1. CASE ListStep \/ Membership
    BY <1>1, <2>1 DEF ListStep, Membership, rest, KindFits
  <2>2. CASE Change \/ UNCHANGED allVars
    BY <1>1, <2>2, KindStays DEF Change, allVars
  <2>3. QED
    BY <1>1, <2>1, <2>2 DEF ListNext
<1>2. KindFits /\ [ListNext]_allVars =>
        [\A c \in Call :
           /\ Answers(c, "reference") => Free(call[c].org, call[c].slug)
           /\ Answers(c, "conflict") /\ call[c].kind = "rename" => Exists(call[c].org)]_vars
  <2> SUFFICES ASSUME KindFits, [ListNext]_allVars, ~UNCHANGED vars, NEW c \in Call PROVE Decides(c)
    BY DEF Decides
  <2>1. CASE Change
    BY <2>1, NextDecides DEF Change
  <2>2. CASE ListStep \/ Membership
    BY <2>2, SilenceDecides DEF ListStep, Membership
  <2>3. QED
    BY <2>1, <2>2 DEF ListNext, allVars
<1>3. ListSpecInit => KindFits
  BY KindInit DEF ListSpecInit
<1>4. QED
  BY <1>1, <1>2, <1>3, ListInvariance, PTL DEF ListSpec, FirstConditionDecides

\* A client that follows the cursors to the end has seen everything that was
\* there to see all the time, on both adapters, for any page sizes and batches,
\* and whatever is created, renamed, joined, left or deleted meanwhile.
THEOREM NothingIsMissed == ListSpec => []NothingMissed
<1>1. ListInv => NothingMissed
  BY DEF ListInv, PagesSound, NothingMissed, Seen, SeenIn
<1>2. QED
  BY <1>1, ListInvariance, PTL

\* It sees nothing twice, and the pages in the order of creation.
THEOREM NothingIsTwice == ListSpec => []NothingTwice
<1>1. ListInv => NothingTwice
  BY DEF ListInv, PagesSound, NothingTwice
<1>2. QED
  BY <1>1, ListInvariance, PTL
=============================================================================
