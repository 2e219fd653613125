--------------------------- MODULE MigrationsProofs ---------------------------
(***************************************************************************)
(* Proofs about the opening of a SQLite file, for any number of processes, *)
(* versions and statements.                                                *)
(***************************************************************************)
EXTENDS Migrations, TLAPS

Phases == {"closed", "create", "begin", "recheck", "migrate", "additional", "ready", "failed", "broken"}

Types ==
  /\ stamp \in Nat
  /\ additional \in 0 .. Additional
  /\ writer \in Process \cup {None}
  /\ opener \in [Process -> [phase : Phases, version : Nat, at : Nat \ {0}]]
  /\ DOMAIN draft = {"stamp", "shape"}

\* A stamped file has the parts of its version; one without a stamp has some
\* of the latest.
FileInv ==
  /\ stamp \in 1 .. Latest => shape = UpTo(stamp)
  /\ stamp = 0 => shape \subseteq UpTo(Latest)

Done(v, k) == {<<v, i>> : i \in 1 .. k - 1}

\* What a process may rely on.
Relies(p) ==
  LET q == opener[p] IN
  /\ q.phase = "create" =>
       stamp \in {0, Latest} /\ \A k \in 1 .. Len(Fresh) : k < q.at => Fresh[k] \subseteq shape
  /\ q.phase \in {"begin", "recheck"} => q.version \in 1 .. Latest - 1 /\ stamp \in {q.version, Latest}
  /\ q.phase \in {"recheck", "migrate"} => writer = p
  /\ q.phase = "recheck" => draft.stamp = stamp /\ draft.shape = shape
  /\ q.phase = "migrate" =>
       /\ q.version \in 1 .. Latest
       /\ stamp \in 1 .. Latest - 1
       /\ draft.stamp = q.version
       /\ draft.shape = UpTo(q.version) \cup Done(q.version, q.at)
       /\ IF q.version = Latest THEN q.at = 1 ELSE q.at <= Statements[q.version]
  /\ q.phase = "additional" => stamp = Latest /\ additional >= q.at - 1
  /\ q.phase = "ready" => stamp = Latest /\ additional = Additional
  /\ q.phase # "broken"

\* The inductive invariant.
IInv == Types /\ FileInv /\ \A p \in Process : Relies(p)
---------------------------------------------------------------------------
(***************************************************************************)
(* Versions and their parts.                                               *)
(***************************************************************************)
\* A new file gets what the chain of migrations would bring.
LEMMA FreshIsLatest == (UNION {Fresh[k] : k \in DOMAIN Fresh}) = UpTo(Latest)
<1>1. ASSUME NEW u \in 1 .. Latest - 1 PROVE PartsOf(u) \subseteq UNION {Fresh[k] : k \in DOMAIN Fresh}
  BY FreshIsComplete DEF PartsOf
<1>2. QED
  BY <1>1 DEF UpTo, Base

LEMMA NextVersion ==
  ASSUME NEW v \in 1 .. Latest - 1
  PROVE  UpTo(v + 1) = UpTo(v) \cup PartsOf(v)
<1>1. 1 .. (v + 1) - 1 = (1 .. v - 1) \cup {v}
  BY VersionsAreOrdered
<1>2. (UNION {PartsOf(u) : u \in 1 .. (v + 1) - 1}) = (UNION {PartsOf(u) : u \in 1 .. v - 1}) \cup PartsOf(v)
  BY <1>1
<1>3. QED
  BY <1>2 DEF UpTo

\* A version is free of the parts its migration will bring.
LEMMA PartIsNew ==
  ASSUME NEW v \in 1 .. Latest - 1, NEW i \in 1 .. Statements[v]
  PROVE  <<v, i>> \notin UpTo(v)
<1>1. <<v, i>> \in PartsOf(v)
  BY DEF PartsOf
<1>2. <<v, i>> \notin Base
  BY <1>1 DEF Base
<1>3. ASSUME NEW u \in 1 .. v - 1 PROVE <<v, i>> \notin PartsOf(u)
  BY <1>3 DEF PartsOf
<1>4. QED
  BY <1>2, <1>3 DEF UpTo

LEMMA DoneGrows ==
  ASSUME NEW v, NEW k \in Nat \ {0}
  PROVE  /\ Done(v, 1) = {}
         /\ Done(v, k + 1) = Done(v, k) \cup {<<v, k>>}
<1>1. 1 .. (k + 1) - 1 = (1 .. k - 1) \cup {k} /\ 1 .. 1 - 1 = {}
  OBVIOUS
<1>2. QED
  BY <1>1 DEF Done

LEMMA AllDone ==
  ASSUME NEW v \in 1 .. Latest - 1
  PROVE  Done(v, Statements[v]) \cup {<<v, Statements[v]>>} = PartsOf(v)
<1>1. Statements[v] \in Nat \ {0}
  BY VersionsAreOrdered
<1>2. 1 .. Statements[v] = (1 .. Statements[v] - 1) \cup {Statements[v]}
  BY <1>1
<1>3. QED
  BY <1>2 DEF Done, PartsOf
---------------------------------------------------------------------------
LEMMA InvInit == Init => IInv
<1> SUFFICES ASSUME Init PROVE IInv
  OBVIOUS
<1>1. Types
  BY FoundIsVersion, SomeAdditional DEF Init, Types, Closed, NoDraft, Phases
<1>2. FileInv
  BY VersionsAreOrdered DEF Init, FileInv
<1>3. \A p \in Process : Relies(p)
  BY DEF Init, Relies, Closed
<1>4. QED
  BY <1>1, <1>2, <1>3 DEF IInv

\* A process that changes nothing but its own place disturbs no other.
LEMMA OthersRely ==
  ASSUME IInv, NEW p \in Process, NEW q, opener' = [opener EXCEPT ![p] = q],
         UNCHANGED file, \/ UNCHANGED <<writer, draft>>
                         \/ writer \in {p, None} 
  PROVE  \A o \in Process : o # p => Relies(o)'
<1> SUFFICES ASSUME NEW o \in Process, o # p PROVE Relies(o)'
  OBVIOUS
<1>1. opener'[o] = opener[o] /\ Relies(o)
  BY DEF IInv, Types
<1>2. opener[o].phase \in {"recheck", "migrate"} => UNCHANGED <<writer, draft>>
  BY <1>1, NoneIsNobody DEF Relies
<1>3. QED
  BY <1>1, <1>2 DEF Relies, file

Place == [phase : Phases, version : Nat, at : Nat \ {0}]

\* A place whose phase, or version, is changed.
LEMMA PhaseChanged ==
  ASSUME NEW r \in Place, NEW x \in Phases
  PROVE  /\ [r EXCEPT !.phase = x, !.at = 1] \in Place
         /\ [r EXCEPT !.phase = x, !.at = 1].phase = x
         /\ [r EXCEPT !.phase = x, !.at = 1].version = r.version
         /\ [r EXCEPT !.phase = x, !.at = 1].at = 1
<1>1. PICK k \in Nat \ {0} : k = 1
  OBVIOUS
<1>2. [r EXCEPT !.phase = x, !.at = k] \in Place
  BY DEF Place
<1>3. [r EXCEPT !.phase = x, !.at = 1].phase = x
  BY DEF Place
<1>4. [r EXCEPT !.phase = x, !.at = 1].version = r.version
  BY DEF Place
<1>5. [r EXCEPT !.phase = x, !.at = 1].at = 1
  BY DEF Place
<1>6. QED
  BY <1>1, <1>2, <1>3, <1>4, <1>5

LEMMA VersionChanged ==
  ASSUME NEW r \in Place, NEW x \in Nat
  PROVE  /\ [r EXCEPT !.version = x, !.at = 1] \in Place
         /\ [r EXCEPT !.version = x, !.at = 1].version = x
         /\ [r EXCEPT !.version = x, !.at = 1].phase = r.phase
         /\ [r EXCEPT !.version = x, !.at = 1].at = 1
<1>1. PICK k \in Nat \ {0} : k = 1
  OBVIOUS
<1>2. [r EXCEPT !.version = x, !.at = k] \in Place
  BY DEF Place
<1>3. [r EXCEPT !.version = x, !.at = 1].version = x
  BY DEF Place
<1>4. [r EXCEPT !.version = x, !.at = 1].phase = r.phase
  BY DEF Place
<1>5. [r EXCEPT !.version = x, !.at = 1].at = 1
  BY DEF Place
<1>6. QED
  BY <1>1, <1>2, <1>3, <1>4, <1>5

\* The place of a process after a step that goes to another phase.
LEMMA GoneTo ==
  ASSUME Types, NEW p \in Process, NEW phase \in Phases, Goto(p, phase)
  PROVE  /\ opener' = [opener EXCEPT ![p] = [opener[p] EXCEPT !.phase = phase, !.at = 1]]
         /\ opener' \in [Process -> [phase : Phases, version : Nat, at : Nat \ {0}]]
         /\ opener'[p].phase = phase /\ opener'[p].at = 1 /\ opener'[p].version = opener[p].version
         /\ \A o \in Process : o # p => opener'[o] = opener[o]
<1> DEFINE q == [opener[p] EXCEPT !.phase = phase, !.at = 1]
<1>1. opener[p] \in [phase : Phases, version : Nat, at : Nat \ {0}]
  BY DEF Types
<1>2. /\ q \in [phase : Phases, version : Nat, at : Nat \ {0}]
      /\ q.phase = phase /\ q.at = 1 /\ q.version = opener[p].version
  <2>1. opener[p] \in Place
    BY <1>1 DEF Place
  <2>2. q \in Place /\ q.phase = phase /\ q.at = 1 /\ q.version = opener[p].version
    BY <2>1, PhaseChanged
  <2> HIDE DEF q
  <2>3. QED
    BY <2>2 DEF Place
<1>3. opener' = [opener EXCEPT ![p] = q]
  BY <1>1 DEF Types, Goto
<1> HIDE DEF q
<1>4. opener'[p] = q /\ \A o \in Process : o # p => opener'[o] = opener[o]
  BY <1>3 DEF Types
<1>5. opener' \in [Process -> [phase : Phases, version : Nat, at : Nat \ {0}]]
  BY <1>2, <1>3 DEF Types
<1>6. QED
  BY <1>2, <1>3, <1>4, <1>5 DEF q

\* Who is in a transaction alone writes.
LEMMA AloneWrites ==
  ASSUME IInv, NEW p \in Process, writer \in {p, None}, NEW o \in Process, o # p
  PROVE  opener[o].phase \notin {"recheck", "migrate"}
  BY NoneIsNobody DEF IInv, Relies
---------------------------------------------------------------------------
(***************************************************************************)
(* One lemma for each action.                                              *)
(***************************************************************************)
LEMMA OpenKeeps == ASSUME IInv, NEW p \in Process, Open(p) PROVE IInv'
<1> DEFINE q == [version |-> stamp, at |-> 1,
                 phase |-> IF stamp = 0 THEN "create"
                           ELSE IF stamp = Latest THEN "additional"
                           ELSE IF stamp < Latest THEN "begin" ELSE "failed"]
<1>1. opener' = [opener EXCEPT ![p] = q] /\ UNCHANGED <<file, writer, draft>>
  BY DEF Open
<1>2. opener'[p] = q /\ Types'
  BY <1>1 DEF IInv, Types, file, Phases
<1>3. Relies(p)'
  BY <1>1, <1>2, VersionsAreOrdered DEF Relies, file, IInv, Types
<1>4. FileInv'
  BY <1>1 DEF IInv, FileInv, file
<1>5. QED
  BY <1>1, <1>2, <1>3, <1>4, OthersRely DEF IInv

LEMMA CreateTableKeeps == ASSUME IInv, NEW p \in Process, CreateTable(p) PROVE IInv'
<1>0. /\ opener[p].phase = "create" /\ writer = None /\ UNCHANGED <<additional, writer, draft>>
      /\ stamp \in {0, Latest}
      /\ \A k \in 1 .. Len(Fresh) : k < opener[p].at => Fresh[k] \subseteq shape
      /\ opener[p].at \in Nat \ {0} /\ Len(Fresh) \in Nat /\ DOMAIN Fresh = 1 .. Len(Fresh)
      /\ Latest \in Nat \ {0, 1}
  BY FreshIsComplete, VersionsAreOrdered DEF CreateTable, At, IInv, Relies, Types
<1>1. shape \subseteq UpTo(Latest) /\ (stamp = Latest => shape = UpTo(Latest))
  BY <1>0 DEF IInv, FileInv
<1>2. ASSUME NEW o \in Process, o # p PROVE opener[o].phase \notin {"recheck", "migrate"}
  BY <1>0, <1>2, AloneWrites
<1>3. CASE /\ opener[p].at <= Len(Fresh) /\ shape' = shape \cup Fresh[opener[p].at]
           /\ opener' = [opener EXCEPT ![p].at = @ + 1] /\ UNCHANGED stamp
  <2>1. /\ opener'[p].phase = "create" /\ opener'[p].at = opener[p].at + 1
        /\ \A o \in Process : o # p => opener'[o] = opener[o]
        /\ Types'
    BY <1>0, <1>3 DEF IInv, Types
  <2>2. Fresh[opener[p].at] \subseteq UpTo(Latest)
    BY <1>0, <1>3, FreshIsLatest
  <2>3. shape' \subseteq UpTo(Latest) /\ (stamp = Latest => shape' = UpTo(Latest))
    BY <1>1, <1>3, <2>2
  <2>4. FileInv'
    BY <1>0, <1>3, <2>3 DEF FileInv, UpTo, PartsOf, Base
  <2>5. Relies(p)'
    BY <1>0, <1>3, <2>1 DEF Relies
  <2>6. ASSUME NEW o \in Process, o # p PROVE Relies(o)'
    BY <1>0, <1>2, <1>3, <2>1, <2>6 DEF IInv, Relies
  <2>7. QED
    BY <2>1, <2>4, <2>5, <2>6 DEF IInv
<1>4. CASE /\ opener[p].at > Len(Fresh) /\ stamp' = Latest /\ Goto(p, "additional") /\ UNCHANGED shape
  <2>1. /\ opener'[p].phase = "additional" /\ opener'[p].at = 1
        /\ \A o \in Process : o # p => opener'[o] = opener[o]
        /\ opener' \in [Process -> [phase : Phases, version : Nat, at : Nat \ {0}]]
    BY <1>4, GoneTo DEF IInv, Phases
  <2>2. Types'
    BY <1>0, <1>4, <2>1 DEF IInv, Types
  <2>3. UpTo(Latest) \subseteq shape
    BY <1>0, <1>4, FreshIsLatest
  <2>4. FileInv'
    BY <1>0, <1>1, <1>4, <2>3 DEF FileInv, UpTo, PartsOf, Base
  <2>5. Relies(p)'
    BY <1>0, <1>4, <2>1 DEF Relies, IInv, Types
  <2>6. ASSUME NEW o \in Process, o # p PROVE Relies(o)'
    BY <1>0, <1>2, <1>4, <2>1, <2>6 DEF IInv, Relies
  <2>7. QED
    BY <2>2, <2>4, <2>5, <2>6 DEF IInv
<1>5. QED
  BY <1>3, <1>4 DEF CreateTable

LEMMA BeginKeeps == ASSUME IInv, NEW p \in Process, Begin(p) PROVE IInv'
<1>1. /\ opener[p].phase = "begin" /\ writer = None /\ Goto(p, "recheck") /\ UNCHANGED file
      /\ writer' = p /\ draft' = [stamp |-> stamp, shape |-> shape]
  BY DEF Begin, At
<1>2. /\ opener' = [opener EXCEPT ![p] = [opener[p] EXCEPT !.phase = "recheck", !.at = 1]]
      /\ opener' \in [Process -> [phase : Phases, version : Nat, at : Nat \ {0}]]
      /\ opener'[p].phase = "recheck" /\ opener'[p].version = opener[p].version
  BY <1>1, GoneTo DEF IInv, Phases
<1>3. Types' /\ FileInv'
  BY <1>1, <1>2 DEF IInv, Types, FileInv, file
<1>4. Relies(p)'
  BY <1>1, <1>2 DEF IInv, Relies, file
<1>5. \A o \in Process : o # p => Relies(o)'
  BY <1>1, <1>2, OthersRely
<1>6. QED
  BY <1>3, <1>4, <1>5 DEF IInv

LEMMA RecheckKeeps == ASSUME IInv, NEW p \in Process, Recheck(p) PROVE IInv'
<1>1. /\ opener[p].phase = "recheck" /\ writer = p /\ UNCHANGED file
      /\ draft.stamp = stamp /\ draft.shape = shape
      /\ opener[p].version \in 1 .. Latest - 1 /\ stamp \in {opener[p].version, Latest}
      /\ Latest \in Nat \ {0, 1}
  BY VersionsAreOrdered DEF Recheck, At, IInv, Relies
<1>2. FileInv'
  BY <1>1 DEF IInv, FileInv, file
<1>3. CASE draft.stamp # opener[p].version /\ Goto(p, "additional") /\ Release
  <2>1. /\ opener' = [opener EXCEPT ![p] = [opener[p] EXCEPT !.phase = "additional", !.at = 1]]
        /\ opener' \in [Process -> [phase : Phases, version : Nat, at : Nat \ {0}]]
        /\ opener'[p].phase = "additional" /\ opener'[p].at = 1
    BY <1>3, GoneTo DEF IInv, Phases
  <2>2. Types'
    BY <1>1, <1>3, <2>1 DEF IInv, Types, file, Release, NoDraft
  <2>3. Relies(p)'
    BY <1>1, <1>3, <2>1 DEF IInv, Types, Relies, file
  <2>4. \A o \in Process : o # p => Relies(o)'
    BY <1>1, <2>1, OthersRely
  <2>5. QED
    BY <1>2, <2>2, <2>3, <2>4 DEF IInv
<1>4. CASE draft.stamp = opener[p].version /\ Goto(p, "migrate") /\ UNCHANGED <<writer, draft>>
  <2>1. /\ opener' = [opener EXCEPT ![p] = [opener[p] EXCEPT !.phase = "migrate", !.at = 1]]
        /\ opener' \in [Process -> [phase : Phases, version : Nat, at : Nat \ {0}]]
        /\ opener'[p].phase = "migrate" /\ opener'[p].at = 1 /\ opener'[p].version = opener[p].version
    BY <1>4, GoneTo DEF IInv, Phases
  <2>2. Types'
    BY <1>1, <1>4, <2>1 DEF IInv, Types, file
  <2>3. shape = UpTo(stamp) /\ stamp = opener[p].version
    BY <1>1, <1>4 DEF IInv, FileInv
  <2>4. Done(opener[p].version, 1) = {} /\ Statements[opener[p].version] >= 1
    BY <1>1, DoneGrows, VersionsAreOrdered
  <2>5. UpTo(opener[p].version)' = UpTo(opener[p].version)' /\ UNCHANGED <<stamp, shape, draft, writer>>
    BY <1>1, <1>4 DEF file
  <2>6. Relies(p)'
    BY <1>1, <2>1, <2>3, <2>4, <2>5 DEF Relies, UpTo, Base, PartsOf, Done
  <2>7. \A o \in Process : o # p => Relies(o)'
    BY <1>1, <2>1, OthersRely
  <2>8. QED
    BY <1>2, <2>2, <2>6, <2>7 DEF IInv
<1>5. QED
  BY <1>3, <1>4 DEF Recheck

LEMMA MigrateKeeps == ASSUME IInv, NEW p \in Process, Migrate(p) PROVE IInv'
<1> DEFINE v == opener[p].version
<1> DEFINE k == opener[p].at
<1>1. /\ opener[p].phase = "migrate" /\ writer = p /\ UNCHANGED file
      /\ v \in 1 .. Latest - 1 /\ k \in 1 .. Statements[v] /\ k \in Nat \ {0} /\ Statements[v] \in Nat \ {0}
      /\ stamp \in 1 .. Latest - 1 /\ draft.stamp = v /\ draft.shape = UpTo(v) \cup Done(v, k)
      /\ Latest \in Nat \ {0, 1}
  <2>1. opener[p].phase = "migrate" /\ v < Latest /\ UNCHANGED file
    BY DEF Migrate, At
  <2>2. Relies(p) /\ k \in Nat \ {0}
    BY DEF IInv, Types
  <2>3. /\ v \in 1 .. Latest /\ writer = p /\ stamp \in 1 .. Latest - 1 /\ draft.stamp = v
        /\ draft.shape = UpTo(v) \cup Done(v, k)
        /\ IF v = Latest THEN k = 1 ELSE k <= Statements[v]
    BY <2>1, <2>2 DEF Relies
  <2>4. QED
    BY <2>1, <2>2, <2>3, VersionsAreOrdered
<1> HIDE DEF v, k
<1>2. <<v, k>> \notin draft.shape
  <2>1. <<v, k>> \notin Done(v, k)
    BY <1>1 DEF Done
  <2>2. QED
    BY <1>1, <2>1, PartIsNew
<1>3. /\ UNCHANGED <<file, writer>>
      /\ \/ /\ k < Statements[v]
            /\ draft' = [draft EXCEPT !.shape = @ \cup {<<v, k>>}]
            /\ opener' = [opener EXCEPT ![p].at = @ + 1]
         \/ /\ k = Statements[v]
            /\ draft' = [stamp |-> v + 1, shape |-> draft.shape \cup {<<v, k>>}]
            /\ opener' = [opener EXCEPT ![p].version = v + 1, ![p].at = 1]
  BY <1>1, <1>2 DEF Migrate, v, k
<1>4. FileInv'
  BY <1>3 DEF IInv, FileInv, file
<1>5. \A o \in Process : o # p => Relies(o)'
  <2> SUFFICES ASSUME NEW o \in Process, o # p PROVE Relies(o)'
    OBVIOUS
  <2>1. Relies(o) /\ opener[o].phase \notin {"recheck", "migrate"}
    BY <1>1, AloneWrites DEF IInv
  <2>2. opener'[o] = opener[o]
    BY <1>3 DEF IInv, Types
  <2>3. QED
    BY <1>3, <2>1, <2>2 DEF Relies, file
<1>6. opener[p] \in [phase : Phases, version : Nat, at : Nat \ {0}]
  BY DEF IInv, Types
<1>7. CASE /\ k < Statements[v]
           /\ draft' = [draft EXCEPT !.shape = @ \cup {<<v, k>>}]
           /\ opener' = [opener EXCEPT ![p].at = @ + 1]
  <2>1. /\ opener'[p].phase = "migrate" /\ opener'[p].version = v /\ opener'[p].at = k + 1
        /\ opener' \in [Process -> [phase : Phases, version : Nat, at : Nat \ {0}]]
    BY <1>1, <1>6, <1>7 DEF IInv, Types, v, k
  <2>2. draft'.stamp = v /\ draft'.shape = UpTo(v) \cup Done(v, k + 1) /\ DOMAIN draft' = {"stamp", "shape"}
    BY <1>1, <1>7, DoneGrows DEF IInv, Types
  <2>3. Types'
    BY <1>3, <2>1, <2>2 DEF IInv, Types, file
  <2>4. UNCHANGED <<stamp, writer>> /\ k + 1 <= Statements[v]
    BY <1>1, <1>3, <1>7 DEF file
  <2>5. Relies(p)'
    BY <1>1, <2>1, <2>2, <2>4 DEF Relies, UpTo, Base, PartsOf, Done
  <2>6. QED
    BY <1>4, <1>5, <2>3, <2>5 DEF IInv
<1>8. CASE /\ k = Statements[v]
           /\ draft' = [stamp |-> v + 1, shape |-> draft.shape \cup {<<v, k>>}]
           /\ opener' = [opener EXCEPT ![p].version = v + 1, ![p].at = 1]
  <2>1. /\ opener'[p].phase = "migrate" /\ opener'[p].version = v + 1 /\ opener'[p].at = 1
        /\ opener' \in [Process -> [phase : Phases, version : Nat, at : Nat \ {0}]]
    <3> DEFINE q == [opener[p] EXCEPT !.version = v + 1, !.at = 1]
    <3>1. opener[p] \in Place /\ v + 1 \in Nat
      BY <1>1, <1>6 DEF Place
    <3>2. q \in Place /\ q.phase = opener[p].phase /\ q.version = v + 1 /\ q.at = 1
      BY <3>1, VersionChanged
    <3>3. opener' = [opener EXCEPT ![p] = q]
      BY <1>6, <1>8 DEF IInv, Types
    <3> HIDE DEF q
    <3>4. opener'[p] = q /\ opener' \in [Process -> [phase : Phases, version : Nat, at : Nat \ {0}]]
      BY <3>2, <3>3 DEF IInv, Types, Place
    <3>5. QED
      BY <1>1, <3>2, <3>4
  <2>2. draft'.stamp = v + 1 /\ draft'.shape = UpTo(v + 1) \cup Done(v + 1, 1)
        /\ DOMAIN draft' = {"stamp", "shape"}
    <3>1. draft'.shape = UpTo(v) \cup PartsOf(v)
      BY <1>1, <1>8, AllDone
    <3>2. QED
      BY <1>1, <1>8, <3>1, NextVersion, DoneGrows
  <2>3. Types'
    BY <1>3, <2>1, <2>2 DEF IInv, Types, file
  <2>4. UNCHANGED <<stamp, writer>> /\ v + 1 \in 1 .. Latest
        /\ (v + 1 # Latest => 1 <= Statements[v + 1])
    BY <1>1, <1>3, VersionsAreOrdered DEF file
  <2>5. Relies(p)'
    BY <1>1, <2>1, <2>2, <2>4 DEF Relies, UpTo, Base, PartsOf, Done
  <2>6. QED
    BY <1>4, <1>5, <2>3, <2>5 DEF IInv
<1>9. QED
  BY <1>3, <1>7, <1>8

LEMMA CommitKeeps == ASSUME IInv, NEW p \in Process, Commit(p) PROVE IInv'
<1>1. /\ opener[p].phase = "migrate" /\ writer = p /\ UNCHANGED additional
      /\ draft.stamp = Latest /\ draft.shape = UpTo(Latest) \cup Done(Latest, 1)
      /\ stamp' = draft.stamp /\ shape' = draft.shape /\ Release /\ Goto(p, "additional")
      /\ stamp \in 1 .. Latest - 1 /\ Latest \in Nat \ {0, 1}
  BY VersionsAreOrdered DEF Commit, At, IInv, Relies
<1>2. stamp' = Latest /\ shape' = UpTo(Latest)
  BY <1>1, DoneGrows
<1>3. /\ opener'[p].phase = "additional" /\ opener'[p].at = 1
      /\ opener' \in [Process -> [phase : Phases, version : Nat, at : Nat \ {0}]]
      /\ \A o \in Process : o # p => opener'[o] = opener[o]
  BY <1>1, GoneTo DEF IInv, Phases
<1>4. Types'
  BY <1>1, <1>2, <1>3 DEF IInv, Types, Release, NoDraft
<1>5. FileInv'
  BY <1>1, <1>2 DEF FileInv, UpTo, Base, PartsOf
<1>6. Relies(p)'
  BY <1>1, <1>2, <1>3 DEF IInv, Types, Relies
<1>7. ASSUME NEW o \in Process, o # p PROVE Relies(o)'
  <2>1. Relies(o) /\ opener[o].phase \notin {"recheck", "migrate"} /\ opener'[o] = opener[o]
    BY <1>1, <1>3, <1>7, AloneWrites DEF IInv
  <2>2. opener[o].phase \notin {"create", "ready", "additional"}
    BY <1>1, <2>1 DEF Relies
  <2>3. QED
    BY <1>1, <1>2, <2>1, <2>2 DEF Relies
<1>8. QED
  BY <1>4, <1>5, <1>6, <1>7 DEF IInv

LEMMA CreateAdditionalKeeps == ASSUME IInv, NEW p \in Process, CreateAdditional(p) PROVE IInv'
<1> DEFINE k == opener[p].at
<1>1. /\ opener[p].phase = "additional" /\ UNCHANGED <<stamp, shape, writer, draft>>
      /\ stamp = Latest /\ additional >= k - 1 /\ additional \in 0 .. Additional
      /\ k \in Nat \ {0} /\ Additional \in Nat
  BY SomeAdditional DEF CreateAdditional, At, IInv, Relies, Types
<1>2. FileInv'
  BY <1>1 DEF IInv, FileInv
<1>3. opener[p] \in [phase : Phases, version : Nat, at : Nat \ {0}]
  BY DEF IInv, Types
<1>4. CASE /\ k <= Additional
           /\ additional' = IF k > additional THEN k ELSE additional
           /\ opener' = [opener EXCEPT ![p].at = @ + 1]
  <2>1. /\ opener'[p].phase = "additional" /\ opener'[p].at = k + 1
        /\ opener' \in [Process -> [phase : Phases, version : Nat, at : Nat \ {0}]]
        /\ \A o \in Process : o # p => opener'[o] = opener[o]
    BY <1>1, <1>3, <1>4 DEF IInv, Types
  <2>2. Types' /\ additional' >= k /\ additional' >= additional
    BY <1>1, <1>4, <2>1 DEF IInv, Types
  <2>3. Relies(p)'
    BY <1>1, <2>1, <2>2 DEF Relies, Types
  <2>4. ASSUME NEW o \in Process, o # p PROVE Relies(o)'
    <3>1. additional = Additional => additional' = Additional
      BY <1>1, <1>4
    <3>2. Relies(o) /\ opener'[o] = opener[o] /\ opener[o].at \in Nat /\ additional' \in Nat /\ additional \in Nat
      BY <1>1, <2>1, <2>2, <2>4 DEF IInv, Types
    <3>3. QED
      BY <1>1, <2>2, <3>1, <3>2 DEF Relies
  <2>5. QED
    BY <1>2, <2>2, <2>3, <2>4 DEF IInv
<1>5. CASE k > Additional /\ Goto(p, "ready") /\ UNCHANGED additional
  <2>1. /\ opener' = [opener EXCEPT ![p] = [opener[p] EXCEPT !.phase = "ready", !.at = 1]]
        /\ opener' \in [Process -> [phase : Phases, version : Nat, at : Nat \ {0}]]
        /\ opener'[p].phase = "ready"
    BY <1>5, GoneTo DEF IInv, Phases
  <2>2. UNCHANGED file /\ additional = Additional
    BY <1>1, <1>5 DEF file
  <2>3. Types'
    BY <1>1, <2>1, <2>2 DEF IInv, Types, file
  <2>4. Relies(p)'
    BY <1>1, <2>1, <2>2 DEF Relies, file
  <2>5. \A o \in Process : o # p => Relies(o)'
    BY <1>1, <2>1, <2>2, OthersRely
  <2>6. QED
    BY <1>2, <2>3, <2>4, <2>5 DEF IInv
<1>6. QED
  BY <1>1, <1>4, <1>5 DEF CreateAdditional

\* A fault and the end of a process roll back what it has not committed.
LEMMA EndKeeps == ASSUME IInv, NEW p \in Process, Fail(p) \/ Stop(p) PROVE IInv'
<1>1. /\ UNCHANGED file
      /\ IF writer = p THEN Release ELSE UNCHANGED <<writer, draft>>
  BY DEF Fail, Stop
<1>2. PICK q \in [phase : {"failed", "closed"}, version : Nat, at : Nat \ {0}] :
        opener' = [opener EXCEPT ![p] = q]
  <2>1. CASE Fail(p)
    <3>1. opener' = [opener EXCEPT ![p] = [opener[p] EXCEPT !.phase = "failed", !.at = 1]]
      BY <2>1, GoneTo DEF Fail, IInv, Phases
    <3>2. [opener[p] EXCEPT !.phase = "failed", !.at = 1] \in
            [phase : {"failed", "closed"}, version : Nat, at : Nat \ {0}]
      <4> DEFINE q == [opener[p] EXCEPT !.phase = "failed", !.at = 1]
      <4>1. opener[p] \in Place /\ "failed" \in Phases
        BY DEF IInv, Types, Place, Phases
      <4>2. q \in Place /\ q.phase = "failed"
        BY <4>1, PhaseChanged
      <4> HIDE DEF q
      <4>3. q \in [phase : {"failed", "closed"}, version : Nat, at : Nat \ {0}]
        BY <4>2 DEF Place
      <4>4. QED
        BY <4>3 DEF q
    <3>3. QED
      BY <3>1, <3>2
  <2>2. CASE Stop(p)
    <3>1. Closed \in [phase : {"failed", "closed"}, version : Nat, at : Nat \ {0}]
      BY DEF Closed
    <3>2. QED
      BY <2>2, <3>1 DEF Stop
  <2>3. QED
    BY <2>1, <2>2
<1>3. opener'[p] = q
  BY <1>2 DEF IInv, Types
<1>4. Types'
  <2>1. opener' \in [Process -> [phase : Phases, version : Nat, at : Nat \ {0}]]
    BY <1>2 DEF IInv, Types, Phases
  <2>2. writer' \in Process \cup {None} /\ DOMAIN draft' = {"stamp", "shape"}
    BY <1>1 DEF IInv, Types, Release, NoDraft
  <2>3. QED
    BY <1>1, <2>1, <2>2 DEF IInv, Types, file
<1>5. FileInv'
  BY <1>1 DEF IInv, FileInv, file
<1>6. Relies(p)'
  BY <1>3 DEF Relies
<1>7. \A o \in Process : o # p => Relies(o)'
  BY <1>1, <1>2, OthersRely
<1>8. QED
  BY <1>4, <1>5, <1>6, <1>7 DEF IInv
---------------------------------------------------------------------------
\* The invariant holds in every state of every behaviour.
THEOREM Invariance == Spec => []IInv
<1>1. ASSUME IInv, [Next]_vars PROVE IInv'
  <2>1. ASSUME NEW p \in Process, Step(p) PROVE IInv'
    BY <1>1, <2>1, OpenKeeps, CreateTableKeeps, BeginKeeps, RecheckKeeps, MigrateKeeps, CommitKeeps,
       CreateAdditionalKeeps, EndKeeps DEF Step
  <2>2. CASE UNCHANGED vars
    <3>1. Types' /\ FileInv'
      BY <1>1, <2>2 DEF vars, IInv, Types, FileInv
    <3>2. \A p \in Process : Relies(p)'
      BY <1>1, <2>2 DEF vars, IInv, Relies
    <3>3. QED
      BY <3>1, <3>2 DEF IInv
  <2>3. QED
    BY <1>1, <2>1, <2>2 DEF Next
<1>2. QED
  BY InvInit, <1>1, PTL DEF Spec

\* A stamped file has the schema of its stamp, and a process that is ready has
\* the latest one, whoever races or stops wherever (_ensure_schema).
THEOREM StampsTell == Spec => []StampTellsShape
<1>1. IInv => StampTellsShape
  BY DEF IInv, FileInv, Relies, StampTellsShape, At
<1>2. QED
  BY Invariance, <1>1, PTL

\* No migration statement meets a schema that has had it (_apply_migration).
THEOREM StatementsSucceed == Spec => []NoStatementFails
<1>1. IInv => NoStatementFails
  BY DEF IInv, Relies, NoStatementFails, At
<1>2. QED
  BY Invariance, <1>1, PTL
=============================================================================
