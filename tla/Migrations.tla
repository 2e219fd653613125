------------------------------ MODULE Migrations ------------------------------
(***************************************************************************)
(* Opening a SQLite database: processes that create or migrate the schema  *)
(* of one file at the same time, and may stop at any point                 *)
(* (_ensure_schema and _apply_migration of storage/sqlite.py).             *)
(*                                                                         *)
(* The schema is a set of parts, one for each statement of a migration and *)
(* some for the tables of version 1.  A new file gets them in statements   *)
(* that are committed one by one; an old file in one transaction.  The     *)
(* threads of one process take turns under its lock, so a process opens    *)
(* once.  All processes run one release.                                   *)
(***************************************************************************)
EXTENDS Integers, Sequences

CONSTANTS
  Process,       \* processes that may open the file
  Latest,        \* SCHEMA_VERSION
  Statements,    \* how many statements _MIGRATIONS has for each older version
  Fresh,         \* _SCHEMA_STATEMENTS: the parts each statement brings
  Found,         \* stamps the file may carry in the beginning
  Additional,    \* number of _SESSION_SCHEMA_STATEMENTS
  None           \* no value

ASSUME VersionsAreOrdered == Latest \in Nat \ {0, 1} /\ Statements \in [1 .. Latest - 1 -> Nat \ {0}]
ASSUME FreshIsComplete ==
  /\ Fresh \in Seq(SUBSET (Nat \X Nat))
  /\ \A v \in 1 .. Latest - 1 : \A i \in 1 .. Statements[v] : \E k \in DOMAIN Fresh : <<v, i>> \in Fresh[k]
ASSUME FoundIsVersion == Found \subseteq Nat
ASSUME SomeAdditional == Additional \in Nat
ASSUME NoneIsNobody == None \notin Process

VARIABLES
  stamp,         \* PRAGMA user_version, as committed
  shape,         \* the parts of the schema, as committed
  additional,    \* how many of the session tables exist
  writer,        \* the process in a write transaction
  draft,         \* stamp and shape that transaction would commit
  opener         \* how far each process has come

vars == <<stamp, shape, additional, writer, draft, opener>>
file == <<stamp, shape, additional>>

\* The parts the migration of version v brings; version 0 is none.
PartsOf(v) == {<<v, i>> : i \in 1 .. Statements[v]}
Base == (UNION {Fresh[k] : k \in DOMAIN Fresh}) \ (UNION {PartsOf(v) : v \in 1 .. Latest - 1})
UpTo(v) == Base \cup (UNION {PartsOf(u) : u \in 1 .. v - 1})

NoDraft == [stamp |-> 0, shape |-> {}]
Closed == [phase |-> "closed", version |-> 0, at |-> 1]

Init ==
  /\ stamp \in Found
  /\ shape = IF stamp = 0 THEN {} ELSE UpTo(IF stamp < Latest THEN stamp ELSE Latest)
  /\ additional = 0
  /\ writer = None /\ draft = NoDraft
  /\ opener = [p \in Process |-> Closed]
---------------------------------------------------------------------------
At(p, phase) == opener[p].phase = phase

Goto(p, phase) == opener' = [opener EXCEPT ![p].phase = phase, ![p].at = 1]

Release == writer' = None /\ draft' = NoDraft

\* Reads the stamp and takes one of four ways.
Open(p) ==
  /\ At(p, "closed")
  /\ opener' = [opener EXCEPT ![p] =
       [version |-> stamp, at |-> 1,
        phase |-> IF stamp = 0 THEN "create"
                  ELSE IF stamp = Latest THEN "additional"
                  ELSE IF stamp < Latest THEN "begin" ELSE "failed"]]
  /\ UNCHANGED <<file, writer, draft>>

\* CREATE ... IF NOT EXISTS, then the stamp.
CreateTable(p) ==
  /\ At(p, "create") /\ writer = None
  /\ \/ /\ opener[p].at <= Len(Fresh)
        /\ shape' = shape \cup Fresh[opener[p].at]
        /\ opener' = [opener EXCEPT ![p].at = @ + 1]
        /\ UNCHANGED stamp
     \/ /\ opener[p].at > Len(Fresh)
        /\ stamp' = Latest
        /\ Goto(p, "additional")
        /\ UNCHANGED shape
  /\ UNCHANGED <<additional, writer, draft>>

Begin(p) ==
  /\ At(p, "begin") /\ writer = None
  /\ writer' = p /\ draft' = [stamp |-> stamp, shape |-> shape]
  /\ Goto(p, "recheck")
  /\ UNCHANGED file

\* Mutant of Recheck: the stamp read before the lock is trusted.
RecheckNever(p) ==
  /\ At(p, "recheck") /\ Goto(p, "migrate") /\ UNCHANGED <<file, writer, draft>>

\* Another process may have migrated the file in the meantime.
Recheck(p) ==
  /\ At(p, "recheck")
  /\ \/ draft.stamp # opener[p].version /\ Goto(p, "additional") /\ Release
     \/ draft.stamp = opener[p].version /\ Goto(p, "migrate") /\ UNCHANGED <<writer, draft>>
  /\ UNCHANGED file

\* Mutant of Migrate: every statement is committed by itself.
MigrateUnlocked(p) ==
  LET v == opener[p].version
      part == <<v, opener[p].at>>
  IN  /\ At(p, "migrate") /\ v < Latest
      /\ shape' = shape \cup {part}
      /\ IF opener[p].at < Statements[v]
         THEN opener' = [opener EXCEPT ![p].at = @ + 1] /\ UNCHANGED <<stamp, draft>>
         ELSE /\ opener' = [opener EXCEPT ![p].version = v + 1, ![p].at = 1]
              /\ stamp' = v + 1 /\ draft' = [stamp |-> v + 1, shape |-> shape']
      /\ UNCHANGED <<additional, writer>>

\* Statement by statement along the chain.  None of them can be repeated: a
\* column that is there already is an error, and everything is rolled back.
Migrate(p) ==
  LET v == opener[p].version
      part == <<v, opener[p].at>>
  IN  /\ At(p, "migrate") /\ v < Latest
      /\ IF part \in draft.shape
         THEN Goto(p, "broken") /\ Release
         ELSE /\ UNCHANGED writer
              /\ \/ /\ opener[p].at < Statements[v]
                    /\ draft' = [draft EXCEPT !.shape = @ \cup {part}]
                    /\ opener' = [opener EXCEPT ![p].at = @ + 1]
                 \/ /\ opener[p].at = Statements[v]
                    /\ draft' = [stamp |-> v + 1, shape |-> draft.shape \cup {part}]
                    /\ opener' = [opener EXCEPT ![p].version = v + 1, ![p].at = 1]
      /\ UNCHANGED file

Commit(p) ==
  /\ At(p, "migrate") /\ opener[p].version = Latest
  /\ stamp' = draft.stamp /\ shape' = draft.shape
  /\ Release /\ Goto(p, "additional")
  /\ UNCHANGED additional

\* Mutant of CreateAdditional: only a file that has just been made gets them.
SkipAdditional(p) ==
  /\ At(p, "additional") /\ Goto(p, "ready")
  /\ additional' = IF opener[p].version = 0 THEN Additional ELSE additional
  /\ UNCHANGED <<stamp, shape, writer, draft>>

\* The session tables, which have no version.
CreateAdditional(p) ==
  /\ At(p, "additional")
  /\ \/ /\ opener[p].at <= Additional /\ writer = None
        /\ additional' = IF opener[p].at > additional THEN opener[p].at ELSE additional
        /\ opener' = [opener EXCEPT ![p].at = @ + 1]
     \/ opener[p].at > Additional /\ Goto(p, "ready") /\ UNCHANGED additional
  /\ UNCHANGED <<stamp, shape, writer, draft>>

\* A lock that is not had in time, or any other fault of the driver.
Fail(p) ==
  /\ opener[p].phase \in {"create", "begin", "recheck", "migrate", "additional"}
  /\ Goto(p, "failed")
  /\ IF writer = p THEN Release ELSE UNCHANGED <<writer, draft>>
  /\ UNCHANGED file

\* The process stops, however far it has come; SQLite rolls back.
Stop(p) ==
  /\ ~At(p, "closed")
  /\ opener' = [opener EXCEPT ![p] = Closed]
  /\ IF writer = p THEN Release ELSE UNCHANGED <<writer, draft>>
  /\ UNCHANGED file

Step(p) ==
  \/ Open(p)
  \/ CreateTable(p)
  \/ Begin(p)
  \/ Recheck(p)
  \/ Migrate(p)
  \/ Commit(p)
  \/ CreateAdditional(p)
  \/ Fail(p)
  \/ Stop(p)

Next == \E p \in Process : Step(p)

Spec == Init /\ [][Next]_vars
---------------------------------------------------------------------------
(***************************************************************************)
(* Properties.                                                             *)
(***************************************************************************)
\* The stamp tells the schema, whoever has stopped wherever: a stamped file
\* has the parts of its version, no more and no less, and a process that is
\* ready works on the latest version with all session tables
\* (_apply_migration: "a crash rolls the whole chain back to the old stamp").
StampTellsShape ==
  /\ stamp \in 1 .. Latest => shape = UpTo(stamp)
  /\ \A p \in Process : At(p, "ready") => stamp = Latest /\ additional = Additional

\* No process ever runs a migration statement on a schema that has had it:
\* racing openers fail at most for want of the lock (_apply_migration: "the
\* stamp re-read after the write lock is acquired skips a migration the
\* racing opener already committed").
NoStatementFails == \A p \in Process : ~At(p, "broken")
============================================================================
