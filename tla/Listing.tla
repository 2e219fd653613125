-------------------------------- MODULE Listing --------------------------------
(***************************************************************************)
(* Keyset pagination, while organizations are created, renamed and         *)
(* deleted: the organizations of a user (list_user_organizations) and the  *)
(* search of the administrator (admin_search_organizations).  The lists of *)
(* memberships and API keys are the first kind without its second read.    *)
(*                                                                         *)
(* A client follows the cursors of one list from the first page to the     *)
(* last.  SQLite answers a page with one query.  DynamoDB collects a page  *)
(* from several reads, between which anything may change: batches of a     *)
(* lagging index, or segments of a scan that are filtered and sorted.      *)
(*                                                                         *)
(* Organizations are numbered in the order (created_at, id).  They are     *)
(* created in any order: clocks of processes differ, and a user may join   *)
(* an organization that is older than those already listed.                *)
(***************************************************************************)
EXTENDS Organizations, FiniteSetsExt

CONSTANTS
  Query,         \* searches, each the set of the names it matches
  Requested,     \* page sizes clients ask for
  MaxLimit,      \* MAX_PAGE_LIMIT; MIN_PAGE_LIMIT is 1
  ScanBatch      \* SCAN_BATCH, items evaluated by one index query

ASSUME OrgsAreOrdered == Org \subseteq Nat \ {0} /\ IsFiniteSet(Org)
ASSUME QueriesMatchNames == Query \subseteq SUBSET Name
ASSUME SizesArePositive == Requested \subseteq Int /\ {MaxLimit, ScanBatch} \subseteq Nat \ {0}

VARIABLES
  member,        \* organizations the listing user has an active membership of
  indexed,       \* what the index by-user shows of it
  list           \* the list in progress

listVars == <<member, indexed, list>>
rest == <<adapter, tables, call, erasing, loose>>
allVars == <<vars, listVars>>

\* after is the cursor, the last position returned (0 for none); start the
\* position the next index query resumes from; todo what a scan has yet to
\* read; items what was read for this page; returned the pages so far, each as
\* the set of what it shows, for a page is sorted when it is built.
\* stable is history: what the list had to show in every state since it began.
NoList == [phase |-> "idle", kind |-> "user", query |-> {}, limit |-> 1, after |-> 0, start |-> 0,
           todo |-> {}, items |-> {}, returned |-> <<>>, stable |-> {}]

ListInit ==
  /\ member \in SUBSET {o \in Org : Exists(o)}
  /\ indexed = member
  /\ list = NoList

Matches(row, q) == row # None /\ row.name \in q

\* What a list shows of these tables; DynamoDB's index has to show it, too.
Shown(kind, q, rows, members, index) ==
  IF kind = "search" THEN {o \in Org : Matches(rows[o], q)}
  ELSE {o \in members : rows[o] # None /\ (adapter = "dynamodb" => o \in index)}

Visible == Shown(list.kind, list.query, organization, member, indexed)

\* Every step of anybody updates what has been visible throughout.
Watch(next) ==
  [next EXCEPT !.stable = @ \cap Shown(list.kind, list.query, organization', member', indexed')]

First(n, os) == {o \in os : Cardinality({p \in os : p < o}) < n}
---------------------------------------------------------------------------
Begin(kind, q) ==
  /\ list.phase \in {"idle", "done"}
  /\ list' = [NoList EXCEPT !.phase = "page", !.kind = kind, !.query = q,
                !.stable = Shown(kind, q, organization, member, indexed)]

\* Out of range is not refused but brought into the range.
Clamp(n) == Max({1, Min({n, MaxLimit})})

\* Mutant of NextPage: the cursor is the last item read, the probe included.
NextPageAfterProbe(l, items) ==
  LET page == First(l.limit, items)
      more == items # page /\ page # {}
  IN  [l EXCEPT !.returned = Append(@, page), !.items = {}, !.start = 0, !.todo = {},
         !.after = IF more THEN Max(items) ELSE @, !.phase = IF more THEN "page" ELSE "done"]

\* One item more than the limit is asked for; if it is there, another page is
\* offered, after the last item returned.
NextPage(l, items) ==
  LET page == First(l.limit, items)
      more == items # page /\ page # {}
  IN  [l EXCEPT !.returned = Append(@, page), !.items = {}, !.start = 0, !.todo = {},
         !.after = IF more THEN Max(page) ELSE @, !.phase = IF more THEN "page" ELSE "done"]

\* Mutant of Beyond: the position of the cursor itself is not left out.
BeyondOrAt(after, os) == {o \in os : o >= after}

\* (created_at, id) > position
Beyond(after, os) == {o \in os : o > after}

\* SQLite: a row is fetched with its limit and its order.
PageAtOnce(n) ==
  /\ list.phase = "page" /\ adapter = "sqlite"
  /\ LET limit == Clamp(n) IN
       list' = Watch(NextPage([list EXCEPT !.limit = limit],
                       First(limit + 1, Beyond(list.after, Visible))))

\* DynamoDB decodes the cursor and starts to read.
StartPage(n) ==
  /\ list.phase = "page" /\ adapter = "dynamodb"
  /\ list' = Watch([list EXCEPT !.limit = Clamp(n),
                      !.phase = IF list.kind = "user" THEN "query" ELSE "scan",
                      !.start = list.after,
                      !.todo = IF list.kind = "user" THEN {} ELSE Org])

\* One batch of the index.  Enough is limit + 1, or the end of the index.
QueryBatch ==
  LET beyond == Beyond(list.start, indexed)
      batch == First(ScanBatch, beyond)
      items == list.items \cup batch
      end == Cardinality(batch) < ScanBatch
  IN  /\ list.phase = "query"
      /\ list' = Watch([list EXCEPT !.items = items,
                          !.start = IF end THEN @ ELSE Max(batch),
                          !.phase = IF end \/ Cardinality(items) > list.limit THEN "fetch" ELSE @])

\* The organizations of the page are read back; one that has gone is an
\* error of the whole list.
ReadBack ==
  /\ list.phase = "fetch"
  /\ list' = IF \A o \in First(list.limit, list.items) : Exists(o)
             THEN Watch(NextPage(list, list.items))
             ELSE NoList

\* The scan reads its segments in an order of its own.
ScanSegment(os) ==
  /\ list.phase = "scan"
  /\ os \subseteq list.todo /\ os # {}
  /\ list' = Watch([list EXCEPT !.items = @ \cup {o \in os : Matches(organization[o], list.query)},
                      !.todo = @ \ os,
                      !.phase = IF list.todo = os THEN "sort" ELSE @])

\* Filtered by name, sorted, cut at the cursor and at the limit.
SortPage ==
  /\ list.phase = "sort"
  /\ list' = Watch(NextPage(list, Beyond(list.after, list.items)))

\* The client turns away, or a query fails.
GiveUp == list.phase \notin {"idle", "done"} /\ list' = NoList

ListStep ==
  /\ UNCHANGED <<rest, member, indexed>> /\ outcome' = Silence
  /\ \/ Begin("user", {}) \/ \E q \in Query : Begin("search", q)
     \/ \E n \in Requested : PageAtOnce(n) \/ StartPage(n)
     \/ QueryBatch \/ ReadBack
     \/ \E os \in SUBSET Org : ScanSegment(os)
     \/ SortPage \/ GiveUp
---------------------------------------------------------------------------
Join(o) == Exists(o) /\ member' = member \cup {o} /\ UNCHANGED indexed
Leave(o) == o \in member /\ member' = member \ {o} /\ UNCHANGED indexed

\* The index catches up, one membership at a time.
Propagate(o) ==
  /\ adapter = "dynamodb" /\ (o \in member <=> o \notin indexed)
  /\ indexed' = IF o \in member THEN indexed \cup {o} ELSE indexed \ {o}
  /\ UNCHANGED member

Membership ==
  /\ UNCHANGED rest /\ outcome' = Silence
  /\ \E o \in Org : Join(o) \/ Leave(o) \/ Propagate(o)
  /\ list' = Watch(list)

\* A deleted organization takes its memberships with it.
Change ==
  /\ Next
  /\ member' = {o \in member : organization'[o] # None}
  /\ UNCHANGED indexed
  /\ list' = Watch(list)

ListSpecInit == Init /\ ListInit
ListNext == ListStep \/ Membership \/ Change
ListSpec == ListSpecInit /\ [][ListNext]_allVars
---------------------------------------------------------------------------
(***************************************************************************)
(* Properties.                                                             *)
(***************************************************************************)
Seen == UNION {list.returned[i] : i \in DOMAIN list.returned}

\* A list that has come to its end has shown everything that was there to
\* show all the time, whatever was created, renamed, joined, left or deleted
\* between two pages or between two reads of one page (the cursor resumes
\* after the last item returned; _query_matches, _admin_scan).
NothingMissed == list.phase = "done" => list.stable \subseteq Seen

\* No list shows an organization twice, nor one that should have been on an
\* earlier page.
NothingTwice ==
  \A i, k \in DOMAIN list.returned :
    i < k => \A o \in list.returned[i], p \in list.returned[k] : o < p
============================================================================
