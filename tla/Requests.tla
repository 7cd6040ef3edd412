------------------------------- MODULE Requests -------------------------------
(***************************************************************************)
(* Requests on search profiles and on their rows in the database grid,     *)
(* statement by statement, over the connection pool.                       *)
(*                                                                         *)
(* A statement outside a transaction needs a free connection for as long   *)
(* as it runs, which is one step, unless it has to wait for a row lock. A  *)
(* transaction keeps its connection to its end, and ListSearchProfiles     *)
(* keeps one while it loads the children of every profile over others.     *)
(*                                                                         *)
(* A request runs once.  A write is known by its stamp, its place in the   *)
(* order of commits; the columns of a row share one.  The checks of the    *)
(* input (validateSearchProfile, the grid's whitelist) end a request       *)
(* before its first statement.                                             *)
(***************************************************************************)
EXTENDS Naturals, FiniteSets

CONSTANTS
  Requests,
  Existing,       \* profiles at the start
  None,
  PoolSize,       \* MaxConns
  MaxMishaps      \* bound: failed statements, contexts cancelled, lost answers

ASSUME PoolAssumption ==
  /\ IsFiniteSet(Requests) /\ Existing \cap Requests = {}
  /\ PoolSize \in Nat \ {0} /\ MaxMishaps \in Nat

VARIABLES
  row, tags, sources,   \* the tables, as in ProfileStore
  clock,                \* commits so far
  pc, kind, id,         \* a request: its next statement, what it is, its profile
  cleared,              \* the child rows that its DELETEs found
  mine,                 \* the stamp of its commit
  seen,                 \* what it read for its answer
  todo,                 \* ListSearchProfiles: the profiles not yet loaded
  mishaps

tables  == <<row, tags, sources, clock>>
request == <<kind, id, cleared, mine, seen, todo>>
vars    == <<tables, pc, request, mishaps>>

Profiles == Existing \cup Requests      \* the id of a row is named by the request that inserts it
Kinds == {"list", "get", "create", "patch", "delete", "rows", "insert", "edit"}

\* The statements before which a request has nothing, those for which it has a
\* connection and waits for a row, those within its hold of the row.
Fetching == {"begin", "row", "tags", "sources", "outer", "columns", "count", "page", "conn"}
Locking  == {"lock", "exec"}
Owning   == {"delete tags", "delete sources", "commit"}
Listing  == {"list tags", "list sources"}
Steps    == {"idle", "done"} \cup Fetching \cup Locking \cup Owning \cup Listing

\* Variant: the rows of a list are never closed.
HeldForGood == {r \in Requests : \/ pc[r] \in Locking \cup Owning \cup Listing
                                 \/ kind[r] = "list" /\ pc[r] = "done"}

Held == {r \in Requests : pc[r] \in Locking \cup Owning \cup Listing}

\* Variant: one connection more than the pool has.
FreeOne == Cardinality(Held) <= PoolSize

Free == Cardinality(Held) < PoolSize

Nothing == [row |-> 0, tags |-> {}, sources |-> {}]

\* Variant: a transaction that fails is not rolled back, and keeps the row.
OwnersForGood(i) ==
  {r \in Requests : /\ pc[r] \in Owning \/ (pc[r] = "done" /\ cleared[r] # Nothing)
                    /\ id[r] = i}

Owners(i) == {r \in Requests : pc[r] \in Owning /\ id[r] = i}
Gone(r) == row[id[r]] = 0

\* Variant: nobody waits for a row.
RowNeverOwned(r) == TRUE

RowFree(r) == Gone(r) \/ Owners(id[r]) = {}

Init ==
  /\ row = [i \in Profiles |-> IF i \in Existing THEN 1 ELSE 0]
  /\ tags = [i \in Profiles |-> IF i \in Existing THEN {1} ELSE {}]
  /\ sources = tags
  /\ clock = 1 /\ mishaps = 0
  /\ pc = [r \in Requests |-> "idle"]
  /\ kind = [r \in Requests |-> None] /\ id = [r \in Requests |-> None]
  /\ cleared = [r \in Requests |-> Nothing] /\ seen = [r \in Requests |-> Nothing]
  /\ mine = [r \in Requests |-> 0] /\ todo = [r \in Requests |-> {}]

Goto(r, from, to) == pc[r] = from /\ pc' = [pc EXCEPT ![r] = to]

First == [
  list |-> "outer", get |-> "row", create |-> "begin", patch |-> "begin",
  delete |-> "conn", rows |-> "columns", insert |-> "columns", edit |-> "columns"]

\* A request for one profile names any that may have been there.
Start(r) ==
  /\ pc[r] = "idle"
  /\ \E k \in Kinds, i \in Profiles :
       /\ k \in {"list", "create", "rows", "insert"} => i = r
       /\ kind' = [kind EXCEPT ![r] = k] /\ id' = [id EXCEPT ![r] = i]
       /\ pc' = [pc EXCEPT ![r] = First[k]]
  /\ UNCHANGED <<tables, cleared, mine, seen, todo, mishaps>>

-----------------------------------------------------------------------------
(* CreateSearchProfile and UpdateSearchProfile: one transaction *)

Begin(r) ==
  /\ Free
  /\ Goto(r, "begin", "lock")
  /\ UNCHANGED <<tables, request, mishaps>>

\* The new row is not visible before the commit.
InsertRow(r) ==
  /\ kind[r] = "create"
  /\ Goto(r, "lock", "delete tags")
  /\ UNCHANGED <<tables, request, mishaps>>

\* UPDATE waits for the owner of the row and looks at it again then.
UpdateRow(r) ==
  /\ pc[r] = "lock" /\ kind[r] = "patch"
  /\ RowFree(r)
  /\ pc' = [pc EXCEPT ![r] = IF Gone(r) THEN "done" ELSE "delete tags"]
  /\ UNCHANGED <<tables, request, mishaps>>

DeleteTags(r) ==
  /\ Goto(r, "delete tags", "delete sources")
  /\ cleared' = [cleared EXCEPT ![r].tags = tags[id[r]]]
  /\ UNCHANGED <<tables, kind, id, mine, seen, todo, mishaps>>

\* The inserts that follow add rows of the request's own.
ReplaceSources(r) ==
  /\ Goto(r, "delete sources", "commit")
  /\ cleared' = [cleared EXCEPT ![r].sources = sources[id[r]]]
  /\ UNCHANGED <<tables, kind, id, mine, seen, todo, mishaps>>

\* Variant: the answer is the profile as it was when the transaction began.
CommitAnswersOld(r) ==
  LET i == id[r] v == clock + 1 IN
  /\ pc[r] = "commit"
  /\ pc' = [pc EXCEPT ![r] = "done"] /\ UNCHANGED mishaps
  /\ clock' = v
  /\ row' = [row EXCEPT ![i] = v]
  /\ tags' = [tags EXCEPT ![i] = (@ \ cleared[r].tags) \cup {v}]
  /\ sources' = [sources EXCEPT ![i] = (@ \ cleared[r].sources) \cup {v}]
  /\ mine' = [mine EXCEPT ![r] = v]
  /\ seen' = [seen EXCEPT ![r] = [row |-> row[i], tags |-> cleared[r].tags,
                                  sources |-> cleared[r].sources]]
  /\ cleared' = [cleared EXCEPT ![r] = Nothing]
  /\ UNCHANGED <<kind, id, todo>>

\* Everything becomes visible at once; the answer is read afterwards.
Commit(r) ==
  LET i == id[r] v == clock + 1 IN
  /\ pc[r] = "commit"
  /\ \/ pc' = [pc EXCEPT ![r] = "row"] /\ UNCHANGED mishaps
     \/ pc' = [pc EXCEPT ![r] = "done"] /\ mishaps < MaxMishaps /\ mishaps' = mishaps + 1
  /\ clock' = v
  /\ row' = [row EXCEPT ![i] = v]
  /\ tags' = [tags EXCEPT ![i] = (@ \ cleared[r].tags) \cup {v}]
  /\ sources' = [sources EXCEPT ![i] = (@ \ cleared[r].sources) \cup {v}]
  /\ mine' = [mine EXCEPT ![r] = v]
  /\ cleared' = [cleared EXCEPT ![r] = Nothing]
  /\ UNCHANGED <<kind, id, seen, todo>>

-----------------------------------------------------------------------------
(* GetSearchProfile and ListSearchProfiles *)

GetRow(r) ==
  /\ Free
  /\ Goto(r, "row", IF Gone(r) THEN "done" ELSE "tags")
  /\ seen' = [seen EXCEPT ![r].row = row[id[r]]]
  /\ UNCHANGED <<tables, kind, id, cleared, mine, todo, mishaps>>

\* In a list the profile whose children are loaded is one of todo.
LoadTags(r) ==
  \E i \in IF kind[r] = "list" THEN todo[r] ELSE {id[r]} :
    /\ Free
    /\ Goto(r, "tags", "sources") \/ Goto(r, "list tags", "list sources")
    /\ id' = [id EXCEPT ![r] = i]
    /\ seen' = [seen EXCEPT ![r].tags = tags[i], ![r].sources = {}]
    /\ UNCHANGED <<tables, kind, cleared, mine, todo, mishaps>>

LoadSources(r) ==
  LET rest == todo[r] \ {id[r]} IN
  /\ Free
  /\ \/ Goto(r, "sources", "done")
     \/ Goto(r, "list sources", IF rest = {} THEN "done" ELSE "list tags")
  /\ seen' = [seen EXCEPT ![r].sources = sources[id[r]]]
  /\ todo' = [todo EXCEPT ![r] = rest]
  /\ UNCHANGED <<tables, kind, id, cleared, mine, mishaps>>

\* The rows are read while the connection of the query stays taken.
ListRows(r) ==
  LET all == {i \in Profiles : row[i] # 0} IN
  /\ Free
  /\ Goto(r, "outer", IF all = {} THEN "done" ELSE "list tags")
  /\ todo' = [todo EXCEPT ![r] = all]
  /\ UNCHANGED <<tables, kind, id, cleared, mine, seen, mishaps>>

-----------------------------------------------------------------------------
(* The grid, and DELETE: single statements, each on a connection of its own *)

GridColumns(r) ==
  /\ Free
  /\ Goto(r, "columns", IF kind[r] = "rows" THEN "count" ELSE "conn")
  /\ UNCHANGED <<tables, request, mishaps>>

GridRows(r) ==
  /\ Free
  /\ Goto(r, "count", "page") \/ Goto(r, "page", "done")
  /\ UNCHANGED <<tables, request, mishaps>>

Acquire(r) ==
  /\ Free
  /\ Goto(r, "conn", "exec")
  /\ UNCHANGED <<tables, request, mishaps>>

\* ON DELETE CASCADE takes the children.
Delete(r) ==
  /\ kind[r] = "delete"
  /\ RowFree(r)
  /\ Goto(r, "exec", "done")
  /\ row' = [row EXCEPT ![id[r]] = 0]
  /\ tags' = [tags EXCEPT ![id[r]] = {}] /\ sources' = [sources EXCEPT ![id[r]] = {}]
  /\ UNCHANGED <<clock, request, mishaps>>

\* Only the columns given are set; no row, nothing done.
GridUpdate(r) ==
  /\ kind[r] = "edit"
  /\ RowFree(r)
  /\ Goto(r, "exec", "done")
  /\ IF Gone(r) THEN UNCHANGED <<row, clock>>
     ELSE row' = [row EXCEPT ![id[r]] = clock + 1] /\ clock' = clock + 1
  /\ UNCHANGED <<tags, sources, request, mishaps>>

GridInsert(r) ==
  /\ kind[r] = "insert"
  /\ Goto(r, "exec", "done")
  /\ row' = [row EXCEPT ![id[r]] = clock + 1] /\ clock' = clock + 1
  /\ UNCHANGED <<tags, sources, request, mishaps>>

\* A statement fails or the client has gone: rollback, and the connection is back.
Fail(r) ==
  /\ pc[r] \notin {"idle", "done"}
  /\ mishaps < MaxMishaps /\ mishaps' = mishaps + 1
  /\ pc' = [pc EXCEPT ![r] = "done"]
  /\ UNCHANGED <<tables, request>>

Step(r) ==
  \/ Start(r)
  \/ Begin(r) \/ InsertRow(r) \/ UpdateRow(r) \/ DeleteTags(r) \/ ReplaceSources(r)
  \/ Commit(r)
  \/ GetRow(r) \/ LoadTags(r) \/ LoadSources(r) \/ ListRows(r)
  \/ GridColumns(r) \/ GridRows(r) \/ Acquire(r) \/ Delete(r) \/ GridUpdate(r) \/ GridInsert(r)

Next == \E r \in Requests : Step(r) \/ Fail(r)

\* A request has finitely many steps, so that it is enough that whoever can go on goes on:
\* what the pool and PostgreSQL's row locks grant, in whatever order.
Fairness == WF_vars(\E r \in Requests : pc[r] # "idle" /\ Step(r))

Spec == Init /\ [][Next]_vars /\ Fairness

-----------------------------------------------------------------------------
(* Properties *)

Stamps == 0..clock

\* Ranges of the variables; never more connections taken than there are.
TypeOK ==
  /\ row \in [Profiles -> Stamps]
  /\ tags \in [Profiles -> SUBSET Stamps] /\ sources \in [Profiles -> SUBSET Stamps]
  /\ clock \in Nat /\ mishaps \in 0..MaxMishaps
  /\ pc \in [Requests -> Steps]
  /\ kind \in [Requests -> Kinds \cup {None}] /\ id \in [Requests -> Profiles \cup {None}]
  /\ cleared \in [Requests -> [row : {0}, tags : SUBSET Stamps, sources : SUBSET Stamps]]
  /\ seen \in [Requests -> [row : Stamps, tags : SUBSET Stamps, sources : SUBSET Stamps]]
  /\ mine \in [Requests -> Stamps] /\ todo \in [Requests -> SUBSET Profiles]
  /\ Cardinality(Held) <= PoolSize

\* A profile is written as a whole by one request at a time, although its child
\* rows are replaced by statements that see what others have committed, and the
\* grid edits and deletes the same row (replaceSearchProfileChildren).
P == INSTANCE ProfileStore
ImplementsProfileStore == P!Spec

\* The answer to a write is at least as new as the write; an answer put together
\* from three statements may be a mixture, but one that goes forward in time.
AnswersForward ==
  \A r \in Requests :
    /\ seen[r].row # 0 => seen[r].row >= mine[r]
    /\ \A t \in seen[r].tags \cup seen[r].sources : t >= mine[r]
    /\ \A t \in seen[r].tags, s \in seen[r].sources : t <= s

Lists == {r \in Requests : pc[r] \in Listing}

CanGo(r) ==
  \/ pc[r] \in Owning
  \/ pc[r] \in Fetching \cup Listing /\ Free
  \/ pc[r] \in Locking /\ (kind[r] \in {"create", "insert"} \/ RowFree(r))

\* As long as not every connection is taken by a ListSearchProfiles that waits for
\* another, some request can go on: transactions and row locks never close a circle.
Unstuck ==
  (\E r \in Requests : pc[r] \notin {"idle", "done"}) /\ Cardinality(Lists) < PoolSize
    => \E r \in Requests : CanGo(r)

\* Every request ends, unless lists come to hold the whole pool: then none does, of
\* any kind, before a client gives up (ListSearchProfiles).
RequestsEnd ==
  \/ <>[](\A r \in Requests : pc[r] \in {"idle", "done"})
  \/ <>[](Cardinality(Lists) >= PoolSize)
=============================================================================
