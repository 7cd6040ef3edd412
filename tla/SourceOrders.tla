----------------------------- MODULE SourceOrders -----------------------------
(***************************************************************************)
(* The ads of one source and their rows in the table orders: what          *)
(* Manager.collectSource stores, what Manager.archiveStale moves to the    *)
(* JSON archive, and what the user does to the same rows meanwhile.        *)
(*                                                                         *)
(* A source has at most one collection at a time (OneCollector of the      *)
(* module Collector), and source_runs is that module's subject too.  An    *)
(* order is a row of its own id for every time its ad is inserted; ids     *)
(* come from a sequence and are never used twice.                          *)
(*                                                                         *)
(* Time is counted in ticks of any length that divides 2*JMW_POLL_INTERVAL *)
(* into StaleAfter of them.  The archive is the file of the current month. *)
(* The statuses other than "won" are one, "new": applying and changing the *)
(* status at /status, which never give "won", are a PATCH to "new" whose   *)
(* two statements have nothing between them.                               *)
(***************************************************************************)
EXTENDS Integers

CONSTANTS
  Ads,          \* what the site of the source may list
  Requests,     \* handlers of PATCH /api/orders/{id}
  None,         \* no request under way
  StaleAfter,   \* 2*JMW_POLL_INTERVAL, in ticks
  MaxRows,      \* bound: values of orders_id_seq
  MaxMishaps    \* bound: failed calls, pages not understood, contexts that
                \* end and crashes, together

ASSUME OrdersAssumption ==
  /\ StaleAfter \in Nat \ {0}
  /\ MaxRows \in Nat
  /\ MaxMishaps \in Nat

Rows == 1 .. MaxRows
Statuses == {"new", "won"}

\* What a PATCH read, with the status it is going to write.
Patches == [row : Rows, status : Statuses]

VARIABLES
  listed,       \* ads on the site
  id,           \* orders.id of the ad's row, 0 for none
  status,       \* orders.status of that row
  age,          \* ticks since its last_seen_at
  issued,       \* last value of orders_id_seq
  discarded,    \* rows the user deleted
  archive,      \* how often each row is in the archive file, counted up to 2
  torn,         \* a write of the file was cut short, its entries are lost
  told,         \* rows whose "removed" was broadcast
  request,      \* for each handler, its PATCH
  pc,           \* where the collection is
  dead,         \* its context is done
  elapsed,      \* ticks from the site's answer to StaleOrders, counted up to StaleAfter
  todo,         \* listings it has not stored yet
  fresh,        \* rows it inserted or refreshed
  stale,        \* rows StaleOrders gave it and it has not looked at yet
  cur,          \* the one it is archiving, 0 for none
  mishaps

table == <<id, status, age, issued>>
file  == <<archive, torn>>
run   == <<elapsed, todo, fresh, stale, cur>>
vars == <<listed, table, discarded, file, told, request, pc, dead, run, mishaps>>

Live == {id[a] : a \in Ads} \ {0}

\* 2*JMW_POLL_INTERVAL lies somewhere within a tick of the age of a row, as in
\* sourceDue.  "won" is spared.
MayBeStale(a) == id[a] # 0 /\ status[a] # "won" /\ age[a] >= StaleAfter
MustBeStale(a) == id[a] # 0 /\ status[a] # "won" /\ age[a] > StaleAfter

-----------------------------------------------------------------------------
Init ==
  /\ listed = {}
  /\ id = [a \in Ads |-> 0]
  /\ status = [a \in Ads |-> "new"]
  /\ age = [a \in Ads |-> 0]
  /\ issued = 0
  /\ discarded = {}
  /\ archive = [i \in Rows |-> 0]
  /\ torn = FALSE
  /\ told = {}
  /\ request = [r \in Requests |-> None]
  /\ pc = "idle"
  /\ dead = FALSE
  /\ elapsed = 0
  /\ todo = {}
  /\ fresh = {}
  /\ stale = {}
  /\ cur = 0
  /\ mishaps = 0

Mishap == mishaps < MaxMishaps /\ mishaps' = mishaps + 1

\* A store call of the collection fails, its context being done or not.
StoreError == IF dead THEN UNCHANGED mishaps ELSE Mishap

\* What a statement does to the table if it was committed before its answer
\* was lost.
Perhaps(effect, nothing) == nothing \/ (~dead /\ effect)

\* The collection returns.
Reset ==
  /\ pc' = "idle"
  /\ dead' = FALSE
  /\ elapsed' = 0
  /\ todo' = {}
  /\ fresh' = {}
  /\ stale' = {}
  /\ cur' = 0

-----------------------------------------------------------------------------
(* collectSource *)

\* CreateSourceRun succeeded; the fetch begins.
Begin ==
  /\ pc = "idle"
  /\ pc' = "fetch"
  /\ UNCHANGED <<listed, table, discarded, file, told, request, dead, run, mishaps>>

\* An empty answer is a warning and goes on like any other.  Variant: it ends
\* the collection.
AnsweredEmptyReturns(answer) ==
  IF answer = {}
    THEN Reset
    ELSE pc' = "ingest" /\ todo' = answer
         /\ UNCHANGED <<dead, elapsed, fresh, stale, cur>>
Answered(answer) ==
  /\ pc' = "ingest"
  /\ todo' = answer
  /\ UNCHANGED <<dead, elapsed, fresh, stale, cur>>

\* The fetcher reads the ads of the page ...
FetchListings ==
  /\ pc = "fetch"
  /\ ~dead
  /\ Answered(listed)
  /\ UNCHANGED <<listed, table, discarded, file, told, request, mishaps>>

\* ... or finds none in it, its selectors being out of date ...
FetchUnparsed ==
  /\ pc = "fetch"
  /\ ~dead
  /\ Mishap
  /\ Answered({})
  /\ UNCHANGED <<listed, table, discarded, file, told, request>>

\* ... or fails, and the collection of this source ends there.
FetchFailed ==
  /\ pc = "fetch"
  /\ Reset
  /\ UNCHANGED <<listed, table, discarded, file, told, request, mishaps>>

NextId == issued + 1

InsertRow(a) ==
  /\ id' = [id EXCEPT ![a] = NextId]
  /\ issued' = issued + 1
  /\ status' = [status EXCEPT ![a] = "new"]
  /\ age' = [age EXCEPT ![a] = 0]
  /\ fresh' = fresh \cup {NextId}

\* ON CONFLICT (source, external_id) DO UPDATE.  Variant: last_seen_at is not
\* among the columns.
RefreshRowUnseen(a) ==
  /\ fresh' = fresh \cup {id[a]}
  /\ UNCHANGED <<id, issued, status, age>>
RefreshRow(a) ==
  /\ age' = [age EXCEPT ![a] = 0]
  /\ fresh' = fresh \cup {id[a]}
  /\ UNCHANGED <<id, issued, status>>

\* The row in conflict with an ad is its own.  Variant: the conflict is on the
\* source alone, and any row of it is taken.
UpsertBySource(a) ==
  \/ Live = {} /\ issued < MaxRows /\ InsertRow(a)
  \/ \E i \in Live : /\ id' = [id EXCEPT ![a] = i]
                     /\ fresh' = fresh \cup {i}
                     /\ UNCHANGED <<issued, status, age>>
Upsert(a) ==
  \/ id[a] = 0 /\ issued < MaxRows /\ InsertRow(a)
  \/ id[a] # 0 /\ RefreshRow(a)

\* UpsertListing; on an error the loop continues.  The sequence may run out.
StoreListing(a) ==
  /\ pc = "ingest"
  /\ a \in todo
  /\ todo' = todo \ {a}
  /\ \/ ~dead /\ Upsert(a) /\ UNCHANGED mishaps
     \/ StoreError /\ Perhaps(Upsert(a), UNCHANGED <<table, fresh>>)
     \/ id[a] = 0 /\ issued = MaxRows /\ UNCHANGED <<table, fresh, mishaps>>
  /\ UNCHANGED <<listed, discarded, file, told, request, pc, dead, elapsed, stale, cur>>

\* FinishSourceRun, then archiveStale begins, whatever became of the former.
EndIngest ==
  /\ pc = "ingest"
  /\ todo = {}
  /\ pc' = "stale"
  /\ UNCHANGED <<listed, table, discarded, file, told, request, dead, run, mishaps>>

-----------------------------------------------------------------------------
(* archiveStale *)

\* The query gives copies of the rows, which the loop then works through.
StaleOrders ==
  /\ pc = "stale"
  /\ \/ /\ ~dead
        /\ \E S \in SUBSET {a \in Ads : MayBeStale(a)} :
             /\ {a \in Ads : MustBeStale(a)} \subseteq S
             /\ stale' = {id[a] : a \in S}
        /\ pc' = "archive"
        /\ UNCHANGED <<dead, elapsed, todo, fresh, cur, mishaps>>
     \/ StoreError /\ Reset
  /\ UNCHANGED <<listed, table, discarded, file, told, request>>

\* Append reads the file and opens it for writing, which empties it.  Rows come
\* in the order of first_seen_at, that of their ids.
OpenArchive ==
  /\ pc = "archive"
  /\ \E i \in stale :
       /\ \A j \in stale : i <= j
       /\ cur' = i
       /\ stale' = stale \ {i}
  /\ pc' = "write"
  /\ UNCHANGED <<listed, table, discarded, file, told, request, dead, elapsed, todo, fresh, mishaps>>

NextOrder == pc' = "archive" /\ cur' = 0

\* A file that cannot be parsed counts as empty the next time: entries are lost.
Tear == archive' = [i \in Rows |-> 0] /\ torn' = TRUE

\* An error of Append skips the order.  Variant: it is only logged.
ArchiveFailedGoOn == pc' = "emit" /\ UNCHANGED cur
ArchiveFailed == NextOrder

WriteArchive ==
  /\ pc = "write"
  /\ \/ /\ archive' = [archive EXCEPT ![cur] = IF @ < 2 THEN @ + 1 ELSE @]
        /\ pc' = "emit"
        /\ UNCHANGED <<torn, cur, mishaps>>
     \/ /\ Mishap
        /\ Tear \/ UNCHANGED file
        /\ ArchiveFailed
  /\ UNCHANGED <<listed, table, discarded, told, request, dead, elapsed, todo, fresh, stale>>

\* emit broadcasts even when the event could not be inserted.
Broadcast(i) == told' = told \cup {i}

EmitRemoved ==
  /\ pc = "emit"
  /\ Broadcast(cur)
  /\ pc' = "delete"
  /\ UNCHANGED <<listed, table, discarded, file, request, dead, run, mishaps>>

\* DELETE ... WHERE id = cur; a row that is gone already is only logged.
\* Variant: WHERE id = cur AND last_seen_at is old.
RemoveRowIfStale(i) == id' = [a \in Ads |-> IF id[a] = i /\ MayBeStale(a) THEN 0 ELSE id[a]]
RemoveRow(i) == id' = [a \in Ads |-> IF id[a] = i THEN 0 ELSE id[a]]

DeleteRow(i) ==
  /\ RemoveRow(i)
  /\ status' = [a \in Ads |-> IF id'[a] = 0 THEN "new" ELSE status[a]]
  /\ age' = [a \in Ads |-> IF id'[a] = 0 THEN 0 ELSE age[a]]
  /\ UNCHANGED issued

DeleteOrder ==
  /\ pc = "delete"
  /\ \/ ~dead /\ DeleteRow(cur) /\ UNCHANGED mishaps
     \/ StoreError /\ Perhaps(DeleteRow(cur), UNCHANGED table)
  /\ NextOrder
  /\ UNCHANGED <<listed, discarded, file, told, request, dead, elapsed, todo, fresh, stale>>

EndArchive ==
  /\ pc = "archive"
  /\ stale = {}
  /\ Reset
  /\ UNCHANGED <<listed, table, discarded, file, told, request, mishaps>>

Collect ==
  \/ Begin
  \/ FetchListings
  \/ FetchUnparsed
  \/ FetchFailed
  \/ \E a \in Ads : StoreListing(a)
  \/ EndIngest
  \/ StaleOrders
  \/ OpenArchive
  \/ WriteArchive
  \/ EmitRemoved
  \/ DeleteOrder
  \/ EndArchive

-----------------------------------------------------------------------------
(* The user *)

\* HandleOrder, PATCH: GetOrder, and the fields of the body laid over the copy;
\* without a status in the body the copy's own is written back.
PatchRead(r, a) ==
  /\ request[r] = None
  /\ id[a] # 0
  /\ \E s \in Statuses : request' = [request EXCEPT ![r] = [row |-> id[a], status |-> s]]
  /\ UNCHANGED <<listed, table, discarded, file, told, pc, dead, run, mishaps>>

\* UpdateOrder writes every column of the copy; a row that is gone is a 404.
PatchWrite(r) ==
  /\ request[r] # None
  /\ status' = [a \in Ads |-> IF id[a] = request[r].row THEN request[r].status ELSE status[a]]
  /\ request' = [request EXCEPT ![r] = None]
  /\ UNCHANGED <<listed, id, age, issued, discarded, file, told, pc, dead, run, mishaps>>

\* HandleOrder, DELETE.
UserDelete(a) ==
  /\ id[a] # 0
  /\ discarded' = discarded \cup {id[a]}
  /\ DeleteRow(id[a])
  /\ UNCHANGED <<listed, file, told, request, pc, dead, run, mishaps>>

-----------------------------------------------------------------------------
(* The environment *)

SiteChanges(a) ==
  /\ listed' = IF a \in listed THEN listed \ {a} ELSE listed \cup {a}
  /\ UNCHANGED <<table, discarded, file, told, request, pc, dead, run, mishaps>>

\* Time passes, and a collection takes as long as it takes.
Storing == pc \in {"ingest", "stale"}

Tick ==
  /\ elapsed' = IF Storing /\ elapsed < StaleAfter THEN elapsed + 1 ELSE elapsed
  /\ age' = [a \in Ads |-> IF id[a] # 0 /\ age[a] <= StaleAfter THEN age[a] + 1 ELSE age[a]]
  /\ UNCHANGED <<listed, id, status, issued, discarded, file, told, request, pc, dead,
                 todo, fresh, stale, cur, mishaps>>

\* The handler that started a manual run returns, or the process is stopping.
ContextDone ==
  /\ pc # "idle"
  /\ ~dead
  /\ Mishap
  /\ dead' = TRUE
  /\ UNCHANGED <<listed, table, discarded, file, told, request, pc, run>>

\* The process dies, perhaps in the middle of a write, and starts again.
Crash ==
  /\ Mishap
  /\ IF pc = "write" THEN Tear \/ UNCHANGED file ELSE UNCHANGED file
  /\ Reset
  /\ request' = [r \in Requests |-> None]
  /\ UNCHANGED <<listed, table, discarded, told>>

Next ==
  \/ Collect
  \/ \E r \in Requests : PatchWrite(r) \/ \E a \in Ads : PatchRead(r, a)
  \/ \E a \in Ads : UserDelete(a) \/ SiteChanges(a)
  \/ Tick
  \/ ContextDone
  \/ Crash

Spec == Init /\ [][Next]_vars

\* The source is polled again and again (EverySourcePolled of Collector), its
\* calls return, time passes, and its site does answer now and then.
Fairness ==
  /\ WF_vars(Collect)
  /\ SF_vars(FetchListings)
  /\ WF_vars(Tick)

FairSpec == Spec /\ Fairness

-----------------------------------------------------------------------------
(* Properties *)

\* The collector removes row i.
Removes(i) == pc = "delete" /\ pc' = "archive" /\ i \in Live /\ i \notin Live'

\* The table: two ads never share a row and no id is ahead of the sequence.
TableOK ==
  /\ id \in [Ads -> Nat]
  /\ status \in [Ads -> Statuses]
  /\ age \in [Ads -> Nat]
  /\ issued \in 0..MaxRows
  /\ \A a \in Ads : id[a] <= issued /\ age[a] <= StaleAfter + 1
  /\ \A a, b \in Ads : a # b /\ id[a] # 0 => id[a] # id[b]

\* What is outside the table: the site, the archive, the watchers, the handlers.
OutsideOK ==
  /\ listed \subseteq Ads
  /\ discarded \subseteq 1..issued
  /\ archive \in [Rows -> 0..2]
  /\ torn \in BOOLEAN
  /\ told \subseteq 1..issued
  /\ request \in [Requests -> Patches \cup {None}]
  /\ mishaps \in Nat

RunOK ==
  /\ pc \in {"idle", "fetch", "ingest", "stale", "archive", "write", "emit", "delete"}
  /\ dead \in BOOLEAN
  /\ elapsed \in 0..StaleAfter
  /\ todo \subseteq Ads
  /\ fresh \subseteq 1..issued
  /\ stale \subseteq 1..issued
  /\ cur \in 0..issued

\* Ranges of the variables, and the rows of two ads are two rows of their own.
TypeOK == TableOK /\ OutsideOK /\ RunOK

\* Every order that ever had a row still has it, or the user deleted it, or it
\* is in the archive, whatever failed, was cancelled or crashed on the way: only
\* a write of the archive that was cut short loses any.
NothingLost ==
  \A i \in 1..issued : i \in Live \cup discarded \/ archive[i] > 0 \/ torn

\* The collector removes a row only after it is in the archive file and after
\* everyone who watches was told.
RemovedInOrder ==
  [][\A i \in Rows : Removes(i) => (archive[i] > 0 /\ i \in told)]_vars

\* The table, the archive and the broadcasts implement OrderBook, whatever fails,
\* crashes or is deleted between the three effects of archiving an order.
Book == INSTANCE OrderBook WITH
  rows <- Live, last <- issued, kept <- {i \in Rows : archive[i] > 0}, lost <- torn
ImplementsOrderBook == Book!Spec

\* A collection that gets from the site's answer to StaleOrders within 2*JMW_POLL_INTERVAL
\* removes no order that it has stored, although last_seen_at is written one listing at a
\* time, other listings fail, and it works from copies read some time ago.
FreshKept ==
  [][\A i \in Rows : Removes(i) /\ i \in fresh => elapsed >= StaleAfter]_vars

\* As long as every call succeeds and every context lives, an order is archived
\* once, and everyone told that it is removed is told the truth.
ArchivedOnce ==
  mishaps = 0 => \A i \in 1..issued :
                    /\ archive[i] <= 1
                    /\ archive[i] = 1 => (i \notin Live \/ i = cur)
                    /\ i \in told => (i \notin Live \/ i = cur)

\* The row of an ad that has left the site and is not won leaves the table.
WithdrawnLeaves ==
  \A a \in Ads : <>[](a \notin listed /\ status[a] # "won") => []<>(id[a] = 0)

\* "Won orders are not deleted": the collector removes no row that is won.
WonKept ==
  [][\A a \in Ads : Removes(id[a]) => status[a] # "won"]_vars

\* Nobody writes a status from StaleOrders to the end of the collection.
Undisturbed ==
  [][pc \notin {"idle", "fetch", "ingest", "stale"} => \A r \in Requests : ~PatchWrite(r)]_vars
=============================================================================
