# TLA+ models of JuniorMayWork

JuniorMayWork watches freelance boards, keeps their ads as orders in PostgreSQL,
tells browsers over a WebSocket what is new or gone, moves ads that left a board
to a JSON archive, and lets its user edit, apply for and drop orders. One Go
process (`src/backend`) does all of it; a Next.js frontend (`src/frontend`) talks
to it over HTTP and `/ws`.

Paths below are under `src/backend` unless they say otherwise.

## 1. The system

| Component | Where | State | Operations |
|---|---|---|---|
| Scraper manager, scheduling | `internal/scraper/scraper.go` `Run`, `RunOnce`, `collect`, `sourceDue`; `internal/store/radar.go` | `Manager.running`, the 30 s ticker; tables `sources` (switch, interval, last success and failure), `source_runs` | collect on a tick or on `POST /api/scraper/run`; open and close a run; stamp the source |
| Scraper manager, ingest and archive | `collectSource`, `archiveStale`, `emit`; `internal/store/orders.go` | table `orders`, the archive file, table `events` | upsert each listing, find the stale orders, append, announce, delete |
| Archive | `internal/archive/archive.go` | `orders-YYYY-MM.json` | read all, append one, write all |
| Duplicates and scores | `scraper.go` 160-198, `internal/store/radar_ingest.go`, `FreshOrders`, `MarkOrderSeen`, `DismissOrder` | `content_fingerprint`, `duplicate_of_id`, scores and inbox flags of `orders` | find an older row with the same text, mark, show in the inbox |
| Order status | `internal/api/orders.go`, `internal/store/orders_extra.go`, `internal/store/events.go` | `orders.status`, `orders.status_id`, `order_status_history`, `applications` | PATCH (read, change, write), `/status` (transaction), `/apply` (transaction) |
| Hub and feed | `internal/ws/hub.go`, `frontend/lib/useLive.js`, `frontend/components/EventFeed.jsx`, `emit` and `emitStatusChanged` | set of sockets under a mutex; the browser's connection and list of events | write to every client, connect, drop, reconnect, first answer |
| Fetchers | `internal/scraper/sources/*.go` | none | one HTTP request of at most 20 s per page or channel, parsed into listings |
| Search profiles, pool | `internal/store/search_profiles.go`, `internal/db/db.go` | ten connections; three tables | nested queries on several connections; a transaction that replaces child rows |
| Grid | `internal/store/grid.go` | any listed table | insert, update, delete a row |
| Migrations | `internal/db/db.go` `Migrate` | `schema_migrations` | each embedded file once, in a transaction |
| Lifecycle | `cmd/jmw/main.go`, `internal/db/db.go` | the process, an embedded PostgreSQL that may outlive it | start, signal, `Shutdown`, exit |
| Reports | `internal/api/reports.go`, `internal/store/reports.go`, `reports_pdf.go` | table `reports`, `report_downloads`, a file per report | write a file and its row, send it, count the parts of a summary |
| Dashboard, schema map, branches, configuration | `internal/api`, `internal/store`, `internal/config` | coordinates of nodes | single statements and read-only queries |

How they interact. `main` starts `Manager.Run` and the HTTP server. Manager and
handlers share nothing in memory but `Manager.running`, the hub's mutex and the
archive's mutex; everything else is a PostgreSQL statement of its own over a pool
of ten connections (four operations and each migration use a transaction). The manager calls the store, the archive and
`Hub.Notify`; the handlers call the store and `Hub.Notify`; a manual run is a
goroutine that keeps the context of the request that started it.

What is hard here:

* callers of `collect` compete for one flag, and each has a context of its own
  that may end at any statement;
* `collect` and `archiveStale` decide from copies (a list of sources, a list of
  orders) that others change before they are used;
* what belongs together is several statements, a file and sockets: any of them
  may fail, or be the last one before a crash;
* time: intervals, back-off, staleness and the duration of a collection are
  measured by different clocks and against different thresholds;
* the user's PATCH reads an order and writes the whole of it back;
* one mutex is held while every browser is written to, and one list of profiles
  holds a connection while it asks for others;
* a browser learns of an event by the socket, by its first request, by both or by
  neither, and loses its connection meanwhile;
* an answer is put together from several statements, or several pages of a site,
  between which what they describe changes.

What makes each component correct is stated as properties in section 3; the
hazards that the properties are for are listed one by one in `PROJECT.json`,
those without a property with the reason.

## 2. The modules

| Module | What it is |
|---|---|
| `PollDuty` | what the scheduling owes the sites: one poll at a time, none within a period of the last recorded answer nor within the back-off of a recorded failure |
| `Collector` | `Run`, `RunOnce`, `collect`, `sourceDue`, the two statements of `FinishSourceRun`; user, shutdown, crash, restart. Implements `PollDuty` |
| `OrderBook` | what the table of orders, its archive and the announcements promise together: an order leaves because the user deletes it, or archived first and announced then |
| `SourceOrders` | the ads of one source and their rows: `collectSource`, `archiveStale`, `Append`, the user's PATCH and DELETE. Implements `OrderBook` |
| `Fetchers` | the five fetchers: pages read one after another while the site changes, cards, ids, rows that PostgreSQL refuses |
| `Dedup` | the same gig from several sources: `FindDuplicateByFingerprint`, `UpsertListing`, `UpdateOrderRadar`, the event `new`, the inbox |
| `StatusLog` | what `order_status_history` promises: a log of changes of one status |
| `OrderStatus` | one order under `/status`, PATCH, `/apply` and DELETE at once, with row locks and transactions. Its history implements `StatusLog` |
| `ProfileStore` | what the handlers of search profiles promise: a profile and its child rows change as one |
| `Requests` | the five operations on search profiles and the grid on the same rows, statement by statement, over the pool. Implements `ProfileStore` |
| `MainPhase` | the phase `main` is in and the budget of mishaps, shared by the next two |
| `Startup` | `main` from the database server to the exit, and `Migrate` |
| `Broadcast` | what the hub promises: one log, received in order from where a subscription joined |
| `EventFeed` | `emit`, the hub with its lock, the sockets with their reconnects, the feed of a page. Its frames implement `Broadcast` |
| `Service` | `Startup` and `EventFeed` composed: the feed runs while `main` serves and ends with it |
| `Reports` | POST of a run's report, its download, deletion through the grid, and the ten statements behind a summary |
| `CollectorProofs`, `OrdersProofs`, `FetchersProofs`, `DedupProofs`, `OrderStatusProofs`, `RequestsProofs`, `ServiceProofs`, `ReportsProofs` | TLAPS proofs, one module per component |
| `MCCollector`, `MCFetchers`, `MCDedup`, `MCRequests`, `MCReports` | symmetry, and restrictions of the initial state or of the interleaving that only TLC needs |

**The schema.** All modules assume the schema of migrations 001 to 009, the one that
the Go code queries. `migrations/010_v4_rebuild.sql` drops `search_runs`, `search_profiles`,
`reports`, `events` and others, and rebuilds the database in a form that no Go file
uses; after it most of the statements modelled here would fail. `Startup` runs any number of
migrations and says nothing of what is in them.

Which module relies on which. `SourceOrders` and `Dedup` have one collection under
way because `Collector` shows that there is never another (`OneCollector`), and take
from it that a source is polled again and again (`EverySourcePolled`).
`SourceOrders` has the whole life of a row and none of its text, `Dedup` its text and
marks and a shorter life, `OrderStatus` its two statuses and everybody who writes them.
`SourceOrders` takes a fetch for one look at the site; `Fetchers` has what really
happens between the first page and the last, and takes from `Collector` that there
is another poll. `EventFeed` has the emission as three steps of any goroutine; what
makes a goroutine emit is in `SourceOrders`, `Dedup` and `OrderStatus`.

### Collector

One process per caller of `collect`: `Loop` is the goroutine of `Run`, each member
of `Requests` one manual run. `pc` says where a caller is:

| `pc` | Code |
|---|---|
| `enter` | about to try `CompareAndSwap` |
| `list` | inside `ListSources` |
| `scan` | in the range loop, `todo` being the due sources not reached yet |
| `fetch` | `source_runs` row created, in `fetch(ctx)` and the handling of its listings |
| `finish`, `stamp` | first and second statement of `FinishSourceRun` |
| `leave` | at the deferred `running.Store(false)` |
| `select` | the select of `Run` |
| `none`, `end` | a goroutine not started, or returned |

Every action is one statement of the store, or one step on `running`. A statement
fails when the caller's context is done, or by a mishap of the database; when it
fails by a mishap its effect may be committed all the same (the answer was lost).
Rows of `source_runs` are counted: `open[s]` those that say `running`, `latest[s]`
the outcome finished last. Deleting a source takes its runs with it (`ON DELETE
CASCADE`), a run of a deleted source cannot be created (foreign key) or finished
(no row). `config.Load`, `Manager.lastRun` and the other columns of a run play no
part in the decisions and are left out.

Time is counted in periods of the ticker. Two moments with n ticks between them
are more than n-1 and less than n+1 periods apart, so `sourceDue` may say yes from
the threshold on (`MayBeDue`) and must after it (`MustBeDue`); in between the model
takes both. Ages saturate at `AgeCap`, which every configuration has at the
largest threshold plus one or above, unless only the smallest thresholds matter to its properties.

### SourceOrders

A source is collected by one collection at a time; that is `OneCollector`, checked
and proved of `Collector`, so this module has one collection, `pc` and the
variables of `run`. Each ad has at most one row (`UNIQUE (source, external_id)`);
`id[a]` is the row's id, a fresh one each time the ad is inserted, so "the same
order" means the same row. The two steps of `Append` (read and truncate; write)
are `OpenArchive` and `WriteArchive`: a write that is cut short, by an error or a
crash, leaves a file that does not parse, which the next `Append` takes for empty
(`Tear`). `EmitRemoved` is `emit`: the event's INSERT may fail, the broadcast goes out
all the same. `DeleteOrder` is one statement by id. The user's PATCH is two
statements with a copy between them. Every store call of the collection may fail,
with the context dead from then on (`ContextDone`, a manual run's normal fate) or
just once, and with or without its effect.

The statuses are `won`, which `StaleOrders` spares, and `new` for the rest.
Time is counted in ticks of which `2*JMW_POLL_INTERVAL` has `StaleAfter`.
Nothing in the code bounds the time from the answer of the site to `StaleOrders`,
and nothing does here: `elapsed` counts it up to `StaleAfter`. A collection that takes
that long removes orders it has stored itself, and `FreshKept` says that no shorter
one does. The archive is the file of one month. The rows that `emit`
inserts into `events` have no state here.

### Fetchers

One source at a time, any of the five. A card is known by what decides its fate:
its title (`torn` if `FetchTelegram` cuts it within a character), its link (the ad's
path with or without a slash at its end), its budget (whether the cents fit the INTEGER of
`budget_cents`) and, on Weblancer, which of the four selectors match it: the first that
gives a listing is the last that is tried (`Matched`). `Sources` is the fetcher of the source; `ReadPage` its request for one
page, or one of `JMW_TELEGRAM_CHANNELS`; any request that fails fails the whole fetch,
so that what is missing in a result is missing on the site. The exception is a body of
more than 5 MiB, of which `fetchURL` gives the beginning without an error (`ReadPageCut`):
any part of the page's ads may be missing, and `WholeResult` says nothing of such a page.
`StoreListing` is one round of the loop of `collectSource`, whose `continue` goes past a row
that PostgreSQL refuses.
Behind a link the site may put a tracking query and change it (`Track`). An id is a
pair of what the fetcher leaves of the path and of the query: Weblancer's has no query;
that of DOU and Djinni has it, and is nothing else if a slash comes before it
(`LastSegment`). Such an ad has a row for each query, and two ads may share one (run
`fetchers_twice`). Telegram and Freelancehunt have ids of their own.

### OrderStatus

One process per HTTP request. What a request is about is decided by its first
action; `pc` says which statement is next:

| `pc` | Code |
|---|---|
| `lock`, `change`, `commit` | `ChangeOrderStatus`: `SELECT ... FOR UPDATE`; the three writes; `Commit` |
| `write`, `announce` | `HandlePatchOrder`: `UpdateOrder` with the copy read before; `emitStatusChanged` |
| `apply`, `mark`, `seal`, `tell` | `ApplyToOrder`: insert of the application; update and event; `Commit`; then the handler's `GetOrder` and broadcast |
| `delete` | `DeleteOrder`, the user's or the collector's |

PostgreSQL is modelled as far as these statements can tell: READ COMMITTED, and
three of its row locks (`share` for a foreign key, `write` for an UPDATE, `exclusive`
for `FOR UPDATE` and DELETE), held to the end of the transaction by `lock`. What a
transaction wrote is not in the tables before its commit; until then its `pc` says
what it wrote, and nobody else can write the row. A commit that fails may have been
done all the same. The CHECK of `orders.status` is `Admitted`: the keys that users
may add to `order_statuses`, and some that migration 006 brings, are not in it. The
broadcast of a change of status by `/status` does not exist in the code.

### Dedup

One listing is in hand at a time; `found` is the id that
`FindDuplicateByFingerprint` gave, `Gone` if its row has been deleted since (the
foreign key then refuses `UpdateOrderRadar`). Of `first_seen_at` the order of the
rows is kept (`newer`) and which of them have passed the 14 days (`old`); of
`content_fingerprint` whether two texts are the same. `Shown` is the condition of
`FreshOrders`. `is_seen_by_user` and `is_dismissed` have the same effect there and
are one set. Scores, branches and orders that are won are left out: none of them is
read by the statements modelled. `Archive` takes a row whose ad is gone in one step, or,
as a mishap, one whose upserts failed until it was stale; how it gets there is `SourceOrders`.

### Requests

One process per HTTP request; `pc` is its next statement and `kind` what it is
(`list`, `get`, `create`, `patch`, `delete` of `api/search_profiles.go`; `rows`,
`insert`, `edit` of the grid). `Fetching` are statements before which it has no
connection, `Locking` those at which it has one and waits for a row, `Owning` those within
its transaction's hold of the row, `Listing` the children of a list, for which it needs a
second connection. A profile's content is the stamp of the commit that wrote it, so
that a mixture of two writes, or an answer older than its write, can be seen.
READ COMMITTED: `DeleteTags` removes the child rows that are committed at that moment,
and the inserts add the request's own. `Fail` is an error of any statement or a client
that has gone: the transaction is rolled back, the connection returned.

### Service

`Startup` follows `main`: the embedded server (which needs its port free) or an external
one, `Connect`, `Migrate`, serving, a signal, `Shutdown` with its 5 s, and the deferred
calls, which `os.Exit` skips: then PostgreSQL goes on and the next start fails until
somebody stops it (`StopOrphan`). A COMMIT that a dead process had sent may arrive later
(`ghost`), also while the next process is at the same migration.

`EventFeed` has the emitters (`pc`: `insert`, `notify`, `write`; who is at `write` holds
`h.mu`), the connections `<<p, k>>` (`accepted` by the handshake, then in `h.clients`), the
frames each was sent (`wire`) and how many its page has handled (`read`), and a page's
feed with its first `GET /api/events`. The step of `main` that ends the process
(`MainStep`) ends emitters, hub and connections; tables and pages stay. A broadcast
carries no id, so that a page cannot know it has an event already from the answer: an
event may be shown twice in this way and no property says otherwise.

### Reports

A writer is one POST, a reader one download, an asker one summary. `OpenFile` and
`WriteFile` are the two effects of `os.WriteFile`; between them another writer with the
same name may do either. The name of a file is its run and the local time to the second:
`second` may take any of its values again. `DropReports` is the grid's DELETE with
`ON DELETE CASCADE`; the file stays. The grid can insert and update rows of `reports` as
well (`grid.go:159`, `:186`) and so make a row without a file; that is not modelled, and
`RowHasItsFile` speaks of reports that the handler made.

`CountSection` is one of the statements of `ReportSummary`, `total` to `daily`, first for
the period, then for the one before it; orders arrive and leave between any two of them.
An order has `first_seen_at` from the start of the transaction that inserts it
(`OpenInsert`) and is there for others when that is committed (`CommitInsert`), so that one
older than the request may appear between two statements. `CountShort` is an error while
the rows of a section are read: `ReportSummary` never asks `rows.Err()` and the section is
short; other errors end the answer (`CountFails`). Period bounds are moments of the same
clock as `first_seen_at`.

## 3. What is checked

| Run | Shows |
|---|---|
| `collector` | `OneCollector`, `AbandonedRows`, `PollSpacing`, `ImplementsPollDuty`, `TypeOK` for the ticker and one manual run over two sources, the user editing and deleting them, and one store failure, shutdown or crash |
| `collector_live` | `EverySourcePolled` under fairness, one source |
| `orders` | `NothingLost`, `ArchivedOnce`, `FreshKept`, `TypeOK`, and `WithdrawnLeaves` under fairness, for two ads, a PATCH under way, the user's DELETE and one mishap anywhere |
| `orders_won` | **violated** `WonKept`: an order set to won after `StaleOrders` read it is deleted |
| `status` | `HistoryChain`, `ImplementsStatusLog`, `TellsCommitted`, `TypeOK`, and `RequestsEnd` under fairness, for three requests of any kind on one order and one failed call, unanswered commit or crash |
| `status_sync` | **violated** `StatusSynced`: after a PATCH `/status` reports success and leaves the two statuses apart |
| `dedup` | `AnnouncedUnique`, `TypeOK`, and `Converges` under fairness, for three ads that may say the same, two changes around them and one mishap |
| `service` | `SchemaIsPrefix`, `Stream`, `HandledInOrder`, `HandledIsShown`, `ImplementsBroadcast`, `TypeOK`, and `ServesAgain`, `CatchesUp` under fairness, for two migrations, two emitters and a page that connects twice, with two mishaps of any kind (crash, signal, failed call, lost connection) |
| `requests` | `ImplementsProfileStore`, `AnswersForward`, `Unstuck`, `TypeOK`, and `RequestsEnd` under fairness, for three requests of any kind over two connections and one failure |
| `fetchers` | `WholeResult`, `TypeOK`, and `Arrives` under fairness, for any of the five sources with two ads, Telegram over two channels, two changes of the site and one request that fails or body that is cut |
| `fetchers_twice` | **violated** `OneRow`: a vacancy of DOU or Djinni has a second row once its link has another query |
| `reports` | `RowHasItsFile`, `DownloadIsTheReport`, `SummaryAddsUp`, `TypeOK` for two reports of two runs and a download with deletions and one failure or crash; and for a summary of two orders |

The violated properties state what the README or a comment says; the findings in
`PROJECT.json` quote the lines. Each property that holds has a variant of one
definition (`...NoDefer`, `...IfStale` and so on, next to the definition it varies) that
a plausible slip in the code would amount to and that breaks it.

Those who add to the properties should know what they leave out on purpose, because the
code does it: `NothingLost` the entries of a torn archive file, `ArchivedOnce` and
`AnnouncedUnique` what follows a mishap, `HandledIsShown` what the first answer replaces, all
of the feed's properties the events of the time without a connection, the two properties of
report files the reports of one run and second, `WholeResult` pages that were cut, `Arrives`
ads that PostgreSQL refuses, `Unstuck` and `RequestsEnd` of `Requests` lists that hold the
whole pool. `ServesAgain` takes it that somebody stops a PostgreSQL left behind.

Some things the models have that a reader of the code may not expect, and that no run is about:

* `HandleScraperRun` gives `RunOnce` the context of its request, which `net/http` cancels
  when the handler returns (`internal/api/misc.go:94`): the collection's later
  statements fail and its row of `source_runs` stays `running`. `AbandonedRows` says that
  only this, a crash, a shutdown or a failed statement leaves such a row.
* Staleness is measured against `2*JMW_POLL_INTERVAL`, whatever the source's own interval
  (`scraper.go:215`): for a source polled less often one answer without an ad removes its order.
* A collection that takes `2*JMW_POLL_INTERVAL` from the answer to `StaleOrders` archives
  and deletes orders it has just stored, where the repository's `README.md:34` speaks of
  orders that two fetches did not find.
* An answer that the fetcher does not understand is an empty list, and `archiveStale` runs
  after it as after any other (`scraper.go:210`).
* `FindDuplicateByFingerprint` may find the row itself (`radar_ingest.go:22`): at its second poll
  the later of two rows loses its mark and the earlier gets one, so that a gig the user has
  seen can be in the inbox again. `Converges` is what remains true.
* The back-off is capped at 30 minutes (`scraper.go:120`), which for a source with a longer
  interval is less than the interval.
* Ten lists of profiles at once can hold the whole pool, each waiting for an eleventh
  connection (`search_profiles.go:26`). `Unstuck` and `RequestsEnd` say that nothing else blocks.

Bounds, and why they are enough.

* Collections exclude each other, so a second source and a second caller give every
  kind of interference there is: a poll while another source waits in `todo`, a
  loser of the flag, a snapshot that grew old.
* `MaxMishaps` = 1 puts one failure at every possible place; the proofs of section 4
  have no bound on it.
* In `orders` two ads give a second order in the same archive loop, `MaxRows` = 2
  lets one of them come back as a new row while the other has none (with 3 and without
  the liveness property the run holds too, on six million states up to symmetry),
  `StaleAfter` = 1 separates a collection shorter than that from one as long;
  `orders_won` has one ad and `StaleAfter` = 2, where seen in this collection, seen
  lately and gone differ. When the ids are used up
  `StoreListing` fails, as a sequence at its end does.
* In `status` three requests are one more than any conflict of locks needs, so that a
  third may come between two that wait for each other; the keys are one that both
  statuses have by default, one that an application writes and one that the CHECK
  refuses.
* In `service` two emitters compete for the hub's lock, the second connection of the page
  finds the first still in the hub, and two mishaps put a crash after a lost connection or a
  second crash into the recovery from the first. `Limit` = 2 lets two events fill
  a feed. A second page would only repeat the first: pages share nothing but the
  holder's `todo`, and the proofs have any number.
* In `requests` two connections and three requests are the least with which a request
  waits for a connection while another with one waits for a row; ten connections differ
  only in how many lists it takes to hold them.
  `MCRequests` names the requests in the order of their kinds, as any three can be named:
  `Requests` does not tell them apart.
* In `fetchers` two channels are what reading one after another needs, two ads what a
  refused row and its neighbour need; one of them has any card, the other one that gives a
  listing, with any link (`MCFetchers`). One query, there or not, is all that an id tells apart.
* In `reports` two writers may share a run and a second; `Span` = 1 and two moments give
  every position of an order to the bounds of both periods. `MCReports` takes the file
  part and the summary part separately, because they share nothing but crashes.
* In `dedup` three ads make the shortest chain of duplicates that is not a cycle;
  `MaxChanges` = 2 lets a text change and its row be deleted or age. `MCDedup`
  starts with all ads listing one text, from where any other start is reached by changes of
  the sites.

Fairness.

* `Collector`: goroutines are scheduled and statements and fetches return (the HTTP
  clients have a timeout of 20 s), handlers return, time passes and `Run` takes a
  tick that is there. Nothing is assumed of the user, of failures, of restarts, or of
  ticks that a manual run would have to leave to `Run`.
* `SourceOrders`: the source is polled again and again, which is `EverySourcePolled`
  of `Collector`, time passes, and the site answers again and again (strong fairness
  of `FetchListings`: no source is gone if its site never answers).
* `OrderStatus`: a request that can go on does, and a lock that nobody holds is
  granted. Requests are finitely many, so that nobody is overtaken for ever.
* `Dedup`: the collector goes on with the listing it has in hand, and takes every ad
  again and again (strong fairness, since each ad waits for the others). This needs
  that every source is polled. `Converges` says nothing of a source that is switched
  off or keeps failing: two rows may then be duplicates of each other, both out of
  the inbox, until one of them is 14 days old or gone.

* `Service`: a user restarts a process that is off, and stops the PostgreSQL that a dead
  one left behind; calls return. In the feed: a write ends within its 5 s, `sync.Mutex` is
  fair to who waits (its starvation mode), the browser runs its handlers and
  `useLive` reconnects. Strong fairness where a goroutine waits for the lock.
* `Requests`: whoever can go on goes on, in whatever order the pool and the row locks
  grant it. A request has finitely many statements, so that one weak fairness over
  all of them is enough.
* `Fetchers`: the source is polled again and again, as above.

`CHECK_DEADLOCK FALSE` is in every configuration: the process may be stopped for
good, requests end, and bounded changes and mishaps are used up.

## 4. What is proved

The eight proof modules hold for every value of the constants that the named
assumptions `ConstantsAssumption`, `OrdersAssumption`, `FetchersAssumption`,
`DedupAssumption`, `StatusAssumption`, `PoolAssumption`, `MishapAssumption`,
`CountAssumption`, `FeedAssumption` and `ReportsAssumption` admit: any number of sources,
requests, pages, migrations, connections and mishaps.

| Theorem | Property |
|---|---|
| `CollectorProofs!TypeCorrect` | `TypeOK` |
| `CollectorProofs!MutualExclusion` | `OneCollector` |
| `CollectorProofs!PollsRest` | `PollSpacing` |
| `CollectorProofs!StampsBacked` | `StampFollowsRow` |
| `CollectorProofs!DutyImplemented` | `ImplementsPollDuty` |
| `CollectorProofs!RowsAccounted` | `AbandonedRows` |
| `CollectorProofs!CollectionsEnd` | `CollectionEnds`, for finitely many sources |
| `OrdersProofs!TypeCorrect` | `TypeOK` |
| `OrdersProofs!OrdersKept` | `NothingLost` |
| `OrdersProofs!CalmArchive` | `ArchivedOnce` |
| `OrdersProofs!RemovalInOrder` | `RemovedInOrder` |
| `OrdersProofs!FreshIsKept` | `FreshKept` |
| `OrdersProofs!BookImplemented` | `ImplementsOrderBook` |
| `OrdersProofs!WonIsKept` | `WonKept`, of behaviours that are `Undisturbed` |
| `OrderStatusProofs!TypeCorrect` | `TypeOK` |
| `OrderStatusProofs!HistoryIsChain` | `HistoryChain` |
| `OrderStatusProofs!ToldIsCommitted` | `TellsCommitted` |
| `OrderStatusProofs!LogImplemented` | `ImplementsStatusLog` |
| `OrderStatusProofs!NoCircle` | `WaitsEnd` |
| `DedupProofs!TypeCorrect` | `TypeOK` |
| `DedupProofs!AnnouncedIsUnique` | `AnnouncedUnique` |
| `DedupProofs!MarksAreTrue` | `MarkedAlike` |
| `FetchersProofs!TypeCorrect` | `TypeOK` |
| `FetchersProofs!FetchIsWhole` | `WholeResult` |
| `RequestsProofs!TypeCorrect` | `TypeOK` |
| `RequestsProofs!AnswersGoForward` | `AnswersForward` |
| `RequestsProofs!PoolUnstuck` | `Unstuck` |
| `RequestsProofs!ProfilesWhole` | `ImplementsProfileStore` |
| `ServiceProofs!TypeCorrect` | `TypeOK` |
| `ServiceProofs!SchemaKept` | `SchemaIsPrefix` |
| `ServiceProofs!StreamKept` | `Stream` |
| `ServiceProofs!HandledOnce` | `OnceBySocket` |
| `ServiceProofs!InOrderOfSending` | `HandledInOrder` |
| `ServiceProofs!HandledShown` | `HandledIsShown` |
| `ServiceProofs!BroadcastImplemented` | `ImplementsBroadcast` |
| `ServiceProofs!SchemaAtRest` | `SchemaRests` |
| `ServiceProofs!PartsImplemented` | `BootSpec`, `FeedSpec` |
| `ReportsProofs!TypeCorrect` | `TypeOK` |
| `ReportsProofs!ReportsHaveFiles` | `RowHasItsFile` |
| `ReportsProofs!DownloadsAreReports` | `DownloadIsTheReport` |
| `ReportsProofs!SummariesAddUp` | `SummaryAddsUp` |

`Collector`. `OneCollector` is inductive only together with where each caller can be
and what it holds there: a caller that polls has `cur` set, one that does not has
none, and `todo` of callers outside `collect` is empty. `PollsRest` needs in addition
that whatever is in a caller's `todo` has rested: it had when `ListSources` put it
there, ages do not shrink, and by mutual exclusion nobody else can stamp it
meanwhile. `StampsBacked` needs that between the two statements of
`FinishSourceRun` the outcome held equals `latest` of the source, unless the source
was deleted. For `DutyImplemented` mutual exclusion makes `Active`, a choice among
the callers with a source in hand, a choice of one: taking a source is then `Begin`,
putting it down `Record` or `Drop`, and everything else a stutter.
For `AbandonedRows` the count in the property is not the one that is inductive: a row's
fate is sealed earlier, when the context of the caller who holds it ends, though nobody
has left it yet. `Doomed` has the rows with that fate; `AccountOK` bounds them by
the causes spent, a cause being a mishap, a shutdown or the end of a request, and each
step that dooms a row spends one that dooms no other (by mutual exclusion one caller
holds one row). Only finitely many requests have started at any time, which is part of the
induction and no assumption. `CollectionsEnd` is the half of `EverySourcePolled` that needs no
fairness: what a collection has left (`Left`) shrinks with each step of its own and grows with
nobody's.

`SourceOrders`. `NothingLost` is inductive only with: the row in hand at `emit` and
`delete` is in the archive or a write was torn; and `RemovedInOrder` with: it has been
announced at `delete`. `FreshKept` rests on an invariant about time: while a
collection stores listings, the age of every row in `fresh` is at most `elapsed` until
that reaches `StaleAfter`, so that before `StaleOrders` returns none of them, and later
`stale` and `cur` stay disjoint from `fresh` because ids are never reused. `ArchivedOnce` needs the same kind of facts under "no mishap so
far". For `BookImplemented` the rows in `stale` and `cur` must each still be in the table or
have been discarded by the user (`StaleOK`): then a write to the archive is `Keep` of an
order that was there, the DELETE is `Remove`, or a stutter where the user was first.
`WonIsKept` complements the run `orders_won`: as long as nobody's PATCH is written between
`StaleOrders` and the end of the collection, no row about to be archived is won (`WonOK`), because
rows inserted or refreshed meanwhile do not enter `stale`; the window of that finding is its
only cause.

`OrderStatus`. A request's `pc` fixes the lock it holds, an `exclusive` lock is alone,
and the row is there while anybody holds one (`LocksOK`). From that, what a request
read under `FOR UPDATE` is still the status when it commits (`RequestsOK`), which is
what `HistoryChain` and the step of `StatusLog` need. `TellsCommitted` is inductive as
`told + the requests about to tell <= applications`, a cardinality (`TellsOK`): a
request is about to tell only after its COMMIT, answered or not. `NoCircle`
comes from `LocksOK` alone: only an application both holds a lock and asks for one, when
it goes from the share lock of its foreign key to a write, and whom it waits for has
all its locks. So a chain of waiting requests has two links at most (a DELETE, an application,
one about to commit), and PostgreSQL's deadlock detector never has anything to do here.

`Dedup`. `AnnouncedUnique` needs that a search that found nothing keeps meaning what
it meant until the event: rows with the text can only go, not come, while one
listing is in hand (`SearchOK`), and that the row in hand is there when the search
found the row itself (`HandOK`). `MarksAreTrue` needs that the row found says what the listing
says as long as it is there (`FoundOK`), since one collection writes all texts.

`Fetchers`. `SourcesGive` says once and for all what each of the five fetchers makes of a
set of cards. `WholeResult` needs that the pages read so far, but for those that were cut,
have given every ad on them that stayed up (`ReadOK`), and that a listing in hand is refused
only if the ad's card says so (`OutOK`).

`Requests`. That a profile is one write (`ChildOK`) is inductive only with: one request
owns a row and it is there (`OwnerOK`), and what its two DELETEs found is all there is until it
commits (`ClearedOK`), although they ran under READ COMMITTED. `AnswersForward` needs that
what a request has still to read is no older than what it has read (`NewerOK`).
`Unstuck` is a count: if nobody is `Owning` then every row is free, so who waits for a
row can go on; and if nobody waits for one, all connections in use are those of
lists, fewer than the pool has.

`Service`. `SchemaIsPrefix` needs that a migration recorded in an open transaction or in
the COMMIT of a dead process is the next one, and that there are not two such
(`MigrateOK`): the primary key of `schema_migrations` makes the second insert wait or
fail. In the feed `todo` has members only under the lock (`LockOK`), and a connection
not yet accepted has nothing (`FreshOK`); with `Stream` they give the step of
`Broadcast`. `OnceBySocket` follows from every broadcast being a different one (`OnceOK`) and
from the connections of a page covering separate parts of the log (`WindowsOK`), and
`HandledInOrder` from those parts following each other. `SchemaRests` holds because a
COMMIT still in flight would be of a migration beyond those there, and a process serves only
when all are there. `PartsImplemented` maps each step of the composition to a step or a stutter of
`Startup` and of `EventFeed`, so that theorems of the parts are theorems of the whole.

`Reports`. A report is relied on (`Sure`) while its row is there, about to be inserted, or
read by a download; `FileOK` says that its file is there and its own unless shared, which
needs that names and places of writers do not go back (`WriterOK`). For summaries, a part
has nothing from outside its period (`InsideOK`), and an order that a part missed is gone or
was not in the table when the summary was asked for, unless the part was cut short
(`MissedOK`); that relates each part to the orders, and two parts to each other.

These strengthenings are `IInv` of each proof module (`Inv` of `ServiceProofs`), and each
theorem is the usual three steps (Init, every action, PTL). `StampFollowsRow`,
`RemovedInOrder`, `CollectionEnds`, `ImplementsOrderBook`, `WonKept` under
`Undisturbed`, `WaitsEnd`, `MarkedAlike`, `OnceBySocket`, `SchemaRests` and the two parts of
`Service` are proved and have no run of their own.

Only model-checked: everything under fairness (`EverySourcePolled`, `WithdrawnLeaves`,
`RequestsEnd` of `OrderStatus` and of `Requests`, `Converges`, `ServesAgain`, `CatchesUp`,
`Arrives`), which is out of the prover's reach. Every other property of a run that passes is
a theorem.

## 5. Not modelled, and what is left

Not modelled, and why.

* The text and layout of reports (`internal/reportgen/pdf.go`, the queries of
  `reports_pdf.go` that only fill its tables), statistics and dashboard: read-only, and
  nothing depends on what they say but the page that shows it.
* Scores and branches (`scoring.go`): arithmetic on one listing, without state.
* The titles, texts and tags of the fetchers, and what their selectors match: what a
  site's HTML looks like is not in the repository.
* What each migration does to the tables. A model of 010 together with the statements of
  the Go code would show only that they do not fit, which section 2 says.
* Branches, radar endpoints, schema map: single statements on one table, coordinates for
  display. Configuration is read once.
* The pages of the frontend but the event feed: rendering. What they send is the user's
  actions in the modules; answers that come late are the first item below.
* Inserts into and updates of `reports` through the grid, rows of `events`: no module
  relies on them.
* Two backend processes on one database: nothing in the code expects a second one.

Left, in this order.

1. The pages that send several requests (`orders/page.jsx`, `FreshInbox.jsx`): an answer
   that comes late and is shown for another order.
2. A composition of `Fetchers` and `SourceOrders`, so that a row is archived on the
   strength of pages read at different moments.
3. Free edits of `orders` and `order_statuses` through the grid, under `OrderStatus`.
