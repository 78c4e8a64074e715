# Specifications of the RSS reader

TLA+ models of the feed service (`src/backend`) and of its web client's dialog,
feed list and reading marks (`src/frontend`), the TLC instances that check them and
the TLAPS proofs about them. Read `FeedInteractor.tla`, `FeedJob.tla`
and `FeedService.tla` next to `internal/usecase`; paths below are relative to
`src/backend/internal` unless they begin with `frontend` or `cmd`.

## The system

The service keeps feeds, their articles and, for each feed, the state of its
last fetch in three PostgreSQL tables. HTTP requests subscribe to a feed by its
URL, discover the feed of a website and subscribe to it, refresh a feed, delete
it, and list feeds and articles page by page. A background job refreshes the
feeds whose next fetch is due. A web client reads through the API.

| Component | State | Operations | Hard behaviour | What makes it correct |
|---|---|---|---|---|
| `usecase/feed_interactor.go` | locals of one goroutine per request | RegisterFeed, DiscoverAndRegisterFeed, RefreshFeed, DeleteFeed | check, slow fetch and insert are separate steps; a refresh races a deletion | no duplicate subscription; each operation takes effect at one instant or not at all, and its answer says which |
| `usecase/feedjob_interactor.go` | the batch of due feeds, locals of up to N goroutines, the job's context | RefreshDueFeeds, refreshOne | works on a snapshot; one context for the whole batch | a stale snapshot does no harm; next_fetch_at advances; a batch ends; every due feed has its turn |
| `infra/persistence/postgres` | the tables, open transactions | one statement per repository method, WithTransaction | row and unique-key locks, cascades, ambiguous commits | feed and fetch status come and go together; nothing half written |
| `infra/gateway/rss_gateway.go` | none | FetchFeedWithCursor, FetchNewFeed | 304, publishers that change or misbehave | a validator is the one served with the stored items |
| `infra/gateway/discovery_gateway.go` | none | DiscoverFeedURLs | arbitrary HTML | best candidate first |
| `usecase/paginate.go`, `handler/cursor.go`, list queries | none on the server; the token at the client | ListFeeds, ListArticles, ListArticlesByFeedID | rows come and go under a walk; ties; boundary of a page; timestamps that do not encode | a walk misses nothing, repeats nothing, ends |
| `handler`, `infra/middleware`, `apperror` | none | parse, call, answer | recovered panics, 15 s context | the answer fits the outcome |
| `job/scheduler.go`, `cmd/main.go` | ticker, wait group, contexts, deferred calls | Start, Shutdown, serve, Close | shutdown order, a job that outlives its context | the pool is closed after the job, the process exits |
| `infra/persistence/postgres/db_init.go` | the pool of twenty connections | NewDB with its pings | a database that is not up; waits for a connection by those who hold locks | the process gives up; whoever waits is served |
| `frontend/src/lib/reader-store.tsx` | read and starred ids in localStorage | markRead, markAllRead, toggleStar | several tabs | no mark lost |
| `frontend/src/components/reader/add-feed-dialog.tsx` | the dialog's texts and candidates | open, submit, subscribe to a candidate, close | answers that are lost or arrive late | the text shown is true and about what was submitted |
| `frontend/src/lib/hooks.ts`, `lib/api` | the cached feed list and articles | mutations, invalidation, delete | an invalidation meets a fetch under way; answers of a proxy | the list shows what the client was told |
| `frontend/src/components/reader` (timeline, sidebar, app) | the selected view | filter, load more, refresh | empty filtered pages | every article can be reached |

The interactors call the repositories and the gateways; requests and the job
share nothing but the database (and the HTTP client). The job runs in the
process of the server: one execution at a time, its context ended by a timeout of
five minutes or by shutdown. Publishers are independent of all of it.

`PROJECT.json` lists every component with its status and every hazard with the
property that would catch it.

## Modules

| Module | Models | Extends |
|---|---|---|
| `Store` | the tables, open transactions, the statements of the repositories | |
| `Gateway` | the publishers and what the gateways make of their replies; the properties of the tables | `Store` |
| `FeedInteractor` | the write operations of a request, one action per call | `Gateway` |
| `FeedJob` | one batch of the refresh job | `Gateway` |
| `FeedService` | both together, with clock, publishers and crashes; the inductive invariant | `FeedInteractor`, `FeedJob` |
| `Catalog` | abstract specification: each write operation is atomic | |
| `DueQueue` | which feeds each batch takes, over any number of batches | |
| `Pagination` | a client's walk over the pages of a list | |
| `Scheduler` | the process from start to exit: database, server, job, shutdown, pool | |
| `Discovery` | the scan of a website's page for feeds | |
| `ReaderStore` | read and starred marks in the tabs of a browser | |
| `WebClient` | the add-feed dialog, deletions and the feed list over a network, against the service `Catalog` promises | |
| `FeedServiceProofs`, `CatalogProofs` | theorems about `FeedService` | `FeedService`, `TLAPS` |
| `DueQueueProofs`, `DiscoveryProofs`, `PaginationProofs`, `SchedulerProofs`, `ReaderStoreProofs`, `WebClientProofs` | theorems about the module they are named after | it, `TLAPS` |
| `MCDocs`, `MCFeedInteractor`, `MCFeedService`, `MCDiscovery`, `MCClient`, `MCPages` | documents, symmetry, links, websites and page sizes of the TLC instances | |

### Store

`feeds`, `articles` and `status` are the committed rows. A feed row is its two
unique keys; an article is its unique key (feed, external id); a fetch status is
`due` (next_fetch_at <= now) and the stored validator. Titles, contents and
failure_count decide nothing and are left out.

`tx[p]` holds what process `p` has written in an open transaction. All
transactions of the code write rows of one feed, so it carries one feed id.
PostgreSQL (READ COMMITTED) is modelled as follows.

* A transaction that has written a feed row holds the row, and each of the two unique
  keys of every version of it: the new one and the committed one it replaces
  or deletes (`Versions`). A statement that needs one of them waits for the end of that transaction
  (`FeedBusy`, `SiteBusy`, `StatusBusy`), then sees the committed row; so a statement
  that waits is one that is not enabled, and a violation is decided by committed rows only.
* An INSERT or UPDATE of a feed comes to its locks one after the other: the row, the index
  of feed_url, the index of website_url. While it waits in the last it holds the
  first two already. It is therefore two operators, `SaveFeed` or `UpdateFeed` and then
  `IndexSite`, with a row that has no website yet in between (`HalfRow`). A wait before the
  first of the two holds nothing another statement wants: a new row's id is nobody else's, and the URL
  of a row that exists is never changed. Likewise a deletion locks the row (`LockFeed`) and
  then cascades (`DeleteFeed`).
* A circle of waits is ended by the database, which fails one of its statements with
  SQLSTATE 40P01 (`DeadlockVictim` of `FeedInteractor`).
* An insert of an article or a status needs its feed (`FeedVisible`). RefreshFeed
  and RegisterFeed hold a lock on the feed row from their first statement, so the
  feed cannot vanish under them. The job does not write the feed row: its upsert
  of the status takes the conflict path and locks the status row, for which the
  cascade of a deletion must wait (`DeleteFeed`), although it holds the feed row by then.
* Article inserts of two transactions for one feed would wait for each other on
  `(feed_id, external_id)`; the refreshes of one feed are already ordered by
  the lock on its row, and the job never holds an article (see the findings), so
  articles need no lock here.
* An error leaves `WithTransaction` through the deferred rollback. `Commit` is
  one step; its reply may be lost (`ReplyLost`).

### Gateway

A document stands for a reply with status 200. Of its items only the set of
external ids matters (`resolveExternalID` may give two items one id: ON CONFLICT
DO NOTHING stores the first, which is why a set will do). A validator names the
document it was served with; a document without one yields the empty cursor.
`FetchFeedWithCursor` always makes a fresh feed id, which is why the actions that
fetch take a fresh id `n`. Ids of deleted feeds that no one refers to may be used
again: which fresh id is taken is not told apart.

`Faults` selects what may go wrong: `upstream` (unreachable, error status,
malformed document), `timeout` (a context ends, which also stands for any
statement the database refuses, such as a value that does not fit its column),
`crash`, and `unsolicited304` (304 to a request without validators, after which
`FetchNewFeed` returns a nil feed with a nil error).

### FeedInteractor

`req[p]` holds the locals of one request's goroutine; `pc` is the call it is
about to make. A request that answered becomes idle and is used again for the
next one. Mapping of the steps of `usecase/feed_interactor.go`:

| pc | action | call |
|---|---|---|
| check | `CheckURL` | CheckFeedExistsByURL |
| lookup | `LookupWebsite` | GetFeedByWebsiteURL on the URL and its slash twin |
| discover | `DiscoverFeedURLs` | DiscoverFeedURLs; the first candidate goes on at check |
| load | `GetFeedByID` | GetFeedByID |
| fetch | `FetchNewFeed`, `FetchFails`, `FetchPanics` | FetchNewFeed |
| save | `WriteFeed`, `UpdateNothing`, `WriteFeedConflicts` | SaveFeed or UpdateFeed in the transaction, up to the index of feed_url; an UPDATE that finds no row |
| site | `WriteSite`, `WriteFeedConflicts`, `DeadlockVictim` | the same statement at the index of website_url |
| articles | `WriteArticle`, `WriteStatus`, `FeedVanished` | SaveArticle per article, then SaveFetchStatus |
| commit | `CommitFeed`, `ReplyLost` | tx.Commit |
| delete | `RemoveNothing`, `LockRow` | DeleteFeed, up to the lock of the row |
| cascade | `RemoveFeed`, `ReplyLost` | its ON DELETE CASCADE and its commit |

`StatementFails` covers the failure of any database call. The order in which the
articles are written is left open; the code writes them in the document's order.

### FeedJob

`GetDueFeeds` reads the batch once; `TakeFeed` starts a goroutine with its
snapshot; the outcomes of `refreshOne` are `RecordOutcome` (after a failure and
after 304) and the transaction `WriteDueArticle`, `WriteDueStatus`, `CommitDue`.
`WorkerFails` is a statement that fails, of the transaction or the single one that saves the status
of a failed fetch or of a 304, with a context that lives or has ended: the goroutine returns
with nothing written.
A feed is the snapshot's: the job's articles carry `owner`, the id the gateway
generated, since `refreshOne` does not overwrite it. `jobCtx = "dead"` models the
ended context: nothing succeeds any more and each goroutine returns; whether a running
COMMIT still does is open. GetDueFeeds
with no due feed returns at once and changes nothing, so it is not a step.

### Catalog

What a client may rely on: between its call and its answer an operation takes
effect at one instant; `created` and `ok` say that it did, every other answer but
`internal` that it did not; `internal` leaves it open. The effect is one on what the operation was called
on, a feed URL, a website or a feed id, which `call` keeps until the answer. The job may reschedule a
feed and add articles, with a validator whose items are all in the archive.
`FeedInteractor!CatalogSpec` states that the requests, with or without the job,
implement it.

### DueQueue

`FeedJob` keeps of next_fetch_at only whether it has passed; here it is a time and an
order. `wait[f]` is the time until next_fetch_at, `earlier` the order of those that
have passed, both relative, so that the clock needs no bound. `GetDueFeeds` takes the first
`refreshDueLimit` of the due rows; feeds that became due together may come in any
order, as in ORDER BY next_fetch_at. A goroutine schedules from the time it began
(`left`), not from the time it records. A batch is reduced to whether a goroutine
records its outcome: `Stuck` are the feeds whose refresh never is, such as those of
finding 1. The interval of the job is longer than the job's timeout, hence the
guard of `Elapse`.

### Pagination

A row is its sort key. `Open` starts a walk with a page size, `NextPage` asks for
the page after the token it holds: keyset filter, LIMIT n + 1, trim, token of the
last row kept. `stable` and `seen` are history variables: the rows present
throughout the walk, and the rows delivered. `Insert` and `Delete` change the
list at any time. `ListFeeds`, `ListArticles` and `ListArticlesByFeedID` share
this code and differ in the table they read. The handlers replace a limit of 0, which is also
one that was left out, by `defaultLimit` before it is checked (`pageSize`). Timestamps are small
integers with two marks: `ZeroTime`, which `decodeCursor` refuses (`RefuseToken`), and
`LastYear9999`, after which a row cannot be marshalled: the response of a page that has one fails as a
whole (`FailPage`), whether or not its token would be made of that row.

### Scheduler

`main` is where `cmd/main.go` is: `connect` are the pings of NewDB, `listen` and
`serve` are inside `sc.Start`, `drain` is echo's graceful shutdown, and the deferred
calls follow last to first (`Shutdown`, `AppCancel`, `ClosePool`). Signals are
caught between `connect` and `close` only; outside, they kill (`Killed`). `job` is the
goroutine of `job/scheduler.go`: `check` (executeJob looks at the context), `run`
(inside Func), `select` (the loop of runJob). The ticker's channel has one slot; it is
`None` until NewTicker, which comes after the first execution.

The batch and the requests are reduced to the pool and one contended row. A statement
or transaction begins (`Ask`), waits for a connection until it gets one or is refused
(`Acquire`, `Refused`), may want the row (`WantRow`), waits for it while
holding its connection (`LockRow`, `Cancelled`), and gives both back at its end
(`Release`). A transaction runs all its statements on one connection
(`TxFromContext`), which is why no holder of the row ever asks for a second one; the
mutant `ReleaseSecond` is a repository that forgets this. One row stands for all
locks because every transaction writes rows of one feed. The server counts as draining
from the moment it no longer accepts. `StartConfig` of echo and the Close of pgxpool,
which refuses new acquisitions and waits for the connections that are out, are external.

When serving fails, nothing ends the signal context before `appCancel`, which is
deferred behind the call of Shutdown. A job that is not stuck in a panic then cannot
stop, and Shutdown uses up its twenty seconds: the model allows no other outcome there.

### Discovery

One action per step of `DiscoverFeedURLs`: `Do`, `CheckHeaders`, `ScanToken` for
each token the tokenizer yields, `ScanEnds`, `ClassifyCandidates`. A token is a
link element with the parts the code decides on, the end of the head, the start of
the body, or anything else; the limit of one megabyte is counted in tokens. An
href stands for the cases of its resolution: empty, unparsable, relative, absolute
with a scheme. A reply stands for what `NewRequestWithContext` and `Do` make of the website's URL:
none can be made of it, none comes, or one with a status. An href is resolved against the URL after redirects; a `<base>` element is
not looked at by the code and is "anything else" here. The properties
compare the scan with definitions over the whole page: `HeadFeeds(n)` are the links the
first `n` tokens advertise within the head, and `Lists(seq, S)` says that a sequence
has the members of `S` in the order of the page.

### ReaderStore

A tab mounts (state with nothing read, `lastVisitedAt` = now), then the effect
of `ReaderStoreProvider` loads both sets and the last visit and stamps this one
(`Hydrate`); afterwards `markRead`, `markAllRead` and `toggleStar` change the tab's copy
and save the whole set. `storage` says what localStorage does: it works, refuses writes
(`full`), or throws on reads too (`blocked`); `saveIds` and `loadIds` swallow the
exception, the read of the last visit does not. `opened`, `alone`, `settled` and `visits` are
history variables: what the user marked as read, whether there was never more than one
tab at a time, what a tab showed as read when it saved a mark while no other was loaded, and when
visits began.

### WebClient

One tab and its server. `subs` are the registered feeds; the server side (`Serve`)
is what `Catalog` promises a client, an effect at one instant or none and an
answer that fits. The existence check is the one of `Catalog`: a feed that clashes is
refused.

`call[n]` is a mutation: `sent`, then `served` when the answer is on its way, then its
callbacks run (`Settle`). A connection that breaks or a proxy that answers
(`Break`) ends the call at the client, while its request may still arrive (`stray`).
`Mutate` keeps what react-query does with the callbacks given to `mutate`: they run for
the hook's latest call only (`current`), whereas the invalidation given to the hook runs
for every call. `submit` only offers texts that matter: a feed URL to register,
a website to discover feeds of, and one text validation refuses. `list` is the query
behind `useFeeds`: its fetch is `sent`, has been `read` at the server, and arrives;
an invalidation cancels it and starts another unless it is the first one, which
react-query does not cancel. It reads one page (`FirstPage`): the `FEEDS_LIMIT` newest feeds by
registered_at, which `NewFeed` sets before the transaction begins, so that `StampOf` may order
the feeds otherwise than their commits do. A failed fetch is tried again or not (`ListFails`).
`MessageOf` and `Accepted` are `toApiError`, `handleError` and the schemas as far as the
text shown depends on them.

History variables: `late` (submitted before the dialog was last opened), `had` and `did`
(what was registered at the click, and whether the call took effect), `asked`
(something has been submitted since the dialog was opened), `news` (what accepted answers
told the client of each id since it had a list).

## Runs

| Run | Instance | Shows |
|---|---|---|
| `requests` | 2 requests, 2 URLs, 2 sites, 4 ids, all request faults | type, uniqueness, scheduling, validators, refinement of `Catalog`; lock waits close a circle only where refreshes swap websites |
| `job` | 1 request, 1 worker, 3 documents, every fault and crashes | the same for the job, what the job may do to the tables, the invariant used in the proofs, who is waited for goes on to its commit |
| `answered` | 1 request, 1 worker, fair | a batch ends and a request is answered: neither waits for the other for ever |
| `due_queue` | 3 feeds of which 1 stuck, 2 workers, limit 2, intervals 2 and 3, fair | each feed with one goroutine, nobody overtaken, every due feed refreshed |
| `pages` | 4 rows, 4 timestamps, limits -1, 0 (meaning 2), 1 and 3 with a ceiling of 2, fair | walks are complete, without repetition, they end, and null means last |
| `lifecycle` | 2 requests, 1 worker, 2 connections, 2 pings, fair | the pool outlives the job, a job that does not run holds none of it, the process exits after a signal or a failure, a tick is served, who waits is served |
| `discovery` | pages of up to 4 tokens of 9 kinds, limit 3 | the candidates are what the head advertises, in order; what "not found" and "unavailable" mean |
| `reader` | 2 tabs, 2 articles, clock to 3, storage works, is full or is blocked | marks survive visits one after the other; what one tab settled no number of tabs loses; what is new is new since the visit before |
| `client` | 3 feeds of which 1 without a link, 2 websites, 2 calls at a time, 2 registrations, a list of 1 | the dialog says nothing false, reports no conflict with its own other click, mixes no late answer into a newer one; the list at rest is up to date |
| `job_persists`, `failure_lost`, `two_tabs` | | the three findings |

Why the bounds are enough. Two requests are enough for every race the code has:
each conflict is between two transactions or between one transaction and one
single statement. Two URLs whose documents name one site or different ones give clashes on
either key, and two refreshes that swap their sites. `d1` and `d2` are two issues of one feed with overlapping items,
`d3` has no items and no validator (the only kind the job can store). The four
ids cover two committed feeds and two in flight, or with one URL and the job a committed
feed, one being registered, the snapshot of a deleted one and the id the job's gateway
makes. Four timestamps, one of them the zero time and one that cannot be written, for four rows force ties across a
page boundary and put either mark there; page sizes 1 and 2
give lists shorter than, equal to and longer than a page. `refreshDueLimit` and
the number of workers are 100 and 10 in the code. In `job` and `answered` they are 1 (the
proofs are for any number): goroutines of one batch work on different feeds, which
`OneGoroutinePerFeed` shows and proves. In `due_queue` a batch of two has room
for the stuck feed and one of two others that compete for it. In `lifecycle` three users
compete for two connections, so that both may be held by users waiting for the row, or
one is returned and another held when the pool closes. Pages of four tokens with a limit of
three have a stop or a failure before, at and behind the limit. Two tabs and a clock of
three give every order of two visits and a third after both. Two calls in flight are what
the dialog and one deletion, or a call given up and its successor, make; two ids are a feed
that is deleted and registered anew, two that clash, or one that pushes the other off a page of one;
there the registration that commits first has the later timestamp.

The constants `None`, ids and documents are model values; ids, requests and
workers, and the calls of the client, are symmetric in the safety runs, and no run with
a liveness property uses symmetry.

No run disables the check for deadlock. The service can always go on; a
process that has exited and a scan that is done stutter in an explicit step
(`Terminated`, the last disjunct of `Discovery!Next`).

### Fairness

`FeedService!Fairness` assumes that a goroutine that can run does
run (Go's scheduler), that a publisher answers (the HTTP client has a timeout, after which
a fetch fails; `answered` has no faults, the harder case for locks, since a
timeout ends every wait), and that a
statement waiting for a lock is served in turn, although the lock may be taken
again by others meanwhile: PostgreSQL queues the waiters of a lock, hence strong
fairness on the writing steps. Nothing forces requests to arrive, publishers to
publish or the process to crash. Of a circle of waits PostgreSQL fails one statement; that is a
step of the request it fails, and as fair. One request and one worker have no such circle and are
enough for what `answered` asks, whether the job and a request wait for each other for ever: among
requests alone the circles are those of `SwapsOnly`, and everything else that is waited for goes on
(`NoDeadlock`). That the wait for a row and the wait for a
connection do not combine into a cycle is `WaitsEnd` of `Scheduler`.

In `Pagination` only the client that goes on scrolling, and gets an answer or an error, is fair. In `Scheduler`, timeouts
pass (graceful shutdown, Shutdown's twenty seconds, the job's five minutes), statements
end, goroutines that can run do, the pool serves those who wait in turn and the database
the row; Go's select chooses at random among its ready cases, hence strong fairness on
the case of the ended context. No signal is forced, nor that a served request
ever answers. In `DueQueue` ticks come and goroutines run (weak); for a feed that is not
stuck, the job's context does not end every time before the feed's turn, nor does
every one of its refreshes meet an error (strong): without the second no feed's refresh
would ever be recorded.

## Proofs

Every proof is for all values of the constants. The assumptions are those the modules
state (`NoneIsNew`, `GatewayAssumption`, `RequestsRun`, `WorkersRun`,
`NoneIsNoDueFeed`, `ProcsSplit`, `DueQueueAssumption`, `SchedulerAssumption`,
`DiscoveryAssumption`, `ReaderAssumption`, `ClientAssumption` and `PaginationAssumption`): constants
have their types, `None` is none of the values, a goroutine is a request or a worker, and in
`DueQueue` there are finitely many feeds. `StampOf`, the times in the client's list, is any
function to the naturals: nothing relates it to the order of the commits.

### The tables: `FeedServiceProofs`

For every number of feeds, URLs, documents, requests and workers, every batch limit and
every set of faults:

* `TypeSafe`: `Spec => []TypeOK`;
* `SubscriptionsUnique`: `Spec => []UniqueSubscriptions`;
* `FeedsScheduled`: `Spec => []Scheduled`;
* `CursorsCovered`: `Spec => []CursorNeverAhead`;

all from `InvariantHolds`, `Spec => []IInv`. The three properties speak of committed rows
and are not inductive: a commit makes them depend on what the transaction holds.
`IInv` adds

* `RequestTx`: an open transaction of a request holds the row of the document it
  fetched (at `site` only its URL), all the items it has worked through, and the status only when none is
  left, so that a commit stores the items together with the validator, and
  the feed together with its status;
* `WorkerTx`: the transaction of the job never holds an article, because the id
  it would be stored under names no feed; what it commits is the status of a feed
  that still exists, for a document without items;
* `NewIds`: the id of a feed being registered is no row's, and no snapshot or
  transaction of another goroutine has it, so that a registration inserts
  a feed rather than overwrites one;
* `PendingRows`: uncommitted rows clash neither with each other nor with the
  table, the work of the unique keys and their locks;
* `SnapshotsCovered`: the validator of a stale snapshot is still covered by the
  articles of its feed, because articles are only ever deleted with their feed;
  this is why it does no harm that the job writes an old validator back;
* `RequestLocals`, `WorkerLocals`: the locals a step reads have been set.

The preservation proof has one lemma per action or per group of actions that
change the same state in the same way; steps that write no table share
`OutsideTx`, `InsideTx` and `JobReads`.

### Lock waits: `FeedServiceProofs`

`Waits(p, q)` says that the next statement of `p` is held up by the open transaction of `q`.

* `WaitsEndAtCommit`: `Spec => []NoDeadlock`. Whoever is waited for goes on (`GoesOn`): it commits
  next, or waits at most for one that does. The exception is a request at the index of
  website_url, which has its row and may wait there for another one; it delays only requests
  that stand there too or hold nothing. So neither the job nor a deletion is ever in a circle.
* `OnlySwapsDeadlock`: `Spec => []SwapsOnly`. A circle of any length consists of refreshes only,
  each at the index of website_url and each wanting the website another one is moving its
  feed away from.

The argument is `RequestTx` and `WorkerTx`. A request holds nothing until it has written or
locked the row of its feed, so that those who wait at a row, or for a feed URL, delay nobody. Past
the index of website_url it only waits for the status, and so does the cascade of a
deletion; the one who can hold a status is about to commit (`OpenAt`). Hence who is in a circle
stands at the index, and by `LeavesWanted` what the next one holds there is not its new row, which
has not entered the index, but the old one: it is a refresh that moves its feed away.

Such a circle needs two publishers that exchange the links of their channels, and two refreshes
of their feeds at the same time. TLC meets it in `requests`, where two URLs and two sites are
enough. The database fails one of the two with 40P01, which the client sees as an internal error
(`classifyDBError` knows only 23505); the others then find the websites still taken and answer a
conflict, as they would one after the other.

In `job`, with one request, each side waits for the other at some time, but the chain of
two (a deletion behind a refresh behind the job's commit) takes two requests: that
instance, with all documents and faults, is too large for a run. The theorem covers it.

### Atomicity: `CatalogProofs`

* `ImplementsCatalog`: `Spec => CatalogSpec`, the refinement. An operation maps to its
  name with what it was called on, an idle request to "idle", an answered one to its answer (`CallOf`); the tables map
  to themselves. The effect is the commit of the transaction or the DELETE; everything
  before is invisible, everything an error answers leaves the tables alone. `MInv` adds to
  `IInv` what the mapping needs and safety did not: a step belongs to an operation that
  has it (`CallKnown`), a transaction holds only articles of its document (`OnlyItems`),
  and the URL a refresh has read is still its feed's (`UrlRead`: no operation changes
  the URL of a row). The job maps to `Reschedule` or to nothing (`RescheduleMaps`).
* `CatalogKeepsTables`: `Catalog` itself keeps `UniqueSubscriptions`, `Scheduled` and
  `CursorNeverAhead` of its tables, `CatalogSpec => []CatalogInv`: what a client reads
  from the abstract specification is enough to rely on consistent tables, whatever implements it.
* `JobDiscardsDocuments`: `Spec => [][DocumentDiscarded]_vars`, the general form of finding
  1: whatever the feeds, the documents and the interleaving, a goroutine of the job that has
  fetched a document with items leaves its transaction without a change to any table.
* `InteractorIsService`: the requests alone (`InteractorSpec`) behave as the service does
  with a job at rest. The variables of the job do not occur in `InteractorSpec`, so each of
  its behaviours can be read as one in which they never change, and that is what
  `IdleJob` says; with it `InteractorTypeSafe` and `InteractorSafe` carry type
  correctness, the refinement and `SwapsOnly` over from `Spec` to the specification of the run `requests`.

### The others

* `DueQueueProofs`: `TypeSafe`, `OneGoroutine`, `InTurn`. Goroutines hold different feeds
  because a batch begins when none is left of the one before, and a goroutine takes its feed
  out of the batch (`BatchHeld`). `TypeOK` bounds the feeds of a batch, those left and those with a
  goroutine (`Taken`), by the limit; that nothing comes to them after the query is `TakenBounded`.
* `PaginationProofs`: `TypeSafe`, `WalkComplete`, `WalkOnePass`, `NullIsLast`, for every
  finite list, page size and sequence of insertions and deletions. `Position` says where a
  walk stands: everything delivered is at or before the token, every stable row not
  delivered behind it. A page needs "the first n rows of a finite set", usually an induction; here it
  follows from a set of least cardinality (`MinimalSet`, `FirstExists`).
  No theorem assumes anything about the timestamps: a page that cannot be written ends the walk as
  `failed`, of which nothing is promised.
* `SchedulerProofs`: `TypeSafe`, `PoolSafe` and `IdleJobHoldsNothing`, for any number of
  requests, workers, connections and pings. `PoolOutlivesJob` only speaks of the time after
  Shutdown; `ShutdownHeld` adds where its result comes from (it is set exactly when main
  has passed Shutdown, and is "ok" only if the job is gone then) and that a goroutine that
  is gone, or was never started, cannot come back, because Start is behind main by then.
  `JobLeavesNothing` says that a job which is not inside Func has no goroutine that waits
  for a connection, holds one or holds the row, so that no second batch finds the first
  one's locks; its proof needs `ShutdownHeld` too, for the job that is gone.
* `DiscoveryProofs`: `TypeSafe`, `CandidatesInPageOrder` and `NotFoundSure`, for pages of any
  length and any limit. `Scanning` says that while tokens are read the candidates are what the
  tokens so far advertise in the head, in their order; `HeadPassed` that a scan which is over has the head behind it, so that the rest
  of the page advertises nothing; `Progress` ties them to the steps. A token adds one link at the end or none
  (`HeadFeeds(n + 1)` against `HeadFeeds(n)`), which needs no induction over the page:
  the step of the scan is the induction step.
* `ReaderStoreProofs`: `TypeSafe`, `MarksSurvive`, `StarsSurvive`, `VisitsCompared`,
  `MarksOutliveTabs`, for any number of tabs and articles. `StoredMarks` and `StoredVisit`
  relate localStorage to the history, `OneTab` says that `alone` leaves at most one tab
  that is not closed. `MarksOutlive` is inductive as it stands: what is settled is in
  localStorage and with every loaded tab, a tab is loaded from there, and each saves what it has.
* `WebClientProofs`: `TypeSafe`, `ListShown`, `ConflictsAreOld`, `MessagesTrue`,
  `AnswersOwn`, for any feeds, websites and number of calls in flight. `IdsGiven`: an id is
  given once, so that a removal the client was told of is final and a registration is news.
  `ListShows`: a list that has been read but has not arrived shows all the client was told,
  because an accepted answer cancels a fetch under way; what a page leaves out is below a full page of
  newer ones, and stays so while ids and times do not change. `OneAtATime`: the client waits for
  one call of the dialog at most and has given all others up, hence what is registered while
  it waits comes from those. `CallsTruthful`: an accepted answer is that of a call that took
  effect. `AskedHere`: once something has been submitted since the dialog was opened, the
  call waited for is that one.

Checked by TLC only: the liveness properties `BatchEnds`, `RequestsAnswered`, `WalkEnds`,
`Exits`, `TickServed`, `WaitsEnd` and `DueRefreshed`, which need fairness and ENABLED and are
out of the prover's reach, and the violations of the three findings. Every invariant and every
action property of a passing run is stated by a theorem.

## Findings

1. `job_persists`: the job never stores an article. `refreshOne`
   (`usecase/feedjob_interactor.go:136`) saves the articles under the feed id the
   gateway generated, although `rss_gateway.go:47` says that callers "must
   overwrite Article.FeedID"; the foreign key rejects them and the rollback undoes
   the status too, so the feed stays due. RefreshFeed does overwrite the id.
2. `failure_lost`: a fetch that failed because the job's context ended is recorded
   with the same context (`feedjob_interactor.go:119`), which fails: next_fetch_at
   does not advance, against the comment at line 108.
3. `two_tabs`: `markRead` (`frontend/src/lib/reader-store.tsx:74`) writes the tab's
   whole set over the stored one, which the tab read only when it was loaded.
   Articles opened in another tab meanwhile are unread in every page
   loaded later, though `readIds` are the "Article IDs the user has opened"
   (`article-status.ts:9`). As long as tabs are used one after the other none is
   lost (`OpenedIsRead`).

Also seen, and not findings of a run. In the service:

* With finding 1, `DueRefreshed` is all that is left: as soon as as many feeds as
  the limit are stuck, they fill every batch and no other feed is refreshed again (with
  `Stuck` of two and a limit of two TLC finds the starvation that the
  antecedent of the property excludes).
* `decodeCursor` (`handler/cursor.go:54`) takes the zero time for a missing field and
  refuses a token the server itself made.
* A row later than the year 9999 makes the page it is on fail as a whole, an internal error
  (`FailPage`), and with it the list, whose every walk stops there. The null token
  `encodeCursor` (`handler/cursor.go:26`) would answer is never sent: the row the token
  is made of is on the page.
* Two refreshes at the same time of feeds that swap their websites deadlock in the database, and one is
  answered with an internal error (`SwapsOnly`, `DeadlockVictim`); see the lock waits above.
* A failed fetch whose status cannot be saved leaves its feed due also when the
  context lives (`saveErr`, `feedjob_interactor.go:119`): the next tick picks it again. Finding 2 is the case
  that needs no failing database.
* Two feeds whose channel link is empty conflict on UNIQUE (website_url), and so do two
  feeds of one website, which the candidates offered by discovery usually are.
* 304 to an unconditional request ends in a recovered panic.
* `src/README.md:13` still calls the job a stub.

In the web client:

* A feed or an article without a link is stored with an empty URL, which the schemas
  (`schemas.ts`, `.url()`) refuse: the registration succeeds and its answer is shown as an
  error, and from then on the feed list cannot be read (`Accepted`, `Readable`).
* An invalidation while the first list is being fetched has no effect (`Invalidate`), hence
  the restriction of `news` to the time since there is a list.
* An answer of a registration submitted before the dialog was closed may close the
  reopened dialog, or write its error into it, as long as nothing has been submitted there
  (`OwnAnswers` says that it goes no further).
* The sidebar lists the newest hundred feeds only (`FEEDS_LIMIT`), and offers no way to the others:
  a registration the client was told of may be missing from it (`ListUpToDate`).
* A deletion that fails shows nothing; the
  mark of the candidate subscribed to may be missing after a late answer; the page of a
  proxy is reported as an internal error.
* With localStorage refused the unguarded `getItem` of the last visit
  (`reader-store.tsx:60`) throws out of the effect (`crashed`).
* `timeline.tsx:128` renders the empty panel in place of the sentinel and the button that
  load more: the unread and starred views stop at the loaded pages as soon as none
  of their articles matches, and the starred view says that there are none although the
  sidebar counts them.
* The sentinel of `timeline.tsx:62` looks at `isFetchingNextPage` only: loading the next page
  cancels a refetch under way, and the pages loaded before it stay as they were.

## Not modelled

* Parsing of feeds, tokenising of HTML, resolution of external ids, the size limit and
  address guard of the HTTP client, binding and validation of parameters, response
  envelopes, logging, configuration, `article-status.ts` and the rendering of the web client:
  functions of one input without a state of their own.
* The client's query of articles and the timeline. Its walk is that of `Pagination`; what is
  left is which pages react-query keeps when fetches overlap, behaviour of that library
  and not of this code. The two hazards of the timeline are listed without a property.
* The refresh of a feed by the web client beyond the refetch it causes: it changes
  neither ids nor URLs.
* A failure to generate a UUID. Of the clock only the passing of next_fetch_at and the order
  of visits are modelled.
* The generated query code: it is modelled by the SQL it is generated from.

## Plan

Done: `Store`, `Gateway`, `FeedInteractor`, `Catalog`, `FeedJob`, `FeedService` with its
inductive invariant, the refinement and their proofs; `Pagination`, `Scheduler` with its pool,
`DueQueue`, `Discovery`, `ReaderStore` and `WebClient` with the proofs of their safety properties.

Left:

1. A timeline over `Pagination` and `ReaderStore`: views, pages kept and refetched.
