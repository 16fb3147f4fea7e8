# A TLA+ model of itchgrep

itchgrep is a search engine for itch.io game assets. Two processes share a data
directory: the **dataservice** crawls itch.io every few days, builds a bleve index
and publishes it with a handful of JSON files; the **webserver** loads what is
published and answers searches. There is no channel between them but the files.

This directory holds TLA+ modules of the parts where order, failure and concurrency
matter, the TLC configurations that check them on small instances, and TLAPS proofs
of the safety properties that matter most for every value of the constants. Every
definition is translated from the Go source; `PROJECT.json` maps each to its lines.

    tlc -config Site.cfg Site          # check one run
    tlapm Site_proofs.tla              # check the proofs of one module

Contents: [inventory](#inventory), [modules](#modules), [runs](#runs),
[fairness](#fairness), [proofs](#proofs), [where the code and its documents
differ](#where-the-code-and-its-documents-differ), [what is not
modelled](#what-is-not-modelled), [plan](#plan).

## Inventory

| Component | State | Operations | Hard behaviour | What makes it correct |
|---|---|---|---|---|
| **Data directory** (`internal/storage`) | `assets.json`, `rates.json`, `stats.json`, `tags.json`, `firstseen.json`, `history.json`, `traffic.json`, `checkpoint.json`; the index at `index.bleve`, `.staging`, `.previous` | atomic writes by rename, reads, quarantine of corrupt files, `PublishIndex` | crash between renames, failing calls, two processes | a reader sees whole files; a usable index is never lost |
| **Publish pipeline** (`publishCrawl`, `recordCrawlCompletion`, `buildIndex`, `selfheal.go`) | the job in progress | build, swap, write rates, assets, first-seen, stats, history; rebuild at start-up | crash or failure at any step; what the next run finds | index, rates and list stay in order; a broken index heals |
| **Crawl loop** (`crawler` in `cmd/dataservice/main.go`) | seen assets, done slices, yield window, checkpoint | resume, run slices, fetch a batch, judge a slice, checkpoint, gate on coverage | SIGTERM and kill at any point, checkpoints written outside the lock, retries after refusals | a checkpoint is self-contained; slices are abandoned for cause; a crawl ends |
| **First-seen dates and history** (`stampFirstSeen`, `recordCrawlCompletion`, `/stats`) | `firstseen.json`, `history.json`, the dates in `assets.json` | remember, stamp, forget, append | a write that fails after the one it belongs to, a damaged file, `/stats` moving a file aside meanwhile | an asset keeps its date; the history adds up but for what was lost |
| **Crawl scheduler** (`scheduleCrawls`, `/trigger-fetch`) | the single-crawl flag, consecutive failures, the sleep | decide, start, back off, trigger | triggers racing the loop, restarts more frequent than the interval | crawls never overlap, backoff is served, overdue data is crawled |
| **Fetcher** (`internal/fetcher/fetcher.go`) | limiter (next slot, pause, epoch), attempts | reserve, wait, request, pause on 429, retry | many workers, echoes of one refusal | pauses are respected but not prolonged; a batch ends |
| **Planner and tag discovery** (`planner.go`, `tags.go`) | none; the plan | choose and size slices, walk the tags | arithmetic at the ceiling, a graph found by following links that fail | every asset under a small enough tag is reached; every slice valid, none twice |
| **Dataset refresh** (`internal/cache/cache.go`) | loaded list, index, rates, stats, time | staleness check, seven reads, swap | the other process publishes between any two reads | what is served is consistent and catches up |
| **Single flight and Close** (`cache.go`) | flag, channel, shared error, handles | join, lead, panic, close | callers, a Close and a panic in any order | one refresh; nobody waits for good; Close is final |
| **Query path and hit cache** (`search.go`, `hitcache.go`, `engine.go`) | RW lock, LRU list and map, flights, generation | search, hit, join a fill, swap; filter, order, page, count tags, three ways | a fill that panics, a refresh that waits for the lock; fallbacks and page arithmetic | answers are cut from the list they are for; nothing deadlocks; the three ways agree and load-more shows every match once |
| **Rate limit and probe filter** (`internal/web`) | token buckets | admit, refuse, evict | a clock read before the lock, eviction against refill | a client never gets more than its budget |
| **Metrics and traffic** (`internal/metrics`) | counters, a ring of days, their file | count, snapshot, write, roll over, restore | snapshots torn by running counters, midnight, restart, a stop racing the ticker | nothing is counted twice; a drained stop whose write is the last loses nothing |
| **HTTP handlers and templates** (`handlers.go`, `templates/`) | `started`; clients keep pages | conditional requests, stamps, filters and their addresses, redirects, links | a page is assembled from several reads of a dataset that may be swapped; one address is read in three places | a 304 confirms what is current; a publish reaches every client; a link means what it says |
| **Parsing, money, configuration, logging** | none | parse, print | none | pure functions |

How they interact. The scheduler (or a trigger) starts a crawl; the crawl fetches
batches through the limiter and leaves checkpoints; a crawl that passes the coverage
floor is published: index (three renames), `rates.json`, `assets.json`, then
statistics. The webserver compares the modification time of `assets.json` with the
one it loaded, at most once per `expiryCheckTTL` and on a request; if it is newer, one
request refreshes and the others wait for it; the new dataset is swapped in under a
write lock and the hit cache reset. Requests pass the limiter, ask the cache several
times while they assemble a page, and are counted when they end. Clients keep pages and
revalidate them.

`PROJECT.json` lists the hazards at their lines: every property below is aimed at one
or more of them.

## Modules

| Module | Models | Abstracts |
|---|---|---|
| `DataDir` | the files and index directories two processes share | a file's content is the number of the crawl that wrote it; `writeAtomic` is one step; a bleve index is a directory with an identity, openable or not |
| `Publisher` | self-heal, `buildIndex`, `PublishIndex`, `publishCrawl`, the stats of `recordCrawlCompletion` | the crawl itself is one step; a kill inside `os.RemoveAll` leaves a damaged directory |
| `CacheRefresh` | `IsCacheExpired`, `EnsureFresh`, the initial-load loop, `doRefresh` | one refresh at a time (proved of `SingleFlight`); the tag universe, on which nothing else depends |
| `Site` | `Publisher` and `CacheRefresh` over one `DataDir` | nothing: every interleaving of their steps |
| `CatalogPromise` | the abstract specification `Site` implements | |
| `Ledger` | `stampFirstSeen`, `PutFirstSeen`, `diffAssetIDs`, `PutHistory`, the quarantine of both files, the `/stats` reader | a date is the number of the crawl that gave it; the index |
| `SingleFlight` | `RefreshDataCache` and `Close` | the refresh opens an index or keeps the live one, and succeeds, fails or panics |
| `Fetcher` | the limiter, `FetchAssetPage`'s retries, a batch of `fetchPages` | wall-clock times are the time left until them |
| `Crawl` | `resume`, `run`, `runSlice`, `fetchPages`, `sliceSpent`, `checkpoint`, the gate, `DeleteCheckpoint`, SIGTERM, kill, restart | an asset is a name; a page is a set of assets; publishing is one step |
| `Lists` | the sorts and filters that the planner, the engine, the index and the search controls make | a sort is the arrangement of a finite set by an order, counted out and not recursive, so that it can be reasoned about |
| `Planner` | `PlanSlices`, `Valid`, `PagesToFetch`, `Label`, as operators, and what a plan promises of a catalog | a tag is a number and a count; an asset carries tags and passes filters |
| `TagWalk` | `DiscoverTags`, as a recursive operator | pages of a tag name other tags |
| `MCCrawl` | the small site of the runs of `Crawl`, and the catalogs they plan for | |
| `Scheduler` | `scheduleCrawls`, `decideCrawlAction`, `backoffDelay`, `startScrape`, the trigger, container restarts | time in quarter-hours; the crawl returns `nil` or an error after any time |
| `QueryPath` | `searchIndex` under the read lock, `hitCache.get`, `reset`, the swap | an entry is the number of the list its positions are for; searching succeeds, fails or panics |
| `Engine` | `Find` and its fallbacks, `browse`, `searchEngine`, the index and its entries in the hit cache, the sidebar, as operators | a text is a set of words; a title is its rank; int64 ends at `MaxInt`; `tags.json` is a set of tags that a dataset has, whatever its list |
| `Filters` | `templates.Filters`, `parseFilterValues`, `PageURL`, the canonical redirect, the links of a page, `isSearchRequest` | an address is a record of parameter values; junk is one value |
| `Queries`, `MCQueries` | a visitor's session over `Engine` and `Filters`: typed addresses, redirects, links, load-more, publishes | the page is its address |
| `Pages` | `notModified`, `cacheable`, `lastModified`, the reads a request makes of the cache, the copies clients keep | a page is the datasets it was put together from; loading is one step |
| `Limiter` | `allow`, `evictLoop`, `limiterKey`, the middleware and the probe filter | time in ticks of `Rate` tokens each |
| `Traffic` | `RecordRequest`, `bumpDay`, `Snapshot`, `Restore`, the ticker, the clean stop | the total stands for its breakdown by route |
| `*_proofs` | theorems and their proofs | |

Correspondence, module by module:

* **Publisher.** `pc` names the next system call; each action is one call that the
  other process or a crash can fall between. `gen`, `rates` and `hadPrevious` are the
  locals of the same meaning. An action has a disjunct in which its call fails (crashes
  and failures together at most `MaxTroubles` times) and goes where the code's error
  path goes: `Return` for an error that ends the publish, the next step for one that is
  only logged, `restore` for a failing second rename. `Crash` may come anywhere and
  loses the locals. `ChooseRates` stands for `chooseRates`: a fresh snapshot or the
  stored one.
* **CacheRefresh.** `next` is what the running refresh has read so far, one field per
  read in the order of `doRefresh`; `Swap` makes it `live`. `info` is the identity
  `os.Stat` returned, `index` what the later open found: two reads of one path.
  `LockedBySelf` is the bolt lock this process holds on the index it has open.
* **Ledger.** `pc` is the crawl's next file operation after the coverage gate. A file is
  missing, good or not parseable; what does not parse is moved aside by whoever reads
  it, in a later step for `/stats` (`WebReads`, `WebMovesAside`), which may then move a
  newer file. Reads can fail as well as writes. `publishes`, `date`, `away`, `blind` (the
  publishes whose crawl could not read the list before), `lost` (those whose record was
  not written) and `since` (the last one due when the history was damaged or moved) only
  remember what happened, so that a property can say what may be missing.
* **SingleFlight.** A caller's `place` moves through the two critical sections of
  `RefreshDataCache`, the refresh between them, and the `close(done)` after them;
  refreshes are numbered, which also names their channels and indexes. A waiter takes
  the lock again to read `refreshErr`, in a step of its own.
* **Fetcher.** `Reserve` is the first critical section of `acquire`, `Send` and
  `WaitOutPause` its loop, `Pause` the whole of `pause`, including the epoch test that
  drops an echo. `Tick` passes time.
* **Crawl.** `phase` is where the crawl's goroutine is; a page fetch is one step per
  page, in any order. `CopyCheckpoint` and `WriteCheckpoint` are apart because the
  file is written without the lock, and so are `Shutdown` and `WriteFinal`. `resume`
  reads the file once, into `copy`, takes no lock and fills the crawler in two steps, so a
  shutdown may see it half filled. `Finish` drops the crawler. `MCCrawl` takes the slices,
  their validity and their page budgets from `Planner`.
* **Planner, TagWalk.** `PlanSlices` is the code's sequence of passes, each a filter and a
  sort, with an operator for what each loop appends (`Whole`, `Windows`, `PairsFrom`);
  `DiscoverTags` is the walk with its seed, its cap and the pages that fail. Orderings and
  filters are constants, so that nothing depends on which ones itch.io offers.
* **Scheduler.** `Check` is one turn of the loop, with `startScrape`'s
  compare-and-swap; `CrawlReturns` and `Release` are apart since `onDone` is called
  before the flag is cleared. Age, failures and elapsed times stop counting where the
  code no longer distinguishes them, so restarts, triggers and crawls are unbounded.
* **QueryPath.** A request's `pc` follows `searchIndex` and `get`; `Store` is the whole
  deferred critical section, eviction included. `refresh = "lock"` is a writer in
  wait, which keeps new readers out. Flights are left alone by `Swap`, as `reset`
  leaves them.
* **Lists, Engine, Filters.** One operator per function of the source, under its name.
  Where the code sorts by a key with a tie-break, or walks an ordering and skips what did
  not match, the operator is `Arranged` or `Kept` of `Lists`. A dataset
  is the list with the rates loaded beside it and the index's documents with the rates
  they were priced with, so that one torn between two publishes can be stated.
* **Pages.** A request goes through the calls of a handler one by one, because the
  dataset can be swapped between any two: the flags `Find` reads before the lock, the
  query, `handler.find`'s rates and generation, the stamp, the frame. A dataset is named
  by the second it was published in, a release by the second it started in, which is
  what the two are compared by.
* **Limiter.** `Arrive` reads the clock, `AllowNew` and `AllowKnown` are `allow`'s
  critical section, `MaxSkew` ticks later at most; a refill by an earlier reading than
  the last takes tokens away, as in the code. `spent` only remembers what was let through.
* **Traffic.** `AddTo` and `bumpDay` are the atomic steps of `RecordRequest`; `Read` is one
  counter of `Snapshot`, in its order; `Write` is `PutTraffic`, by the ticker or the stop.

A definition preceded by "Mutant:" is a plausible bug in the definition below it. No
specification uses it; substituting it breaks the property `PROJECT.json` pairs it
with, which shows that the property depends on the code being as it is.

## Runs

About ten minutes on two cores check all of them. Passing runs:

| Run | Distinct states | Question | Bounds, and why they are enough |
|---|---|---|---|
| `Publisher` | 99,077 | Do the files stay in order, and does an index survive and heal, whatever fails or dies? | 3 crawls (the third meets what a failed one left of the first two), 3 crashes or failing calls in any mixture (the second rename, the restore, and the recovery from both) |
| `Site` | 631,688 | Is what is served consistent, and does it catch up, with a publish between any two reads? | 2 crawls on top of an initial one, 1 crash or failing call, 1 webserver restart |
| `Ledger` | 868,411 | Do arrival dates survive, and does the history add up, whatever is lost? | 2 assets, one of them older than the feature, 5 crawls, forgotten after 3 absences, a history of 2: an asset can go, come back in time, go again and come back too late; 2 faults, so that a history that a fault damaged can be moved aside and meet another, and a lost record can be followed by a blind crawl |
| `SingleFlight` | 134,272 | Can any order of callers, closers and panics break the single flight? | 3 callers (leader, waiter, and one that leads the next refresh before the waiter wakes), 2 closers, 2 refreshes, 1 panic |
| `Fetcher` | 184,302 | Are pauses kept and not prolonged, and does a batch end? | 3 pages, 2 attempts, pauses shorter and longer than a backoff |
| `Crawl` (`MCCrawl`) | 416,285 | Are checkpoints self-contained and slices abandoned for cause, through shutdowns and kills? Does the plan reach what it can? | 3 runs, 1 failed page, 1 failed write, 1 shutdown or kill, 2 catalog sizes; five slices: the root, a malformed one, one smaller than a batch, one that is abandoned, one that overlaps the root and is worth paging to the end. For the planner every catalog of 5 assets and 2 tags, 2 assets to a page and 2 pages to a view, so that views lie below, at and above the ceiling |
| `Scheduler` | 3,145 | Are crawls apart, on pace, and never forgotten? | no bound on restarts, triggers, crawls or failures; an interval of 2 hours, which cuts the third backoff step |
| `QueryPath` | 305,218 | Is an answer always of the list it is cut from, and does nobody block? | 3 requests (leader, waiter, and one that evicts or searches directly), 2 keys, 1 cache entry, 2 datasets |
| `Queries` (`MCQueries`) | 37,617 | Do answers and addresses fit each other, along any path of clicks? | 6 assets with ties, an unranked, an undated and an unpriceable one; 3 datasets, one torn between two publishes, one with an old index; a tag universe with a tag no asset carries, none at all, and one that lacks a listed tag; 17 typed addresses with duplicates, junk and pages out of range, 3 links after each; numbers up to 15, so the largest pages wrap; pages of 2, 2 pages to a hit-cache entry, so pages lie inside it, across its end and beyond |
| `Pages` | 76,599 | Is a 304 honest, and does a publish reach clients that only revalidate? | a page of results and one without, 2 publishes, 1 restart. The client has a later page, which takes every step of a first page and one more; a first page alone would not show the past-the-end case |
| `Traffic` | 2,468,721 | Is anything counted twice, or lost by a clean stop? | 2 requests (one may be counted while the other is, or while a snapshot is read), a ring of 2 days over 3 days, so a slot is taken over; 2 lives, 1 fault; the ring, the total and the searches are read one at a time by the ticker and the stop |

What they check:

* `Publisher`: **FilesInOrder**, the order the three files are written in, across
  recovery and rebuild; **IndexNeverLost**, that no step takes the last usable index;
  **IndexHeals**, that an asset list without one gets one back without a crawl.
* `Site`: **IndexCoversList** (never a list searched through an older index);
  **TimeNeverAheadOfList** (so a missed publish is noticed again);
  **ImplementsPromise**, the refinement of `CatalogPromise`; **PublishedIsServed**
  and **SettlesCoherent**, its liveness. Both liveness properties name their
  exceptions, `StatMissedSwap` among them: see `SiteStuck` below.
* `Ledger`: **DatesKept** (an asset listed twice in a row keeps its date whichever one
  write is lost; without any, one that was away is a newcomer exactly after `ForgetAfter` absences: once
  the map is lost a miss is not forgiven, as `main.go:513-517` says), **HistoryAddsUp**
  (every publish that is recent enough has its entry, but for those whose record was lost
  and those before the file was damaged or moved; consecutive entries differ by what the
  later says came and went, unless its crawl could not read the list before).
* `SingleFlight`: **OneRefresh**, **ClosedForGood**, **NoHandleLeaks**,
  **AnswerNotOlder** (a waiter may get a later refresh's result, never an earlier
  one's), **NobodyWaitsForever**.
* `Fetcher`: **FetcherInv**; **QueueBounded** (refusals do not ratchet the rate
  down), **PauseNotProlonged**, **BatchEnds**.
* `Crawl`: **DoneSlicesCollected** (what is marked done is in the same checkpoint),
  **FinalCheckpointKept** (of two checkpoints written outside the lock the older one
  never stays), **AbandonedOnlyWhenSpent** (for first runs: see below), **CrawlEnds**;
  **PlanSound**: whatever the catalog, every asset with a small enough tag, or one a
  filter narrows to that, is on a page the plan fetches in full; every slice is valid
  and none planned twice; discovery finds exactly the tags reachable through pages
  that could be read.
* `Scheduler`: **OneCrawl**, **PromptStart**, **BackoffHeld**, **OverdueIsCrawled**
  (even with restarts more frequent than the interval, for ever, which is the reason
  the code gives for not using a ticker).
* `QueryPath`: **HitCacheInv**, **AnswerOfServed**, **NoSearchOnClosed**,
  **EverybodyGetsOn**.
* `Queries`: **PagesCoverMatches** (load-more shows every match once and stops, whether
  a page comes from an entry or the index, and page numbers do not overflow);
  **PathsAgree** (list, engine, index and hit cache give one answer); **SidebarTellsTruth**
  (clicking a tag shows as many assets as its row says); **LinksKeepMeaning** (no link
  leads to a redirect or, while the tag universe holds the tags of the list, to a 404; a
  redirect keeps the answer; and what the access log does not count as a search is the
  same results again).
* `Pages`: **ConfirmationHonest**, **PublishReachesClients**. Both except pages that were
  put together while a dataset was swapped in, and datasets published while the process
  was starting: see below.
* `Traffic`: **TallyHonest** (in memory and in the file, however the snapshot was torn),
  **CleanStopKeeps** (of a stop that waited for the last request and whose own write is
  the last: see `TrafficStop.cfg` below).

`Limiter.cfg` model-checks **LimiterHolds** (2,201,102 states); the property is proved for
every value of the constants, so it is not among the runs.

`CHECK_DEADLOCK FALSE` is set where a behaviour may end: all bounded crawls, days,
requests or clicks are over, the batch is fetched, the cache is closed. `Scheduler` never
ends and is checked for deadlock.

## Fairness

Safety runs need none. Liveness assumes, per module:

* `PubFairness`: a running process takes its next system call, and the container
  runtime restarts a dead one (`restart: unless-stopped` in `docker-compose.yml`).
  Nothing makes a call succeed or a crawl start.
* `SiteFairness`: the same, and a refresh goes on, the throttle runs out and visitors
  keep coming; the initial-load loop is not assumed to help.
* `Fetcher`, `SingleFlight`, `Crawl`, `QueryPath`: a goroutine that can run goes on; a
  request gets an answer or the client's timeout; time passes. Calls, closes, fills
  that succeed and arrivals are not assumed. In `QueryPath` a blocked reader gets its
  turn when a writer leaves, which Go's `sync.RWMutex` guarantees.
* `Scheduler`: the loop runs and time passes. Crawls may fail for ever or never
  return, triggers and restarts come as they like.
* `Pages`: the process starts and retries its first load, requests are served, the
  throttle runs out, and the clients go on asking. Nothing is published or deployed.

All of it is weak fairness.

## Proofs

| Module | Proved of every instance | From |
|---|---|---|
| `Site_proofs` | `PubInv`, `PubTypeOK`, `FilesInOrder`, `IndexNeverLost`; `SiteInv`, `IndexCoversList`, `TimeNeverAheadOfList`, and that `Site` implements `CatalogPromise`; `RateHeld` of `Limiter`; `OneRefresh`, `ClosedForGood`, `NoHandleLeaks`, `AnswerNotOlder` of `SingleFlight` | the bounds are naturals; `LimiterConstants`; callers and closers are different goroutines |
| `Crawl_proofs` | `CrawlTypeInv`, `FinalCheckpointKept`, `DoneSlicesCollected`, `AbandonedOnlyWhenSpent`; `FetcherInv`, `PauseNotProlonged`, `QueueBounded` | a plan of any length and any views of it, of pages with finitely many assets each; attempts, interval, waits and backoffs are positive, any finite batch |
| `Records_proofs` | `HistoryAddsUp`, `DatesKept` of `Ledger`; `TrafficTypes`, `CleanStopKeeps`, `TallyHonest` of `Traffic` | any finite set of assets, any finite set of requests; there is a first day, and a ring has two days at least |
| `Planning_proofs` | `OneCrawl`, `PromptStart`, `BackoffHeld` of `Scheduler`; `WellFormed` and `ReachesAll` of `Planner`, the two halves of `PlanSound` that are about the plan | the interval is positive; `PlannerConstants`: the default and the newest ordering are there, no name stands twice; slugs of tags differ, a page has at least one item, catalogs are finite |
| `QueryPath_proofs` | `HitCacheInv`, `AnswerOfServed`, `NoSearchOnClosed` | the cache holds at least one entry |
| `Pages_proofs` | `ConfirmationHonest` of `Pages`; `VisitorInv`, `PathsAgree`, `PagesCoverMatches`, `LinksKeepMeaning`, `SidebarTellsTruth` of `Queries` | the bounds are naturals; `EngineConstants`, `FilterConstants`, `VisitorConstants`: see below |
| `Search_proofs` | lemmas: what the engine finds, what the index finds, what the sidebar counts, and how addresses are read and written | the same |
| `ListTheorems` | lemmas: what a fold by `+` over a finite domain is and bounds; that an arrangement by an order is the only one, what is kept or cut of it, and what a list of lists put together is | |

The assumptions about `Queries`: tags are finitely many and numbered in slug order; page
size, limits and depths are positive; the hit cache and the last page that is served end
below `MaxInt` (`pageParam` sees to the latter). Of a dataset (`IsDataset`): ids differ, in
the list because the crawl keeps a game once (`c.seen`) and none without an id, in the
index because documents are keyed by it (`selfheal.go:248`); and no list is longer than the
pages that are served, as `handlers.go:85-92` says of real ones. List and index need not be
of one publish, the tag universe is any set of tags, and an index may be too old to hold
prices. Of a typed address only that
its values have types; a `/tag` address has the one tag of its path.

Each follows one plan: a strengthened invariant holds initially, every action keeps
it (a lemma or a step per action), and it implies the property. The strengthenings
are where the arguments are:

* **PubInv.** Whether the recovered, rebuilt or swapped index is new enough depends on
  the job: what it carries is no older than the files it replaces (`JobNotOlder`), the
  staging directory is its own (`StagedByJob`), and each step of `PublishIndex` knows
  which of the two paths holds what (`PublishOrder`). Without the last,
  `FilesInOrder` is not inductive: an old index under the previous name could come
  back over a newer one. `IndexNeverLost` is an action property of the same invariant.
* **SiteInv.** A refresh may conclude something from reads made at different moments
  because the directory at the published path is only replaced by newer builds
  (`IdentitiesGrow`) and an index is opened no earlier than it is stat'ed
  (`OpenedInOrder`); `ReadingInv` states what each read has established. That is why
  an index kept since `os.SameFile` held may be kept. The refinement maps
  `catalog`, `served` and `searchable` to `assetsFile`, `live.data` and
  `live.index.assets`; publishing steps map to `Publish` or stutter, `Swap` to `Serve`.
* **FetcherInv.** Every request in flight during a pause was issued before it
  (`PausedMeansStale`), so its refusal is an echo that the epoch test drops. For `QueueBounded`: every slot
  before the next one that is further off than one pause is some page's turn
  (`SlotsTaken`), and a page has one at a time, so there are no more than pages. The
  bound is one pause, or one slot if `SCRAPE_RPS` makes that the longer of the two.
* **FinalInv.** Checkpoints are copied under the crawler's lock and written outside it: of
  a write that was copied before the shutdown's snapshot and is still to be made, the
  content is the state the snapshot was taken of, and once it is taken nothing more is
  copied.
* **CollectedInv.** What a slice is marked done for has to be collected in four places at
  once: the crawler, the copy about to be written or being resumed from, the shutdown's,
  and the file (`StoresInv`). The step that marks a slice needs to know that the
  pages before the batch are collected, and in it those that are not pending
  (`SliceInv`, with `WalkInv` for the fetches still out). A resume takes the assets first
  and the slices later, both of one checkpoint (`ResumeInv`).
* **CreditInv.** The code abandons a slice on a *count* of new assets over its window; the
  property speaks of *which* pages brought which assets. The invariant credits each asset
  to a page that shows it, so that a page's entry in the window is at least what it is
  credited with (`Counted`) and every asset seen is credited to a page or shown by a view
  done before (`Explains`). Then what the window's pages brought is at most the window's
  sum, by the lemma on unions (`WindowPays`). In a first run nothing comes from a
  checkpoint (`FirstRunInv`).
* **LedgerInv and DatesInv.** Two consecutive entries of the history add up because the list
  the last one was made for is the one on disk, and the one a crawl has read unless it is
  among the blind (`ReadInv`). That no other entry is missing is what the file is known to
  hold at each step: every publish that is due, recent and not lost (`Full`), in order,
  ending with the last one that is (`Ends`). For the dates, after the one fault the property allows: the map
  contradicts no published date, and between reading the last list and dating the new one,
  one of the two is at hand (`OneFaultInv`). Without a fault map and list together know
  exactly the dates and absences of what is not yet forgotten (`ExactInv`), which is why
  an asset that returns is a newcomer at `ForgetAfter` absences and not before.
* **StopInv and HonestInv.** Once a stop has waited for the last request nothing is counted
  any more, so what a snapshot begun after that has read stays so: if it is what is in the
  file, nothing is lost. A drain that timed out and a file of an earlier snapshot are
  outside the statement. That
  a ring never shows more than its total of searches is not inductive: a search is counted
  in the total first and on its day later, so the ring and the searches on their way to
  it are together no more than the total (`MemoryHonest`), and a snapshot, which reads
  the days first, holds no more than the searches it has yet to read (`SnapOK`).
* **WellFormed and ReachesAll.** The plan is a rearrangement (`RankedIs`: ranks in a total
  order are a bijection) of a concatenation of views, so what has to be shown is that no
  two of its parts have a view in common (`Apart`, `Disjoint`, `FlattenIs`): the parts
  differ in the number of their tags, or in a tag, an ordering or a filter. A checkpoint
  key gives the view away only because a slice has an ordering or a filter, never both,
  and no ordering is named like a filter (`LabelTells`). Reach then is arithmetic: a
  view that holds no more than its slice's count, or than the ceiling if the count is
  larger, lies wholly on the pages that `PagesToFetch` rounds up to (`PagesAre`).
* **SchedulerInv.** Time counts as lost only while a crawl is due, none runs and the
  loop sleeps (`NoTimeLost`); when it decides it has served its backoff, or the data is
  no older than the last failure (`BackoffServed`), which covers the case in which a
  triggered crawl succeeded in between.
* **FlightInv.** A Close under way waits for the very refresh that is running
  (`Closing`), whose channel is still open (`Numbering`); so when its wait is over no
  refresh runs, and `closed` keeps others from starting.
* **QueryInv.** Whoever is between `RLock` and `RUnlock` keeps the dataset in place, so
  what it searched, what it filled an entry with and what it waits for are of the loaded
  list (`RequestInv`); a flight in the map has a request that fills it (`FlightsInv`), so
  a swap, which nobody is within, meets none, although `reset` leaves the map alone. The
  list of the hit cache needs lemmas on sequences: moving to the front and evicting the
  back keep the keys distinct and within `max` (`MoveKeepsKeys`, `EvictKeeps`).
* **Pages.** Within one process the loaded dataset only gets newer, and a request's reads
  come before its page; so a page is never made of anything newer than what is loaded,
  and a stamp no older than the loaded dataset's time means nothing newer is. Each
  process starts in a second after everything its predecessors' pages are made of, so
  such a stamp also tells the releases apart.
* **PathsAgree.** The engine filters an ordering it computed when the list was loaded, the
  index sorts what it found; with equal keys the one falls back to the place in the list,
  the other to popularity and then to the order of indexing. These are one order because
  the list is the stable sort of the documents by popularity (`LoadedIs`, `SameOrder`);
  what is kept of an arrangement is the arrangement of what is kept; and an arrangement by
  a total order is the only one (`SameHits`). That leaves the three shortcuts of
  `searchEngine` (`EngineHitsAre`, where the prefix of the newest-first ordering is the
  only hard one), and that a page cut from an entry is the page (`CutOfCut`, which is
  where the limit on what is asked of an entry is needed).
* **PagesCoverMatches.** The first *p* pages put together are the head of the whole list, by
  induction on *p* (`HeadsAre`, `HeadsGrow`), for pages from the engine and, in
  `HitPages`, for those of a text search, of which the index drops hits whose assets
  the list has lost: filtering page by page is filtering the whole (`AreHitPages`). That the
  last page ends it is arithmetic below `MaxInt` (`StartIs`, `SliceIs`).
* **SidebarTellsTruth.** Requiring a tag leaves the matches that carry it, excluding it the
  others (`Tightened`). The fallback to any word is what could spoil that: it depends on
  how many matches all words have, and these could run out. They do not while a row's
  count is neither nothing nor all (`NarrowedAnswers`), which `Offerable` sees to.
* **LinksKeepMeaning.** Filters that were read from an address are tidy: tags known to be
  slugs, ascending, within the limits, none required and excluded (`Tidy`, `ParseIs`).
  Every link is made of tidy filters (`LinksTidy`), and what is written of tidy filters is
  read as those filters again (`PageURLIs`, `TagURLIs`), so it is canonical. `VisitorInv`
  adds that an address reached by a link or a redirect is canonical, in range and of a tag
  some asset carries, which is inductive only because a new dataset makes every open page
  a typed one. Whether it is served is up to `HasTag`, which asks `tags.json` and not the
  list: a tag's page is, unless that file lacks a tag of the list (`TagsKnown`). For the access
  log: equal narrowing keys are filters with equal matches (`NarrowingDecides`).
* **Limiter.** A bucket's tokens and what its key has spent add up to no more than burst
  and rate allow by the time of its last refill (`BucketHeld`). That time may be
  earlier than the one before it, because `allow` reads the clock first; the refill is
  then negative and the tokens may be a debt, which has to be bounded by what accrues in
  `MaxSkew`, or a sweep could forgive it. Then a key that is forgotten for being quiet
  has earned a full bucket (`QuietPaid`), provided a bucket fills within the quiet time
  less two skews: `Burst <= Rate * (Quiet + 1 - 2 * MaxSkew)`, with the defaults 20
  against 5 tokens a second for ten minutes.

Only model-checked: liveness (`IndexHeals`, `PublishedIsServed`, `SettlesCoherent`,
`BatchEnds`, `NobodyWaitsForever`, `CrawlEnds`, `OverdueIsCrawled`, `EverybodyGetsOn`,
`PublishReachesClients`), which the prover does not reach; and of `PlanSound` the part about `DiscoverTags`, which is
recursive. Every other property of the runs is proved.

## Where the code and its documents differ

One run is expected to fail: its counterexample is a behaviour of the code that a
comment of the repository excludes.

`SiteStuck` / `PublishedIsServedAlways`: `doRefresh` stats the index path
(`cache.go:423`) and opens it later (`:435`). If it is swapped in between, the cache
keeps the old identity with the new index; every later refresh tries to open the index
this process holds the lock of, times out and fails, until the next publish.

The following configurations are beside the project for the trace they give; each states
what a comment or document says, and TLC finds it violated. None is about a lasting
failure of the site.

| Configuration | Property | What happens |
|---|---|---|
| `SiteRates.cfg` | `NeverPairsOtherRates` | A refresh in the middle of a publish pairs the new index with the old rates, which `main.go:551-553` says never happens. |
| `PublisherRestored.cfg` | `RestoredBeforeRebuild` | The one-rename recovery of `storage.go:571-581` is behind the self-heal, which rebuilds first. |
| `CrawlShutdown.cfg` (`MCCrawl`) | `ShutdownKeepsProgress` | SIGTERM while a crawl is resuming replaces the checkpoint being resumed by an emptier one (`main.go:437-438`). |
| `CrawlRetry.cfg` (`MCCrawl`) | `CleanRunPasses` | A refused crawl leaves its slices marked done; the retry skips them and is refused again, though nothing fails any more. |
| `PagesMixed.cfg` | `ConfirmedIsCurrent` | A page put together while a dataset is swapped in, or whose dataset was published while the process started, is confirmed as current (`handlers.go:172-178`). |
| `QueriesTags.cfg` (`MCQueries`) | `TagLinksAreServed` | The front page links the tags of the list, `/tag` serves those of `tags.json`, which a crawl rewrites when it begins and whose loss is tolerated (`main.go:786-790`): the link of a listed tag ends in the 404 that `cache.go:230-232` keeps for "a typo or a probe". |
| `TrafficStop.cfg` | `CleanStopKeepsAll` | A snapshot the ticker began before the stop is renamed over the one written by it, and the last counts are gone, though "a clean stop never loses a count". |

Others are stated in the modules, or follow from a property's exception; adding the
property to the module's cfg shows the trace:

* `Site!StatsDescribeServed`: between `PutAssets` and `PutStats` the coverage figure is
  the previous crawl's (`main.go:584-591`).
* `Fetcher!PauseLiftsSpaced`: two fetches that had reserved slots before a pause both
  fire when it lifts (`fetcher.go:136-153` against the comment at `172-173`).
* `SingleFlight!ObservesItsRefresh`: a waiter may return the result of a later refresh
  than it joined (`cache.go:306-308` against `293-295`).
* `SingleFlight!ClosedFindsNothing`: after `Close` the front page is still answered from
  the list, which `Close` leaves in place (`cache.go:334-335` against `:363`).
* A resumed crawl counts the pages it had already collected as barren and may abandon a
  productive slice (`main.go:1213` against `docs/configuration.md:190-192`): drop
  `runs = 1` from `Crawl!AbandonedOnlyWhenSpent`.
* `Queries!RedisplayNeverCounted`: a change of order or currency on a `/tag` page is
  counted as a search, since its address bar has no query to compare with.
* `Ledger!DatesKept` with a second fault: after a failed `PutFirstSeen` the next crawl
  goes on from an old count of absences and can forget a date one crawl early.
* A tag at the view ceiling that grows between discovery and its visit is paged to the
  count the plan has, not to its end.
* The breakdown on `/stats` may stop adding up to the total once a torn snapshot has been
  restored; `TallyHonest` covers the sums that are compared.
* A probe is charged to the client's address, a page to its /64 (`limiterKey`): an IPv6
  client has a budget for each.

## What is not modelled

* When a crawl writes `tags.json` and what it reuses of it: a dataset has any tag universe.
  The clean-up of temporary files in the data directory.
* The parsing of counts and slugs from HTML; `plannedPages` and the ETA.
* The unlocked map writes of `resume` against the shutdown's copy: their torn reads are
  below the model's grain (the two-step `resume` is the coarse version), and Go's
  runtime may end the process, which the model has as a kill.
* What makes a path a probe and which header names the client; the report of a full
  limiter table; the breakdown of the traffic by route, and a request that panics, which
  the middleware does not record.
* Rendering, the sitemap, static files and the text of pages; text analysis in the index
  beyond words and quoted phrases.
* bleve, bolt, the file system and the HTTP client beyond the behaviour the code
  relies on: atomic rename, an exclusive lock per open index, `RemoveAll` that may stop
  half way, an answer or a timeout.
* HTML parsing, currency arithmetic beyond comparing prices at one set of rates,
  configuration and logging: no state.

## Plan

1. *Done*: the data directory and both processes over it; first-seen dates and history;
   single flight, fetcher, crawl, planner, scheduler, query path, engine, filters, pages,
   limiter, traffic; proofs about every safety property of their runs but the part of
   `PlanSound` named above.
2. The refinement of `Crawl` and `Scheduler` by one abstract crawl, and of `Pages` over
   `CacheRefresh`, which would replace its one-step load.
3. `tags.json`: what a crawl plans from when discovery fails.
