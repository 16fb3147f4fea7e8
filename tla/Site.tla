--------------------------------- MODULE Site ---------------------------------
(***************************************************************************)
(* The two processes over one data directory: every interleaving of the    *)
(* dataservice's publish, its crashes and its self-heal with the           *)
(* webserver's refreshes and restarts.  There is no channel between them   *)
(* but the files.                                                          *)
(***************************************************************************)
EXTENDS Publisher, CacheRefresh

siteVars == <<dirVars, pubVars, webVars>>

SiteInit == DirInit /\ PubInit /\ WebInit

SiteNext ==
    \/ PubNext /\ UNCHANGED webVars
    \/ WebNext /\ UNCHANGED <<dirVars, pubVars>>

SiteSpec == SiteInit /\ [][SiteNext]_siteVars

\* Besides PubFairness: a refresh that has started goes on, the throttle runs
\* out, the retry ticker ticks, and visitors keep sending requests.
SiteFairness ==
    /\ WF_siteVars(PublishStep /\ UNCHANGED webVars)
    /\ WF_siteVars(Restart /\ UNCHANGED webVars)
    /\ WF_siteVars(RefreshStep /\ UNCHANGED <<dirVars, pubVars>>)
    /\ WF_siteVars(RequestChecks /\ UNCHANGED <<dirVars, pubVars>>)
    /\ WF_siteVars(ThrottleElapses /\ UNCHANGED <<dirVars, pubVars>>)

SiteFairSpec == SiteSpec /\ SiteFairness

SiteTypeOK == PubTypeOK /\ WebTypeOK
-----------------------------------------------------------------------------
(* Properties.                                                             *)

\* publishCrawl's reason for publishing the index before assets.json: whatever
\* the webserver reads while the dataservice publishes, crashes, recovers an
\* old index or rebuilds one, it never answers for an asset list with an
\* index older than that list.
IndexCoversList == live.data <= live.index.assets

\* The claimed publication time (Last-Modified, the staleness check) is never
\* ahead of the list behind it: doRefresh reads the time before the list, so
\* a publish in between is noticed again instead of being missed for good.
TimeNeverAheadOfList == live.updated <= live.data

\* The strengthening that makes the two inductive.

\* The directory at the published path is only ever replaced by a newer build.
IdentitiesGrow ==
    /\ DiskIndex.id <= builds
    /\ pc \in {"fill", "recover", "clear", "aside", "swap"} =>
          DiskIndex.id < staging.id /\ staging.id <= builds

\* An index was opened no earlier than its directory was stat'ed, and is no
\* newer than what is on disk: so when stat finds the directory of info again,
\* the open index is that directory's, which is why it may be kept.
OpenedInOrder(dataset) ==
    Present(dataset.index) =>
        /\ Usable(dataset.index)
        /\ dataset.info <= dataset.index.id
        /\ Present(DiskIndex) /\ dataset.index.id <= DiskIndex.id
        /\ dataset.index.id = DiskIndex.id => dataset.index = DiskIndex

LoadedInv ==
    /\ live.updated <= live.data /\ live.data <= assetsFile
    /\ live.data <= live.index.assets
    /\ OpenedInOrder(live)

\* What a refresh has established by each of its reads.
ReadingInv ==
    /\ wpc \notin {"idle", "time"} => next.updated <= assetsFile
    /\ wpc \notin {"idle", "time", "assets"} =>
          /\ next.updated <= next.data
          /\ live.data <= next.data /\ next.data <= assetsFile
    /\ wpc = "open" => Present(DiskIndex) /\ next.info <= DiskIndex.id
    /\ wpc \in {"rates", "stats", "swap"} =>
          Present(next.index) /\ OpenedInOrder(next) /\ next.data <= next.index.assets

\* The inductive invariant of the two processes: what a refresh may conclude
\* from reads made at different moments of a publish.
SiteInv == PubInv /\ WebTypeOK /\ IdentitiesGrow /\ LoadedInv /\ ReadingInv

\* The abstract promise, with the loaded dataset for what is served.
Promise == INSTANCE CatalogPromise WITH
    catalog <- assetsFile, served <- live.data, searchable <- live.index.assets

\* The two processes implement it.
ImplementsPromise == Promise!Spec

\* The webserver has open the published index under another directory's stat:
\* the index was replaced between doRefresh's stat and its open.  Every later
\* refresh then waits for its own lock and fails, until the next publish.
StatMissedSwap == LockedBySelf /\ live.info # published.id

\* cache.go:418-421: as long as system calls succeed a published list is noticed
\* and served, across crashes and restarts; the only way to stay behind is
\* StatMissedSwap.
PublishedIsServed ==
    \A g \in 1..MaxCrawls :
        assetsFile = g ~> (live.data >= g \/ StatMissedSwap \/ faults > 0)

\* PutAssets' doc comment: its timestamp is what the webserver watches to decide
\* a new dataset is ready.  Without the exception it is not enough.
PublishedIsServedAlways ==
    \A g \in 1..MaxCrawls : assetsFile = g ~> live.data >= g

\* The loaded list, index and rates are one crawl's.
Coherent == live.index.assets = live.data /\ live.rates = live.index.rates

\* Without crashes or failing calls every mixture a refresh picked up in the
\* middle of a publish is replaced: once publishing stops, the webserver
\* settles on the last list, its own index and that index's rates.
SettlesCoherent ==
    <>[](StatMissedSwap \/ crashes + faults > 0 \/ (live.data = assetsFile /\ Coherent))

\* main.go:551-553: the webserver "never pairs an index with another crawl's
\* snapshot".
NeverPairsOtherRates == live.rates = live.index.rates

\* main.go:584-585: the coverage figure "always describes the dataset actually
\* being served" (or is absent).
StatsDescribeServed == live.stats \in {Missing, live.data}
==============================================================================
