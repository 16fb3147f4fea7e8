----------------------------- MODULE CacheRefresh -----------------------------
(***************************************************************************)
(* The webserver's loaded dataset and how it is replaced: IsCacheExpired,  *)
(* EnsureFresh, the initial-load loop and doRefresh (internal/cache), with *)
(* one action per read of the data directory, since the dataservice may    *)
(* publish between any two of them.  RefreshDataCache is single-flight     *)
(* (module SingleFlight), so there is one refresh at a time here.          *)
(***************************************************************************)
EXTENDS DataDir

CONSTANT MaxRestarts   \* bound: how often the webserver is restarted

ASSUME RefreshBounds == MaxRestarts \in Nat

VARIABLES
    wpc,        \* the webserver's refresh: its next read, or "idle"
    live,       \* the dataset requests are answered from
    next,       \* the dataset the running refresh has read so far
    byLoop,     \* the running refresh was started by the initial-load loop
    retrying,   \* the initial-load loop has not seen a refresh succeed
    throttled,  \* a staleness check was made less than expiryCheckTTL ago
    restarts

webVars == <<wpc, live, next, byLoop, retrying, throttled, restarts>>

\* What a Cache holds: dataUpdatedTime, data, index, indexInfo (the identity
\* of the directory that was stat'ed), rates and stats.
Dataset == [updated: Nat, data: Nat, index: IndexDir, info: Nat, rates: Nat, stats: Nat]

NotLoaded == [updated |-> Missing, data |-> Missing, index |-> NoIndex,
              info |-> Missing, rates |-> Missing, stats |-> Missing]

WPC == {"idle", "time", "assets", "stat", "open", "rates", "stats", "swap"}

WebTypeOK ==
    /\ wpc \in WPC
    /\ live \in Dataset /\ next \in Dataset
    /\ byLoop \in BOOLEAN /\ retrying \in BOOLEAN /\ throttled \in BOOLEAN
    /\ restarts \in Nat

WebInit ==
    /\ wpc = "idle"
    /\ live = NotLoaded /\ next = NotLoaded
    /\ byLoop = FALSE /\ retrying = TRUE /\ throttled = FALSE
    /\ restarts = 0
-----------------------------------------------------------------------------
\* IsCacheExpired's comparison of the loaded time with assets.json's.
StorageIsNewer == live.updated < assetsFile

Begin(loop) ==
    /\ wpc' = "time" /\ byLoop' = loop
    /\ UNCHANGED <<live, next, retrying, restarts>>

\* A request calls EnsureFresh.  A cold cache is always expired, ahead of the
\* throttle; otherwise the check is made at most once per expiryCheckTTL.
RequestChecks ==
    /\ wpc = "idle"
    /\ \/ live.updated = Missing /\ Begin(FALSE) /\ UNCHANGED throttled
       \/ /\ live.updated # Missing /\ ~throttled
          /\ throttled' = TRUE
          /\ IF StorageIsNewer
               THEN Begin(FALSE)
               ELSE UNCHANGED <<wpc, live, next, byLoop, retrying, restarts>>

\* initializeCache: the load at start-up, and its retry every 15 seconds until
\* a refresh of its own succeeds, whatever requests have loaded meanwhile.
LoopRetries ==
    /\ wpc = "idle" /\ retrying
    /\ Begin(TRUE) /\ UNCHANGED throttled

ThrottleElapses ==
    /\ throttled
    /\ throttled' = FALSE
    /\ UNCHANGED <<wpc, live, next, byLoop, retrying, restarts>>
-----------------------------------------------------------------------------
(* doRefresh.                                                              *)

Advance(step, dataset) ==
    /\ wpc' = step /\ next' = dataset
    /\ UNCHANGED <<live, byLoop, retrying, throttled, restarts>>

\* Any error leaves the loaded dataset untouched.
Fail == Advance("idle", NotLoaded)

ReadUpdateTime ==
    /\ wpc = "time"
    /\ IF assetsFile = Missing
         THEN Fail
         ELSE Advance("assets", [next EXCEPT !.updated = assetsFile])

ReadAssets ==
    /\ wpc = "assets"
    /\ Advance("stat", [next EXCEPT !.data = assetsFile])

\* Mutant: an index that is open is kept, whichever directory it is.
KeepAnyIndex == Present(live.index)

\* Mutant: the index is opened again on every refresh.
AlwaysReopen == FALSE

\* os.SameFile on the stat of the open index's directory and this one.
AlreadyOpen == Present(live.index) /\ live.info = published.id

\* The stat; the index already open is kept rather than opened again.
StatIndex ==
    /\ wpc = "stat"
    /\ \/ ~Present(published) /\ Fail
       \/ /\ Present(published) /\ AlreadyOpen
          /\ Advance("rates", [next EXCEPT !.info = published.id, !.index = live.index])
       \/ /\ Present(published) /\ ~AlreadyOpen
          /\ Advance("open", [next EXCEPT !.info = published.id])

\* This process holds the bolt lock of the index it has open, so opening that
\* directory a second time waits for the lock until the timeout.
LockedBySelf == Present(live.index) /\ live.index.id = published.id

\* The open resolves the path again, after the stat.
OpenIndex ==
    /\ wpc = "open"
    /\ IF Usable(published) /\ ~LockedBySelf
         THEN Advance("rates", [next EXCEPT !.index = published])
         ELSE Fail

\* Mutant: the list is read after the index is opened.
ListAfterIndex ==
    /\ wpc = "rates"
    /\ Advance("stats", [next EXCEPT !.rates = ratesFile, !.data = assetsFile])

ReadRates ==
    /\ wpc = "rates"
    /\ Advance("stats", [next EXCEPT !.rates = ratesFile])

\* Mutant: the update time is asked for at the end of the refresh.
TimeReadLast ==
    /\ wpc = "stats"
    /\ Advance("swap", [next EXCEPT !.stats = statsFile, !.updated = assetsFile])

ReadStats ==
    /\ wpc = "stats"
    /\ Advance("swap", [next EXCEPT !.stats = statsFile])

\* The swap under the write lock.  The loop stops when its own refresh
\* succeeds; it may also have joined one a request started.
Swap ==
    /\ wpc = "swap"
    /\ live' = next /\ next' = NotLoaded
    /\ wpc' = "idle"
    /\ retrying' \in IF byLoop THEN {FALSE} ELSE {FALSE, retrying}
    /\ byLoop' = FALSE
    /\ UNCHANGED <<throttled, restarts>>

RefreshStep ==
    \/ ReadUpdateTime \/ ReadAssets \/ StatIndex \/ OpenIndex
    \/ ReadRates \/ ReadStats \/ Swap

\* The webserver is stopped or killed, and restarted.
WebRestart ==
    /\ restarts < MaxRestarts
    /\ restarts' = restarts + 1
    /\ wpc' = "idle" /\ live' = NotLoaded /\ next' = NotLoaded
    /\ byLoop' = FALSE /\ retrying' = TRUE /\ throttled' = FALSE

WebNext == RefreshStep \/ RequestChecks \/ LoopRetries \/ ThrottleElapses \/ WebRestart
==============================================================================
