------------------------------ MODULE Publisher ------------------------------
(***************************************************************************)
(* The dataservice from the moment a crawl has its assets: self-heal at    *)
(* start-up, buildIndex, PublishIndex and the files written around it, one *)
(* action per system call that another process or a crash can fall         *)
(* between.  pc names the next call; job says whether a crawl or the       *)
(* self-heal is being carried through.                                     *)
(*                                                                         *)
(* Crawls are bounded by MaxCrawls, crashes and failing calls together by  *)
(* MaxTroubles.  A failing call is one the code checks the result of.      *)
(***************************************************************************)
EXTENDS DataDir

CONSTANTS MaxCrawls, MaxTroubles

ASSUME PublisherBounds ==
    MaxCrawls \in Nat /\ MaxTroubles \in Nat

VARIABLES
    pc,           \* the dataservice's next step
    job,          \* "crawl", "heal", or "none"
    gen,          \* crawl whose assets this job indexes
    rates,        \* rates snapshot this job prices the index with
    hadPrevious,  \* PublishIndex's local of that name
    crawls,       \* crawls that have reached publishing so far
    builds,       \* index directories created so far: the next one's identity
    crashes, faults

pubVars == <<pc, job, gen, rates, hadPrevious, crawls, builds, crashes, faults>>

PC == {"down", "boot", "idle", "build", "fill", "recover", "clear", "aside",
       "swap", "restore", "tidy", "rates", "assets", "stats"}

PubTypeOK ==
    /\ DirTypeOK
    /\ pc \in PC
    /\ job \in {"none", "crawl", "heal"}
    /\ gen \in Nat /\ rates \in Nat
    /\ hadPrevious \in BOOLEAN
    /\ crawls \in Nat /\ builds \in Nat
    /\ crashes \in Nat /\ faults \in Nat

PubInit ==
    /\ pc = "boot" /\ job = "none"
    /\ gen = Missing /\ rates = Missing
    /\ hadPrevious = FALSE
    /\ crawls = assetsFile
    /\ builds = 1
    /\ crashes = 0 /\ faults = 0

-----------------------------------------------------------------------------
\* fetchAndStoreAssets, or selfHealIndexFormat, returns: nil or an error, the
\* process goes back to waiting for the scheduler.
Return ==
    /\ pc' = "idle" /\ job' = "none"
    /\ gen' = Missing /\ rates' = Missing /\ hadPrevious' = FALSE
    /\ UNCHANGED <<crawls, builds, crashes>>

Goto(step) ==
    /\ pc' = step
    /\ UNCHANGED <<job, gen, rates, hadPrevious, crawls, builds, crashes>>

Trouble == crashes + faults < MaxTroubles

\* A system call fails.
Fault == Trouble /\ faults' = faults + 1
NoFault == UNCHANGED faults

-----------------------------------------------------------------------------
\* Mutant: the self-heal takes a missing index for a volume without data.
NeedsRebuildMissesAbsent == Present(published) /\ ~Usable(published)

\* indexNeedsRebuild.  A lock held by the webserver counts as openable.
NeedsRebuild == ~Usable(published)

\* selfHealIndexFormat, before the scheduler starts: nothing to do without
\* assets.json or with an openable index, otherwise rebuild from the published
\* assets and rates.
SelfHeal ==
    /\ pc = "boot"
    /\ IF assetsFile # Missing /\ NeedsRebuild
         THEN /\ pc' = "build" /\ job' = "heal"
              /\ gen' = assetsFile /\ rates' = ratesFile
         ELSE /\ pc' = "idle" /\ UNCHANGED <<job, gen, rates>>
    /\ UNCHANGED <<hadPrevious, crawls, builds, crashes, faults, dirVars>>

\* The rates publishCrawl may be given: fetched by this crawl, or the stored
\* snapshot (the fallback table when there is none).
ChooseRates(n) == {n, ratesFile}

\* Mutant: the fetched rates are stored as soon as they are chosen.
StoreRatesAtOnce ==
    /\ pc = "idle"
    /\ crawls < MaxCrawls
    /\ crawls' = crawls + 1
    /\ gen' = crawls + 1
    /\ rates' \in ChooseRates(crawls + 1)
    /\ ratesFile' = rates'
    /\ pc' = "build" /\ job' = "crawl"
    /\ UNCHANGED <<hadPrevious, builds, crashes, faults,
                   assetsFile, statsFile, published, staging, previous>>

\* A crawl passes its coverage floor.  One that fails before this changes
\* nothing here.
CrawlCollected ==
    /\ pc = "idle"
    /\ crawls < MaxCrawls
    /\ crawls' = crawls + 1
    /\ gen' = crawls + 1
    /\ rates' \in ChooseRates(crawls + 1)
    /\ pc' = "build" /\ job' = "crawl"
    /\ UNCHANGED <<hadPrevious, builds, crashes, faults, dirVars>>

\* buildIndex: clear the staging path, then bleve.New creates the directory.
CreateStaging ==
    /\ pc = "build"
    /\ \/ /\ staging' = [form |-> "broken", id |-> builds + 1, assets |-> gen, rates |-> rates]
          /\ builds' = builds + 1
          /\ pc' = "fill"
          /\ NoFault
          /\ UNCHANGED <<job, gen, rates, hadPrevious, crawls, crashes>>
       \/ /\ Fault /\ Return
          /\ staging' = NoIndex
    /\ UNCHANGED <<assetsFile, ratesFile, statsFile, published, previous>>

\* Mutant: assets.json is written with the index, before it is published.
AssetsWithIndex ==
    /\ pc = "fill"
    /\ staging' = [staging EXCEPT !.form = "scorch"]
    /\ NoFault /\ Goto("recover")
    /\ assetsFile' = gen
    /\ UNCHANGED <<ratesFile, statsFile, published, previous>>

\* buildIndex: the batches and Close put every document on disk; any failure
\* removes the half-built directory again.
FillStaging ==
    /\ pc = "fill"
    /\ \/ /\ staging' = [staging EXCEPT !.form = "scorch"]
          /\ NoFault /\ Goto("recover")
       \/ /\ Fault /\ Return
          /\ staging' = NoIndex
    /\ UNCHANGED <<assetsFile, ratesFile, statsFile, published, previous>>
-----------------------------------------------------------------------------
(* PublishIndex.                                                           *)

\* Mutant: no recovery of a publish that was interrupted.
SkipRecovery ==
    /\ pc = "recover" /\ NoFault /\ Goto("clear")
    /\ UNCHANGED dirVars

\* A crash between the two renames left the published path empty: put the
\* index moved aside back before anything removes it.
RecoverInterrupted ==
    /\ pc = "recover"
    /\ \/ /\ NoFault /\ Goto("clear")
          /\ IF ~Present(published) /\ Present(previous)
               THEN published' = previous /\ previous' = NoIndex
               ELSE UNCHANGED <<published, previous>>
       \/ /\ ~Present(published) /\ Present(previous)
          /\ Fault /\ Return
          /\ UNCHANGED <<published, previous>>
    /\ UNCHANGED <<assetsFile, ratesFile, statsFile, staging>>

\* Remove a leftover that would block the rename; an error ends the publish,
\* and may leave the leftover half removed.
ClearPrevious ==
    /\ pc = "clear"
    /\ \/ NoFault /\ Goto("aside") /\ previous' = NoIndex
       \/ Fault /\ Return /\ previous' \in {previous, Damaged(previous)}
    /\ UNCHANGED <<assetsFile, ratesFile, statsFile, published, staging>>

MoveAside ==
    /\ pc = "aside"
    /\ \/ /\ Present(published)
          /\ NoFault
          /\ previous' = published /\ published' = NoIndex
          /\ hadPrevious' = TRUE /\ pc' = "swap"
          /\ UNCHANGED <<job, gen, rates, crawls, builds, crashes>>
       \/ /\ ~Present(published)
          /\ NoFault
          /\ hadPrevious' = FALSE /\ pc' = "swap"
          /\ UNCHANGED <<job, gen, rates, crawls, builds, crashes, published, previous>>
       \/ /\ Present(published) /\ Fault /\ Return
          /\ UNCHANGED <<published, previous>>
    /\ UNCHANGED <<assetsFile, ratesFile, statsFile, staging>>

SwapIn ==
    /\ pc = "swap"
    /\ \/ /\ NoFault /\ Goto("tidy")
          /\ published' = staging /\ staging' = NoIndex
       \/ /\ Fault
          /\ IF hadPrevious THEN Goto("restore") ELSE Return
          /\ UNCHANGED <<published, staging>>
    /\ UNCHANGED <<assetsFile, ratesFile, statsFile, previous>>

\* The second rename failed: the old index goes back, or the attempt is only
\* logged.  The publish has failed either way.
Restore ==
    /\ pc = "restore"
    /\ Return
    /\ \/ NoFault /\ published' = previous /\ previous' = NoIndex
       \/ Fault /\ UNCHANGED <<published, previous>>
    /\ UNCHANGED <<assetsFile, ratesFile, statsFile, staging>>

\* Remove the old index; a failure is a warning.  The self-heal is finished
\* here, a crawl goes on to its files.
RemovePrevious ==
    /\ pc = "tidy"
    /\ IF job = "heal" THEN Return ELSE Goto("rates")
    /\ \/ NoFault /\ previous' = IF hadPrevious THEN NoIndex ELSE previous
       \/ hadPrevious /\ Fault /\ previous' \in {previous, Damaged(previous)}
    /\ UNCHANGED <<assetsFile, ratesFile, statsFile, published, staging>>
-----------------------------------------------------------------------------
(* publishCrawl and recordCrawlCompletion, after the index is live.        *)

\* PutRates: a failure is a warning and the publish goes on.
PutRates ==
    /\ pc = "rates" /\ Goto("assets")
    /\ \/ NoFault /\ ratesFile' = rates
       \/ Fault /\ UNCHANGED ratesFile
    /\ UNCHANGED <<assetsFile, statsFile, published, staging, previous>>

\* PutAssets: a failure fails the crawl.
PutAssets ==
    /\ pc = "assets"
    /\ \/ NoFault /\ Goto("stats") /\ assetsFile' = gen
       \/ Fault /\ Return /\ UNCHANGED assetsFile
    /\ UNCHANGED <<ratesFile, statsFile, published, staging, previous>>

\* PutStats: a failure is logged; the crawl has succeeded.
PutStats ==
    /\ pc = "stats" /\ Return
    /\ \/ NoFault /\ statsFile' = gen
       \/ Fault /\ UNCHANGED statsFile
    /\ UNCHANGED <<assetsFile, ratesFile, published, staging, previous>>
-----------------------------------------------------------------------------
\* The process is killed.  A kill inside os.RemoveAll leaves the directory it
\* was removing damaged.
Crash ==
    /\ pc # "down" /\ Trouble
    /\ pc' = "down" /\ job' = "none" /\ crashes' = crashes + 1
    /\ gen' = Missing /\ rates' = Missing /\ hadPrevious' = FALSE
    /\ previous' \in {previous} \cup
          IF pc \in {"clear", "tidy"} THEN {Damaged(previous)} ELSE {}
    /\ UNCHANGED <<crawls, builds, faults,
                   assetsFile, ratesFile, statsFile, published, staging>>

\* The container runtime restarts it (restart: unless-stopped).
Restart ==
    /\ pc = "down"
    /\ pc' = "boot"
    /\ UNCHANGED <<job, gen, rates, hadPrevious, crawls, builds, crashes, faults, dirVars>>

PublishStep ==
    \/ SelfHeal \/ CreateStaging \/ FillStaging
    \/ RecoverInterrupted \/ ClearPrevious \/ MoveAside \/ SwapIn \/ Restore
    \/ RemovePrevious \/ PutRates \/ PutAssets \/ PutStats

PubNext == PublishStep \/ CrawlCollected \/ Crash \/ Restart

PubAllVars == <<dirVars, pubVars>>

PublisherInit == DirInit /\ PubInit

PubSpec == PublisherInit /\ [][PubNext]_PubAllVars

\* A running process takes its next step, and the runtime restarts a dead
\* one.  Nothing makes a crawl succeed, a call fail or the process crash.
PubFairness == WF_PubAllVars(PublishStep) /\ WF_PubAllVars(Restart)

PubFairSpec == PubSpec /\ PubFairness
-----------------------------------------------------------------------------
(* Properties.                                                             *)

\* The volume holds an index some process could open.
HasUsableIndex == Usable(published) \/ Usable(previous)

\* PublishIndex moves the live index aside, deletes and replaces it: whatever
\* fails or dies in between, a volume that held a usable index still holds one
\* (the reason for the three renames, the recovery and the restore).
IndexNeverLost == [][HasUsableIndex => HasUsableIndex']_PubAllVars

\* The order of publishCrawl, index before assets.json: the index a reader
\* finds is never older than the asset list, across failed publishes, crashes,
\* the recovery of an old index and the self-heal's rebuild.
AssetsNeverAhead == Usable(DiskIndex) => assetsFile <= DiskIndex.assets

\* The order of publishCrawl, index before rates.json: rates.json is never
\* newer than the snapshot the index on disk was priced with, so a publish
\* that fails does not leave the old index with the new rates.
RatesNeverAhead == Usable(DiskIndex) => ratesFile <= DiskIndex.rates

\* The files a publish writes one by one keep their order.
FilesInOrder == AssetsNeverAhead /\ RatesNeverAhead

\* The strengthening that makes the three properties above inductive.

\* Crawl numbers only grow, so a new crawl is newer than every file.
NumbersBounded ==
    /\ assetsFile <= crawls /\ ratesFile <= crawls
    /\ gen <= crawls /\ rates <= crawls

\* What the job carries is at least as new as the files it will replace.
JobNotOlder == job # "none" => assetsFile <= gen /\ ratesFile <= rates

\* The directory being published is the one this job built.
StagedByJob ==
    /\ job # "none" <=> pc \notin {"down", "boot", "idle"}
    /\ pc \in {"fill", "recover", "clear", "aside", "swap"} =>
          Present(staging) /\ staging.assets = gen /\ staging.rates = rates
    /\ pc \in {"recover", "clear", "aside", "swap"} => Usable(staging)

\* The step-by-step whereabouts of the index PublishIndex replaces.
PublishOrder ==
    /\ Present(published) /\ Usable(previous) => Usable(published)
    /\ pc = "clear" /\ Present(previous) => Present(published)
    /\ pc = "aside" => ~Present(previous)
    /\ pc \in {"swap", "restore"} => ~Present(published) /\ (hadPrevious <=> Present(previous))
    /\ pc = "restore" => hadPrevious
    /\ pc \in {"tidy", "rates", "assets", "stats"} =>
          Usable(published) /\ published.assets = gen /\ published.rates = rates

\* The inductive invariant: what each step of a publish may rely on when the
\* process can die, and a call can fail, before every one of them.
PubInv ==
    /\ PubTypeOK
    /\ NumbersBounded /\ JobNotOlder /\ StagedByJob /\ PublishOrder
    /\ AssetsNeverAhead /\ RatesNeverAhead

\* The self-heal and the interrupted-publish recovery together: a volume with
\* an asset list and no openable index gets one back, without a new crawl, as
\* long as system calls succeed.
IndexHeals ==
    (assetsFile # Missing /\ ~Usable(published) /\ pc = "boot")
        ~> (Usable(published) \/ faults > 0)

\* storage.go:572-581 of PublishIndex: an index moved aside by an interrupted
\* publish is put back by "a single rename" instead of spending minutes on a
\* rebuild with the site down.
RestoredBeforeRebuild ==
    ~(job = "heal" /\ pc = "fill" /\ ~Present(published) /\ Usable(previous))
==============================================================================
