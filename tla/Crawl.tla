--------------------------------- MODULE Crawl ---------------------------------
(***************************************************************************)
(* The dataservice's crawl of itch.io and its checkpoint: the slices       *)
(* walked in plan order, the concurrent page fetches of a batch, the rule  *)
(* that abandons a slice, the copy and the write of a checkpoint, the      *)
(* coverage gate, and the next run's resume after a shutdown, a kill or a  *)
(* refused publish.  Publishing itself is module Publisher, a page fetch   *)
(* module Fetcher; assets are only names here, without tags and ranks.     *)
(***************************************************************************)
EXTENDS Integers, Sequences, FiniteSets, FiniteSetsExt, SequencesExt

CONSTANTS
    Plan,          \* PlanSlices' result: a sequence of slices
    Malformed,     \* slices whose Valid() is false
    InFull,        \* the root view and the slices with PageInFull
    Listing,       \* itch.io: the pages of each slice's view, each a set of assets
    PageBudget,    \* page budget of each slice
    Batch,         \* maxConcurrentRequests
    MinYield,      \* new assets a full window needs: minYield of each of its pages
    Catalogs,      \* the sizes GetAssetCount may report
    Target, Floor, \* coverageTarget and coverageFloor, in percent
    MaxPages,      \* cfg.maxPages, 0 for no limit
    MaxRuns, MaxFailures, MaxFaults, MaxStops
        \* bounds: crawls, failed pages, failed writes, shutdowns and kills

ASSUME CrawlBounds ==
    /\ Batch \in Nat \ {0} /\ {MinYield, Target, Floor} \subseteq Nat
    /\ {MaxPages, MaxRuns, MaxFailures, MaxFaults, MaxStops} \subseteq Nat

VARIABLES
    phase,       \* where the crawl's goroutine is
    position,    \* index in Plan of the current slice
    start,       \* first page of the current batch
    pending,     \* pages of the batch still being fetched
    perPage,     \* new assets of each page of the batch
    exhausted,   \* a page of the batch was past the view's end
    recentYield, \* the trailing window of yields
    assets, doneSlices, totalAssets, pagesFetched,   \* the crawler's fields
    due,         \* checkpointInterval has passed since lastCheckpoint
    copy,        \* the checkpoint the crawl resumes from, or is about to write
    final,       \* the copy a shutdown is about to write, or has written
    process,     \* "up", "stopping" or "stopped" by a signal, or "down"
    checkpoint,  \* checkpoint.json
    old,         \* it is older than checkpointMaxAge
    clean,       \* no page fetch of this run has failed
    runs, failures, faults, stops

crawlVars == <<phase, position, start, pending, perPage, exhausted, recentYield>>
crawlerVars == <<assets, doneSlices, totalAssets, pagesFetched>>
diskVars == <<checkpoint, old>>
counters == <<runs, failures, faults, stops>>
vars == <<crawlVars, crawlerVars, due, copy, final, process, diskVars, clean, counters>>

Slices == Range(Plan)

\* A plan and views of finitely many pages, each with finitely many assets.
ASSUME CrawlInputs ==
    /\ Plan \in Seq(Slices) /\ Catalogs \subseteq Nat
    /\ \A s \in Slices :
          /\ PageBudget[s] \in Nat
          /\ Listing[s] \in Seq(Range(Listing[s]))
          /\ \A page \in Range(Listing[s]) : IsFiniteSet(page)

Listed == UNION {UNION Range(Listing[s]) : s \in Slices}

Checkpoints == [assets: SUBSET Listed, done: SUBSET Slices, total: Nat]
NoCheckpoint == [assets |-> {}, done |-> {}, total |-> 0]
Snapshot == [assets |-> assets, done |-> doneSlices, total |-> totalAssets]

Phases == {"idle", "resume", "resume slices", "loop", "batch", "fetch", "judge", "mark", "copy", "write",
           "gate", "delete"}

TypeOK ==
    /\ phase \in Phases /\ process \in {"up", "stopping", "stopped", "down"}
    /\ position \in Nat /\ start \in Nat /\ pending \subseteq Nat
    /\ recentYield \in Seq(Nat) /\ Len(recentYield) <= 2 * Batch
    /\ exhausted \in BOOLEAN /\ due \in BOOLEAN /\ old \in BOOLEAN /\ clean \in BOOLEAN
    /\ assets \subseteq Listed /\ doneSlices \subseteq Slices
    /\ totalAssets \in Nat /\ pagesFetched \in Nat
    /\ {checkpoint, copy, final} \subseteq Checkpoints

Init ==
    /\ phase = "idle" /\ process = "up"
    /\ position = 1 /\ start = 1 /\ pending = {} /\ perPage = <<>>
    /\ exhausted = FALSE /\ recentYield = <<>>
    /\ assets = {} /\ doneSlices = {} /\ totalAssets = 0 /\ pagesFetched = 0
    /\ due = TRUE /\ old = FALSE /\ clean = TRUE
    /\ copy = NoCheckpoint /\ final = NoCheckpoint /\ checkpoint = NoCheckpoint
    /\ runs = 0 /\ failures = 0 /\ faults = 0 /\ stops = 0
-----------------------------------------------------------------------------
Running == process # "down"
At(here) == Running /\ phase = here

\* The checkpoint resume accepts: young enough, and of the same catalog size.
Resumable(total) == checkpoint # NoCheckpoint /\ ~old /\ checkpoint.total = total

\* A crawl has the catalog's size and its plan; its crawler, still empty, is
\* made known to the shutdown handler.  One that fails before changes nothing.
StartCrawl ==
    /\ At("idle") /\ process = "up" /\ runs < MaxRuns
    /\ runs' = runs + 1
    /\ totalAssets' \in Catalogs
    /\ phase' = "resume"
    /\ UNCHANGED <<position, start, pending, perPage, exhausted, recentYield, assets,
                   doneSlices, pagesFetched, due, copy, final, process, diskVars, clean,
                   failures, faults, stops>>

\* resume, which takes no lock: first the assets, then the slices to skip.
ResumeAssets ==
    /\ At("resume")
    /\ \/ /\ Resumable(totalAssets) /\ assets' = checkpoint.assets
          /\ copy' = checkpoint /\ phase' = "resume slices"
       \/ /\ ~Resumable(totalAssets) /\ phase' = "loop" /\ UNCHANGED <<assets, copy>>
    /\ UNCHANGED <<position, start, pending, perPage, exhausted, recentYield, doneSlices,
                   totalAssets, pagesFetched, due, final, process, diskVars, clean,
                   counters>>

\* From the checkpoint read above, whatever a shutdown has written since.
ResumeSlices ==
    /\ At("resume slices")
    /\ doneSlices' = copy.done /\ copy' = NoCheckpoint
    /\ phase' = "loop"
    /\ UNCHANGED <<position, start, pending, perPage, exhausted, recentYield, assets,
                   totalAssets, pagesFetched, due, final, process, diskVars, clean,
                   counters>>

Reached(found, total, percent) == 100 * Cardinality(found) >= percent * total

\* done(): the page budget is used up, or the coverage target reached.
CrawlDone ==
    \/ MaxPages > 0 /\ pagesFetched >= MaxPages
    \/ Reached(assets, totalAssets, Target)

Slice == Plan[position]

\* Mutant: a slice is marked done when it is started.
MarkOnStart ==
    /\ At("loop") /\ ~CrawlDone /\ position <= Len(Plan)
    /\ IF Slice \in Malformed \cup doneSlices
         THEN position' = position + 1 /\ UNCHANGED <<phase, start, recentYield, doneSlices>>
         ELSE /\ phase' = "batch" /\ start' = 1 /\ recentYield' = <<>>
              /\ doneSlices' = doneSlices \cup {Slice} /\ UNCHANGED position
    /\ UNCHANGED <<pending, perPage, exhausted, assets, totalAssets, pagesFetched, due,
                   copy, final, process, diskVars, clean, counters>>

\* run's loop: stop, skip a malformed or finished slice, or start one.
NextSlice ==
    /\ At("loop")
    /\ \/ /\ CrawlDone \/ position > Len(Plan)
          /\ phase' = "gate" /\ UNCHANGED <<position, start, recentYield>>
       \/ /\ ~CrawlDone /\ position <= Len(Plan)
          /\ Slice \in Malformed \cup doneSlices
          /\ position' = position + 1 /\ UNCHANGED <<phase, start, recentYield>>
       \/ /\ ~CrawlDone /\ position <= Len(Plan)
          /\ Slice \notin Malformed \cup doneSlices
          /\ phase' = "batch" /\ start' = 1 /\ recentYield' = <<>>
          /\ UNCHANGED position
    /\ UNCHANGED <<pending, perPage, exhausted, crawlerVars, due, copy, final,
                   process, diskVars, clean, counters>>

LastOfBatch == Min({start + Batch - 1, PageBudget[Slice]})

\* runSlice's loop: the slice ends with its budget or with the crawl's.
StartBatch ==
    /\ At("batch")
    /\ \/ /\ start > PageBudget[Slice] \/ CrawlDone
          /\ phase' = "mark" /\ UNCHANGED <<pending, perPage, exhausted>>
       \/ /\ start <= PageBudget[Slice] /\ ~CrawlDone
          /\ phase' = "fetch"
          /\ pending' = start..LastOfBatch
          /\ perPage' = [p \in pending' |-> 0]
          /\ exhausted' = FALSE
    /\ UNCHANGED <<position, start, recentYield, crawlerVars, due, copy, final,
                   process, diskVars, clean, counters>>

\* One goroutine of fetchPages ends: a 404 past the end, a page recorded, or a
\* page given up after its retries.
FetchPage ==
    /\ At("fetch")
    /\ \E p \in pending :
          /\ pending' = pending \ {p}
          /\ \/ /\ p > Len(Listing[Slice])
                /\ exhausted' = TRUE
                /\ UNCHANGED <<assets, perPage, clean, failures>>
             \/ /\ p <= Len(Listing[Slice])
                /\ perPage' = [perPage EXCEPT ![p] = Cardinality(Listing[Slice][p] \ assets)]
                /\ assets' = assets \cup Listing[Slice][p]
                /\ UNCHANGED <<exhausted, clean, failures>>
             \/ /\ failures < MaxFailures
                /\ failures' = failures + 1 /\ clean' = FALSE
                /\ UNCHANGED <<exhausted, assets, perPage>>
    /\ pagesFetched' = pagesFetched + 1
    /\ UNCHANGED <<phase, position, start, recentYield, doneSlices, totalAssets,
                   due, copy, final, process, diskVars, runs, faults, stops>>

\* Mutant: the batch waits for a yield from every page, a page past the end too.
WaitForEveryYield ==
    /\ At("fetch") /\ pending = {} /\ ~exhausted
    /\ recentYield' = [i \in 1..Cardinality(DOMAIN perPage) |-> perPage[start + i - 1]]
    /\ phase' = "judge"
    /\ UNCHANGED <<position, start, pending, perPage, exhausted, crawlerVars, due,
                   copy, final, process, diskVars, clean, counters>>

\* wg.Wait returns: the batch's yields, in page order, join the window.
EndBatch ==
    /\ At("fetch") /\ pending = {}
    /\ LET pages == [i \in 1..Cardinality(DOMAIN perPage) |-> perPage[start + i - 1]]
           all   == recentYield \o pages
       IN  recentYield' = SubSeq(all, Max({1, Len(all) - 2 * Batch + 1}), Len(all))
    /\ phase' = "judge"
    /\ UNCHANGED <<position, start, pending, perPage, exhausted, crawlerVars, due,
                   copy, final, process, diskVars, clean, counters>>

Total(yields) == FoldSeq(+, 0, yields)

\* Mutant: a slice is judged before its window is full.
SpentOnAnySample == Total(recentYield) < MinYield

\* sliceSpent: the window is full and does not pay.
SliceSpent == Len(recentYield) = 2 * Batch /\ Total(recentYield) < MinYield

Judge ==
    /\ At("judge")
    /\ \/ /\ exhausted \/ (Slice \notin InFull /\ SliceSpent)
          /\ phase' = "mark" /\ UNCHANGED start
       \/ /\ ~exhausted /\ (Slice \in InFull \/ ~SliceSpent)
          /\ phase' = "batch" /\ start' = start + Batch
    /\ UNCHANGED <<position, pending, perPage, exhausted, recentYield, crawlerVars,
                   due, copy, final, process, diskVars, clean, counters>>

\* runSlice has returned, for whatever reason: the slice counts as done.
MarkDone ==
    /\ At("mark")
    /\ doneSlices' = doneSlices \cup {Slice}
    /\ phase' = "copy"
    /\ UNCHANGED <<position, start, pending, perPage, exhausted, recentYield, assets,
                   totalAssets, pagesFetched, due, copy, final, process, diskVars,
                   clean, counters>>
-----------------------------------------------------------------------------
(* checkpoint(false) after a slice, checkpoint(true) at a shutdown.        *)

\* Under the crawler's lock: nothing to write yet, or a copy of everything.
CopyCheckpoint ==
    /\ At("copy")
    /\ \/ /\ due /\ copy' = Snapshot /\ due' = FALSE
          /\ phase' = "write" /\ UNCHANGED position
       \/ /\ ~due /\ phase' = "loop" /\ position' = position + 1
          /\ UNCHANGED <<copy, due>>
    /\ UNCHANGED <<start, pending, perPage, exhausted, recentYield, crawlerVars,
                   final, process, diskVars, clean, counters>>

Put(cp) == checkpoint' = cp /\ old' = FALSE

Fault == faults < MaxFaults /\ faults' = faults + 1 /\ UNCHANGED diskVars

\* Mutant: the copy is written in the background while the crawl goes on.
WriteInBackground ==
    /\ Running
    /\ \/ /\ phase = "write" /\ phase' = "loop" /\ position' = position + 1
          /\ UNCHANGED <<copy, diskVars>>
       \/ /\ phase # "write" /\ copy # NoCheckpoint
          /\ Put(copy) /\ copy' = NoCheckpoint
          /\ UNCHANGED <<phase, position>>
    /\ UNCHANGED <<start, pending, perPage, exhausted, recentYield, crawlerVars,
                   due, final, process, clean, runs, failures, faults, stops>>

\* PutCheckpoint, without the lock; a failure is only logged.
WriteCheckpoint ==
    /\ At("write")
    /\ \/ Put(copy) /\ UNCHANGED faults
       \/ Fault
    /\ copy' = NoCheckpoint
    /\ phase' = "loop" /\ position' = position + 1
    /\ UNCHANGED <<start, pending, perPage, exhausted, recentYield, crawlerVars,
                   due, final, process, clean, runs, failures, stops>>

\* checkpointInterval is far longer than a shutdown takes.
CheckpointFallsDue ==
    /\ process = "up" /\ phase # "idle" /\ ~due
    /\ due' = TRUE
    /\ UNCHANGED <<crawlVars, crawlerVars, copy, final, process, diskVars, clean, counters>>

CheckpointAges ==
    /\ checkpoint # NoCheckpoint /\ ~old /\ phase = "idle"
    /\ old' = TRUE
    /\ UNCHANGED <<crawlVars, crawlerVars, due, copy, final, process, checkpoint, clean, counters>>
-----------------------------------------------------------------------------
\* The crawler is dropped and the scheduler, or /trigger-fetch, may start over.
Finish ==
    /\ phase' = "idle" /\ position' = 1 /\ start' = 1 /\ pending' = {}
    /\ perPage' = <<>> /\ exhausted' = FALSE /\ recentYield' = <<>>
    /\ assets' = {} /\ doneSlices' = {} /\ totalAssets' = 0 /\ pagesFetched' = 0
    /\ copy' = NoCheckpoint /\ due' = TRUE /\ clean' = TRUE

PassesFloor == Reached(assets, totalAssets, Floor)

\* checkCoverageFloor and publishCrawl: refused or failed, the run is over and
\* its checkpoint stays.
Gate ==
    /\ At("gate")
    /\ \/ ~PassesFloor /\ Finish /\ UNCHANGED <<faults, diskVars>>
       \/ PassesFloor /\ Finish /\ Fault
       \/ /\ PassesFloor /\ phase' = "delete"
          /\ UNCHANGED <<position, start, pending, perPage, exhausted, recentYield,
                         crawlerVars, copy, due, clean, faults, diskVars>>
    /\ UNCHANGED <<final, process, runs, failures, stops>>

\* recordCrawlCompletion's last act, after which activeCrawler is cleared.
DeleteCheckpoint ==
    /\ At("delete")
    /\ \/ Put(NoCheckpoint) /\ UNCHANGED faults
       \/ Fault
    /\ Finish
    /\ UNCHANGED <<final, process, runs, failures, stops>>
-----------------------------------------------------------------------------
(* The process ends and is restarted.                                      *)

\* SIGTERM while a crawl runs: copy its state.  The crawl goes on meanwhile.
Shutdown ==
    /\ process = "up" /\ phase # "idle" /\ stops < MaxStops
    /\ stops' = stops + 1
    /\ process' = "stopping" /\ final' = Snapshot /\ due' = FALSE
    /\ UNCHANGED <<crawlVars, crawlerVars, copy, diskVars, clean, runs, failures, faults>>

WriteFinal ==
    /\ process = "stopping"
    /\ \/ Put(final) /\ process' = "stopped" /\ UNCHANGED <<final, faults>>
       \/ Fault /\ process' = "stopped" /\ final' = NoCheckpoint
    /\ UNCHANGED <<crawlVars, crawlerVars, due, copy, clean, runs, failures, stops>>

Die ==
    /\ process' = "down" /\ final' = NoCheckpoint
    /\ Finish
    /\ UNCHANGED <<diskVars, runs, failures, faults>>

\* main returns.
Exit == process = "stopped" /\ Die /\ UNCHANGED stops

Kill ==
    /\ process \in {"up", "stopping"} /\ phase # "idle" /\ stops < MaxStops
    /\ stops' = stops + 1
    /\ Die

Restart ==
    /\ process = "down"
    /\ process' = "up"
    /\ UNCHANGED <<crawlVars, crawlerVars, due, copy, final, diskVars, clean, counters>>

CrawlStep ==
    \/ ResumeAssets \/ ResumeSlices \/ NextSlice \/ StartBatch \/ FetchPage \/ EndBatch \/ Judge \/ MarkDone
    \/ CopyCheckpoint \/ WriteCheckpoint \/ Gate \/ DeleteCheckpoint

Next ==
    \/ StartCrawl \/ CrawlStep \/ CheckpointFallsDue \/ CheckpointAges
    \/ Shutdown \/ WriteFinal \/ Exit \/ Kill \/ Restart

Spec == Init /\ [][Next]_vars

\* A page fetch ends (its retries are bounded), so a running crawl goes on; a
\* process being stopped exits.
FairSpec == Spec /\ WF_vars(CrawlStep) /\ WF_vars(WriteFinal \/ Exit)
-----------------------------------------------------------------------------
(* Properties.                                                             *)

\* What resume relies on: a slice in a checkpoint's DoneSlices is never visited
\* again, so everything a view paged in full holds must be among the assets of
\* that same checkpoint, unless the coverage target, or a failed page, cut it
\* short.
DoneSlicesCollected ==
    \A cp \in {checkpoint, copy, final} : \A s \in cp.done \cap InFull :
        \/ UNION {Listing[s][p] : p \in 1..Min({Len(Listing[s]), PageBudget[s]})}
              \subseteq cp.assets
        \/ failures > 0 \/ MaxPages > 0
        \/ Reached(cp.assets, cp.total, Target)

Abandons == phase = "judge" /\ phase' = "mark" /\ ~exhausted

PagesOf(numbers) == UNION {Listing[Slice][p] : p \in numbers}

SeenElsewhere == UNION {UNION Range(Listing[s]) : s \in doneSlices}

\* configuration.md:190-192: a view is abandoned "once it stops yielding assets
\* not already seen from other views", and on the last two batches' worth of its
\* pages, not on one sparse page.  So it is in a first run none of whose fetches
\* failed: those pages hold too few assets that are neither on earlier pages nor
\* in the views done before.  A resumed run fetches again, and counts as
\* yielding nothing, the pages of the view it was interrupted in.
AbandonedOnlyWhenSpent ==
    [][Abandons /\ runs = 1 /\ failures = 0 =>
         LET first == LastOfBatch - 2 * Batch + 1
         IN  /\ first >= 1
             /\ Cardinality(PagesOf(first..LastOfBatch)
                              \ (SeenElsewhere \cup PagesOf(1..first - 1))) < MinYield]_vars

\* A crawl that has started ends, refused or published, unless its process does.
CrawlEnds == phase # "idle" ~> phase = "idle"

\* A shutdown's checkpoint and the crawl's own are copied under the lock but
\* written outside it, in either order: the file that is left never holds less
\* than the copy the shutdown made.
FinalCheckpointKept ==
    process = "stopped" /\ checkpoint # NoCheckpoint =>
        final.assets \subseteq checkpoint.assets /\ final.done \subseteq checkpoint.done

\* main.go:110-113: a shutdown asks for one last checkpoint "so a resume picks
\* up from close to where this run actually stopped": it never replaces a
\* checkpoint this run would resume by one that holds less.
ShutdownKeepsProgress ==
    [][process = "stopping" /\ process' = "stopped" /\ Resumable(final.total) /\ ~old'
         => checkpoint.assets \subseteq checkpoint'.assets]_vars

\* troubleshooting.md:241-250: after "a transient itch.io-side problem during
\* that specific run", "retrying on its own is the correct behavior": a run
\* none of whose fetches fails collects enough to publish.
CleanRunPasses == phase = "gate" /\ clean => PassesFloor
==============================================================================
