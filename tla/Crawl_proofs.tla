----------------------------- MODULE Crawl_proofs -----------------------------
(***************************************************************************)
(* Proofs about a crawl, for every plan, every listing, any batches,       *)
(* budgets and thresholds, any number of crawls, failed pages and writes,  *)
(* shutdowns and kills: the types, what a shutdown's checkpoint holds,     *)
(* that no slice counts as done that was not collected, and that none is   *)
(* abandoned while it pays.  Then about the rate limiter its page fetches  *)
(* share (module Fetcher), for any number of pages, attempts, any spacing  *)
(* and any pauses.                                                         *)
(***************************************************************************)
EXTENDS Crawl, Fetcher, ListTheorems, SequenceTheorems

-----------------------------------------------------------------------------
(* Types.                                                                  *)

OnSlice == phase \in {"batch", "fetch", "judge", "mark"}

\* Where the crawl is in its plan and in its slice; the pages of a batch that
\* are being fetched are some of those it counts the yields of.
WalkInv ==
    /\ position >= 1 /\ start >= 1
    /\ OnSlice => position <= Len(Plan)
    /\ phase = "fetch" =>
          /\ start <= PageBudget[Slice]
          /\ pending \subseteq start..LastOfBatch
          /\ perPage \in [start..LastOfBatch -> Nat]

CrawlTypeInv == TypeOK /\ WalkInv

\* The slice the crawl is on is one of the plan's, and what its pages hold is
\* part of what itch.io lists.
LEMMA SliceOfPlan ==
  ASSUME position \in Nat, position >= 1, position <= Len(Plan)
  PROVE  /\ Slice \in Slices /\ PageBudget[Slice] \in Nat /\ Len(Listing[Slice]) \in Nat
         /\ \A p \in 1..Len(Listing[Slice]) :
               IsFiniteSet(Listing[Slice][p]) /\ Listing[Slice][p] \subseteq Listed
<1>1. Slice \in Slices
  BY CrawlInputs DEF Slice
<1>2. /\ PageBudget[Slice] \in Nat /\ Listing[Slice] \in Seq(Range(Listing[Slice]))
      /\ \A page \in Range(Listing[Slice]) : IsFiniteSet(page)
  BY <1>1, CrawlInputs
<1>3. Len(Listing[Slice]) \in Nat
      /\ \A p \in 1..Len(Listing[Slice]) : Listing[Slice][p] \in Range(Listing[Slice])
  BY <1>2
<1> QED
  BY <1>1, <1>2, <1>3 DEF Listed

\* The last page of a batch is within the slice's budget and the batch's size.
LEMMA BatchRange ==
  ASSUME CrawlTypeInv, OnSlice, start <= PageBudget[Slice]
  PROVE  /\ LastOfBatch \in Nat /\ start <= LastOfBatch
         /\ LastOfBatch <= start + Batch - 1 /\ LastOfBatch <= PageBudget[Slice]
         /\ LastOfBatch \in {start + Batch - 1, PageBudget[Slice]}
<1>1. start \in Nat /\ PageBudget[Slice] \in Nat /\ Batch \in Nat \ {0}
  BY SliceOfPlan, CrawlBounds DEF CrawlTypeInv, TypeOK, WalkInv
<1> QED
  <2> DEFINE full == start + Batch - 1
  <2>1. full \in Int /\ PageBudget[Slice] \in Int /\ start <= full
    BY <1>1
  <2>2. LastOfBatch = Min({full, PageBudget[Slice]})
    BY DEF LastOfBatch
  <2> HIDE DEF full
  <2>3. /\ LastOfBatch \in {full, PageBudget[Slice]}
        /\ LastOfBatch <= full /\ LastOfBatch <= PageBudget[Slice]
    BY <2>1, <2>2, MinMaxOfTwo
  <2> QED
    BY <1>1, <2>1, <2>3 DEF full

\* The window keeps the last 2 * Batch yields.
LEMMA WindowType ==
  ASSUME CrawlTypeInv, EndBatch
  PROVE  recentYield' \in Seq(Nat) /\ Len(recentYield') <= 2 * Batch
<1> DEFINE pages == [i \in 1..Cardinality(DOMAIN perPage) |-> perPage[start + i - 1]]
           all   == recentYield \o pages
           from  == Max({1, Len(all) - 2 * Batch + 1})
<1>1. phase = "fetch" /\ recentYield' = SubSeq(all, from, Len(all))
  BY DEF EndBatch, At
<1>2. /\ start \in Nat /\ start <= LastOfBatch /\ LastOfBatch \in Nat /\ Batch \in Nat \ {0}
      /\ perPage \in [start..LastOfBatch -> Nat] /\ recentYield \in Seq(Nat)
  BY <1>1, BatchRange, CrawlBounds DEF CrawlTypeInv, TypeOK, WalkInv, OnSlice
<1>3. Cardinality(DOMAIN perPage) = LastOfBatch - start + 1
  BY <1>2, FS_Interval
<1>4. pages \in Seq(Nat)
  <2> DEFINE n == Cardinality(DOMAIN perPage)
  <2>1. n \in Nat /\ \A i \in 1..n : perPage[start + i - 1] \in Nat
    BY <1>2, <1>3
  <2> HIDE DEF n
  <2>2. [i \in 1..n |-> perPage[start + i - 1]] \in [1..n -> Nat]
    BY <2>1
  <2> QED
    BY <2>1, <2>2 DEF n
<1> HIDE DEF pages
<1>5. all \in Seq(Nat) /\ Len(all) \in Nat
  BY <1>2, <1>4
<1> HIDE DEF all
<1>6. from \in Nat /\ from >= 1 /\ from >= Len(all) - 2 * Batch + 1
      /\ from \in {1, Len(all) - 2 * Batch + 1}
  <2> DEFINE first == Len(all) - 2 * Batch + 1
  <2>1. 1 \in Int /\ first \in Int
    BY <1>2, <1>5
  <2> HIDE DEF first
  <2>2. Max({1, first}) \in {1, first} /\ Max({1, first}) >= 1 /\ Max({1, first}) >= first
    BY <2>1, MinMaxOfTwo
  <2>3. Max({1, first}) \in Nat
    BY <2>1, <2>2
  <2> QED
    BY <2>2, <2>3 DEF first
<1> HIDE DEF from
<1>7. /\ SubSeq(all, from, Len(all)) \in Seq(Nat)
      /\ Len(SubSeq(all, from, Len(all))) = IF from <= Len(all) THEN Len(all) - from + 1 ELSE 0
  <2>1. \A i \in from..Len(all) : all[i] \in Nat
    BY <1>5, <1>6
  <2> QED
    BY <1>5, <1>6, <2>1, SubSeqProperties
<1> QED
  BY <1>1, <1>2, <1>5, <1>6, <1>7

\* The window changes at the end of a batch and with a new slice only.
LEMMA YieldStep ==
  ASSUME CrawlTypeInv, [Next]_vars
  PROVE  recentYield' \in Seq(Nat) /\ Len(recentYield') <= 2 * Batch
<1>1. <<>> \in Seq(Nat) /\ Len(<<>>) = 0 /\ Batch \in Nat
  BY EmptySeq, CrawlBounds
<1>2. CASE recentYield' = recentYield
  BY <1>2 DEF CrawlTypeInv, TypeOK
<1>3. CASE recentYield' = <<>>
  BY <1>1, <1>3
<1>4. CASE EndBatch
  BY <1>4, WindowType
<1> QED
  BY <1>2, <1>3, <1>4 DEF Next, CrawlStep, StartCrawl, ResumeAssets, ResumeSlices, NextSlice,
     StartBatch, FetchPage, Judge, MarkDone, CopyCheckpoint, WriteCheckpoint, CheckpointFallsDue,
     CheckpointAges, Gate, DeleteCheckpoint, Shutdown, WriteFinal, Exit, Kill, Die, Finish, Restart,
     vars, crawlVars

\* The crawl and the process go from one of their phases to another.
LEMMA PhaseStep ==
  ASSUME TypeOK, [Next]_vars
  PROVE  phase' \in Phases /\ process' \in {"up", "stopping", "stopped", "down"}
<1>1. phase' \in {phase, "idle", "resume", "resume slices", "loop", "batch", "fetch", "judge",
                  "mark", "copy", "write", "gate", "delete"}
  BY DEF Next, CrawlStep, StartCrawl, ResumeAssets, ResumeSlices, NextSlice, EndBatch,
     StartBatch, FetchPage, Judge, MarkDone, CopyCheckpoint, WriteCheckpoint, CheckpointFallsDue,
     CheckpointAges, Gate, DeleteCheckpoint, Shutdown, WriteFinal, Exit, Kill, Die, Finish, Restart,
     vars, crawlVars
<1>2. process' \in {process, "up", "stopping", "stopped", "down"}
  BY DEF Next, CrawlStep, StartCrawl, ResumeAssets, ResumeSlices, NextSlice, EndBatch,
     StartBatch, FetchPage, Judge, MarkDone, CopyCheckpoint, WriteCheckpoint, CheckpointFallsDue,
     CheckpointAges, Gate, DeleteCheckpoint, Shutdown, WriteFinal, Exit, Kill, Die, Finish, Restart,
     vars, crawlVars
<1> QED
  BY <1>1, <1>2 DEF TypeOK, Phases

\* The four flags stay Booleans.
LEMMA FlagStep ==
  ASSUME TypeOK, [Next]_vars
  PROVE  /\ exhausted' \in BOOLEAN /\ due' \in BOOLEAN
         /\ old' \in BOOLEAN /\ clean' \in BOOLEAN
<1>1. exhausted' = exhausted \/ exhausted' = TRUE \/ exhausted' = FALSE
  BY DEF Next, CrawlStep, StartCrawl, ResumeAssets, ResumeSlices, NextSlice, EndBatch,
     StartBatch, FetchPage, Judge, MarkDone, CopyCheckpoint, WriteCheckpoint, CheckpointFallsDue,
     CheckpointAges, Gate, DeleteCheckpoint, Shutdown, WriteFinal, Exit, Kill, Die, Finish, Restart,
     Put, Fault, vars, crawlVars, diskVars
<1>2. due' = due \/ due' = TRUE \/ due' = FALSE
  BY DEF Next, CrawlStep, StartCrawl, ResumeAssets, ResumeSlices, NextSlice, EndBatch,
     StartBatch, FetchPage, Judge, MarkDone, CopyCheckpoint, WriteCheckpoint, CheckpointFallsDue,
     CheckpointAges, Gate, DeleteCheckpoint, Shutdown, WriteFinal, Exit, Kill, Die, Finish, Restart,
     Put, Fault, vars, crawlVars, diskVars
<1>3. old' = old \/ old' = TRUE \/ old' = FALSE
  BY DEF Next, CrawlStep, StartCrawl, ResumeAssets, ResumeSlices, NextSlice, EndBatch,
     StartBatch, FetchPage, Judge, MarkDone, CopyCheckpoint, WriteCheckpoint, CheckpointFallsDue,
     CheckpointAges, Gate, DeleteCheckpoint, Shutdown, WriteFinal, Exit, Kill, Die, Finish, Restart,
     Put, Fault, vars, crawlVars, diskVars
<1>4. clean' = clean \/ clean' = TRUE \/ clean' = FALSE
  BY DEF Next, CrawlStep, StartCrawl, ResumeAssets, ResumeSlices, NextSlice, EndBatch,
     StartBatch, FetchPage, Judge, MarkDone, CopyCheckpoint, WriteCheckpoint, CheckpointFallsDue,
     CheckpointAges, Gate, DeleteCheckpoint, Shutdown, WriteFinal, Exit, Kill, Die, Finish, Restart,
     Put, Fault, vars, crawlVars, diskVars
<1> QED
  BY <1>1, <1>2, <1>3, <1>4 DEF TypeOK

PlaceOK == position \in Nat /\ start \in Nat /\ pending \subseteq Nat

DataOK ==
    /\ assets \subseteq Listed /\ doneSlices \subseteq Slices
    /\ totalAssets \in Nat /\ pagesFetched \in Nat
    /\ {checkpoint, copy, final} \subseteq Checkpoints

\* Every step keeps the positions numbers,
LEMMA PlaceStep ==
  ASSUME CrawlTypeInv, [Next]_vars
  PROVE  PlaceOK'
<1> USE CrawlBounds DEF PlaceOK, CrawlTypeInv, TypeOK, WalkInv, At, Running, vars, crawlVars,
        crawlerVars, diskVars, counters
<1>1. CASE StartCrawl
  BY <1>1, CrawlInputs DEF StartCrawl
<1>2. CASE ResumeAssets
  BY <1>2 DEF ResumeAssets
<1>3. CASE ResumeSlices
  BY <1>3 DEF ResumeSlices
<1>4. CASE NextSlice
  <2>1. pending' = pending /\ (start' = start \/ start' = 1)
    BY <1>4 DEF NextSlice
  <2>2. position' = position \/ position' = position + 1
    BY <1>4 DEF NextSlice
  <2>3. position \in Nat /\ start \in Nat /\ pending \subseteq Nat
    OBVIOUS
  <2> QED
    BY ONLY <2>1, <2>2, <2>3 DEF PlaceOK
<1>5. CASE StartBatch
  <2>1. CASE pending' = pending
    BY <1>5, <2>1 DEF StartBatch
  <2>2. CASE start <= PageBudget[Slice] /\ pending' = start..LastOfBatch
    <3>1. LastOfBatch \in Nat
      BY <1>5, <2>2, BatchRange DEF StartBatch, OnSlice
    <3> QED
      BY <1>5, <2>2, <3>1 DEF StartBatch
  <2> QED
    BY <1>5, <2>1, <2>2 DEF StartBatch, LastOfBatch
<1>6. CASE FetchPage
  BY <1>6 DEF FetchPage
<1>7. CASE EndBatch
  BY <1>7 DEF EndBatch
<1>8. CASE Judge
  BY <1>8 DEF Judge
<1>9. CASE MarkDone
  BY <1>9, SliceOfPlan DEF MarkDone
<1>10. CASE CopyCheckpoint
  BY <1>10 DEF CopyCheckpoint
<1>11. CASE WriteCheckpoint
  BY <1>11 DEF WriteCheckpoint, Put, Fault
<1>12. CASE Gate
  <2>1. Finish \/ UNCHANGED <<position, start, pending>>
    BY <1>12 DEF Gate
  <2>2. CASE Finish
    BY <2>2 DEF Finish
  <2>3. CASE UNCHANGED <<position, start, pending>>
    BY <2>3
  <2> QED
    BY <2>1, <2>2, <2>3
<1>13. CASE DeleteCheckpoint
  BY <1>13 DEF DeleteCheckpoint, Put, Fault, Finish
<1>14. CASE CheckpointFallsDue
  BY <1>14 DEF CheckpointFallsDue
<1>15. CASE CheckpointAges
  BY <1>15 DEF CheckpointAges
<1>16. CASE Shutdown
  BY <1>16 DEF Shutdown
<1>17. CASE WriteFinal
  BY <1>17 DEF WriteFinal, Put, Fault
<1>18. CASE Exit \/ Kill
  BY <1>18 DEF Exit, Kill, Die, Finish
<1>19. CASE Restart
  BY <1>19 DEF Restart
<1>20. CASE UNCHANGED vars
  BY <1>20
<1> QED
  BY <1>1, <1>2, <1>3, <1>4, <1>5, <1>6, <1>7, <1>8, <1>9, <1>10, <1>11, <1>12, <1>13, <1>14,
     <1>15, <1>16, <1>17, <1>18, <1>19, <1>20 DEF Next, CrawlStep

\* what the crawler and the checkpoints hold part of the listing and the plan,
LEMMA DataStep ==
  ASSUME CrawlTypeInv, [Next]_vars
  PROVE  DataOK'
<1> USE CrawlBounds DEF DataOK, OnSlice, CrawlTypeInv, TypeOK, WalkInv, At, Running, vars,
        crawlVars, crawlerVars, diskVars, counters
<1>1. CASE StartCrawl
  BY <1>1, CrawlInputs DEF StartCrawl
<1>2. CASE ResumeAssets
  BY <1>2 DEF ResumeAssets, Checkpoints
<1>3. CASE ResumeSlices
  <2>1. NoCheckpoint \in Checkpoints /\ copy.done \subseteq Slices
    BY DEF NoCheckpoint, Checkpoints
  <2>2. doneSlices' = copy.done /\ copy' = NoCheckpoint
    BY <1>3 DEF ResumeSlices
  <2> QED
    BY <1>3, <2>1, <2>2 DEF ResumeSlices
<1>4. CASE NextSlice
  BY <1>4 DEF NextSlice
<1>5. CASE StartBatch
  BY <1>5, BatchRange DEF StartBatch
<1>6. CASE FetchPage
  <2>1. \A p \in 1..Len(Listing[Slice]) : Listing[Slice][p] \subseteq Listed
    BY <1>6, SliceOfPlan DEF FetchPage
  <2>2. PICK p \in pending :
           assets' = assets \/ (p <= Len(Listing[Slice]) /\ assets' = assets \cup Listing[Slice][p])
    BY <1>6 DEF FetchPage
  <2>3. p \in Nat /\ p >= 1
    BY <1>6, BatchRange DEF FetchPage
  <2>4. Len(Listing[Slice]) \in Nat
    BY <1>6, SliceOfPlan DEF FetchPage
  <2>5. assets' \subseteq Listed
    <3>1. assets \subseteq Listed
      OBVIOUS
    <3>2. p <= Len(Listing[Slice]) => p \in 1..Len(Listing[Slice])
      BY ONLY <2>3, <2>4
    <3> QED
      BY ONLY <2>1, <2>2, <3>1, <3>2
  <2>6. pagesFetched' \in Nat /\ UNCHANGED <<doneSlices, totalAssets, checkpoint, copy, final>>
    BY <1>6 DEF FetchPage
  <2>7. /\ doneSlices \subseteq Slices /\ totalAssets \in Nat
        /\ checkpoint \in Checkpoints /\ copy \in Checkpoints /\ final \in Checkpoints
    OBVIOUS
  <2> QED
    BY ONLY <2>5, <2>6, <2>7 DEF DataOK
<1>7. CASE EndBatch
  BY <1>7 DEF EndBatch
<1>8. CASE Judge
  BY <1>8 DEF Judge
<1>9. CASE MarkDone
  BY <1>9, SliceOfPlan DEF MarkDone
<1>10. CASE CopyCheckpoint
  <2>1. /\ copy' = Snapshot \/ copy' = copy
        /\ UNCHANGED <<assets, doneSlices, totalAssets, pagesFetched, checkpoint, final>>
    BY <1>10 DEF CopyCheckpoint
  <2>2. Snapshot \in Checkpoints
    BY DEF Snapshot, Checkpoints
  <2>3. /\ assets \subseteq Listed /\ doneSlices \subseteq Slices
        /\ totalAssets \in Nat /\ pagesFetched \in Nat
        /\ checkpoint \in Checkpoints /\ copy \in Checkpoints /\ final \in Checkpoints
    OBVIOUS
  <2> QED
    BY ONLY <2>1, <2>2, <2>3 DEF DataOK
<1>11. CASE WriteCheckpoint
  BY <1>11 DEF WriteCheckpoint, Put, Fault, Checkpoints, NoCheckpoint
<1>12. CASE Gate
  <2>1. /\ Finish \/ UNCHANGED <<crawlerVars, copy>>
        /\ UNCHANGED <<checkpoint, final>>
    BY <1>12 DEF Gate, Fault
  <2>2. CASE Finish
    BY <2>1, <2>2 DEF Finish, Checkpoints, NoCheckpoint
  <2>3. CASE UNCHANGED <<crawlerVars, copy>>
    BY <2>1, <2>3
  <2> QED
    BY <2>1, <2>2, <2>3
<1>13. CASE DeleteCheckpoint
  BY <1>13 DEF DeleteCheckpoint, Put, Fault, Finish, Checkpoints, NoCheckpoint
<1>14. CASE CheckpointFallsDue
  BY <1>14 DEF CheckpointFallsDue
<1>15. CASE CheckpointAges
  BY <1>15 DEF CheckpointAges
<1>16. CASE Shutdown
  BY <1>16 DEF Shutdown, Snapshot, Checkpoints
<1>17. CASE WriteFinal
  BY <1>17 DEF WriteFinal, Put, Fault, Checkpoints, NoCheckpoint
<1>18. CASE Exit \/ Kill
  <2>1. Finish /\ final' = NoCheckpoint /\ checkpoint' = checkpoint
    BY <1>18 DEF Exit, Kill, Die
  <2>2. /\ assets' = {} /\ doneSlices' = {} /\ totalAssets' = 0 /\ pagesFetched' = 0
        /\ copy' = NoCheckpoint
    BY <2>1 DEF Finish
  <2>3. NoCheckpoint \in Checkpoints /\ checkpoint \in Checkpoints
    BY DEF Checkpoints, NoCheckpoint
  <2> QED
    BY ONLY <2>1, <2>2, <2>3 DEF DataOK
<1>19. CASE Restart
  BY <1>19 DEF Restart
<1>20. CASE UNCHANGED vars
  BY <1>20
<1> QED
  BY <1>1, <1>2, <1>3, <1>4, <1>5, <1>6, <1>7, <1>8, <1>9, <1>10, <1>11, <1>12, <1>13, <1>14,
     <1>15, <1>16, <1>17, <1>18, <1>19, <1>20 DEF Next, CrawlStep

\* and the crawl inside its plan, its batch inside the slice's budget.
LEMMA WalkStep ==
  ASSUME CrawlTypeInv, [Next]_vars
  PROVE  WalkInv'
<1> USE CrawlBounds DEF OnSlice, CrawlTypeInv, TypeOK, WalkInv, At, Running, vars, crawlVars,
        crawlerVars, diskVars, counters
<1>0. UNCHANGED <<position, start>> => Slice' = Slice /\ LastOfBatch' = LastOfBatch
  BY DEF Slice, LastOfBatch
<1>1. CASE StartCrawl
  BY <1>1, <1>0, CrawlInputs DEF StartCrawl
<1>2. CASE ResumeAssets
  BY <1>2, <1>0 DEF ResumeAssets
<1>3. CASE ResumeSlices
  BY <1>3, <1>0 DEF ResumeSlices
<1>4. CASE NextSlice
  <2>1. /\ phase' \in {"gate", "loop", "batch"}
        /\ phase' = "batch" => position' = position /\ position <= Len(Plan)
    BY <1>4 DEF NextSlice
  <2>2. (position' = position \/ position' = position + 1) /\ (start' = start \/ start' = 1)
    BY <1>4 DEF NextSlice
  <2>3. position \in Nat /\ position >= 1 /\ start \in Nat /\ start >= 1
    OBVIOUS
  <2> QED
    BY ONLY <2>1, <2>2, <2>3 DEF WalkInv, OnSlice
<1>5. CASE StartBatch
  <2>1. UNCHANGED <<position, start>> /\ phase = "batch" /\ phase' \in {"mark", "fetch"}
    BY <1>5 DEF StartBatch
  <2>2. Slice' = Slice /\ LastOfBatch' = LastOfBatch
    BY <2>1 DEF Slice, LastOfBatch
  <2>3. CASE phase' = "fetch"
    <3>1. /\ start <= PageBudget[Slice] /\ pending' = start..LastOfBatch
          /\ perPage' = [p \in pending' |-> 0]
      BY <1>5, <2>3 DEF StartBatch, LastOfBatch
    <3> QED
      BY <2>1, <2>2, <3>1
  <2> QED
    BY <2>1, <2>3
<1>6. CASE FetchPage
  <2>1. UNCHANGED <<phase, position, start>> /\ phase = "fetch"
    BY <1>6 DEF FetchPage
  <2>2. Slice' = Slice /\ LastOfBatch' = LastOfBatch
    BY <2>1 DEF Slice, LastOfBatch
  <2>3. pending' \subseteq pending
    BY <1>6 DEF FetchPage
  <2>4. ASSUME NEW p \in pending, p <= Len(Listing[Slice])
        PROVE  Cardinality(Listing[Slice][p] \ assets) \in Nat
    <3>1. p \in 1..Len(Listing[Slice])
      <4>1. p \in start..LastOfBatch /\ start \in Nat /\ start >= 1
        BY <2>1
      <4>2. Len(Listing[Slice]) \in Nat
        BY <2>1, SliceOfPlan
      <4> QED
        BY <2>4, <4>1, <4>2
    <3>2. IsFiniteSet(Listing[Slice][p])
      BY <2>1, <3>1, SliceOfPlan
    <3> QED
      BY <3>2, FS_Difference, FS_CardinalityType
  <2>5. PICK p \in pending :
           \/ perPage' = perPage
           \/ /\ p <= Len(Listing[Slice])
              /\ perPage' = [perPage EXCEPT ![p] = Cardinality(Listing[Slice][p] \ assets)]
    BY <1>6 DEF FetchPage
  <2>6. perPage' \in [start..LastOfBatch -> Nat]
    <3>1. perPage \in [start..LastOfBatch -> Nat]
      BY <2>1
    <3> QED
      BY ONLY <2>4, <2>5, <3>1
  <2> QED
    BY <2>1, <2>2, <2>3, <2>6
<1>7. CASE EndBatch
  BY <1>7, <1>0 DEF EndBatch
<1>8. CASE Judge
  BY <1>8, <1>0 DEF Judge
<1>9. CASE MarkDone
  BY <1>9, <1>0, SliceOfPlan DEF MarkDone
<1>10. CASE CopyCheckpoint
  BY <1>10, <1>0 DEF CopyCheckpoint
<1>11. CASE WriteCheckpoint
  BY <1>11, <1>0 DEF WriteCheckpoint, Put, Fault
<1>12. CASE Gate
  BY <1>12, <1>0 DEF Gate, Finish, Fault
<1>13. CASE DeleteCheckpoint
  BY <1>13, <1>0 DEF DeleteCheckpoint, Put, Fault, Finish
<1>14. CASE CheckpointFallsDue
  BY <1>14, <1>0 DEF CheckpointFallsDue
<1>15. CASE CheckpointAges
  BY <1>15, <1>0 DEF CheckpointAges
<1>16. CASE Shutdown
  BY <1>16, <1>0 DEF Shutdown
<1>17. CASE WriteFinal
  BY <1>17, <1>0 DEF WriteFinal, Put, Fault
<1>18. CASE Exit \/ Kill
  BY <1>18, <1>0 DEF Exit, Kill, Die, Finish
<1>19. CASE Restart
  BY <1>19, <1>0 DEF Restart
<1>20. CASE UNCHANGED vars
  BY <1>20, <1>0
<1> QED
  BY <1>1, <1>2, <1>3, <1>4, <1>5, <1>6, <1>7, <1>8, <1>9, <1>10, <1>11, <1>12, <1>13, <1>14,
     <1>15, <1>16, <1>17, <1>18, <1>19, <1>20 DEF Next, CrawlStep

\* Before the first crawl the values have their types, and no page is being fetched.
LEMMA InitTypes == Init => CrawlTypeInv
<1> SUFFICES ASSUME Init PROVE CrawlTypeInv
  OBVIOUS
<1>1. PlaceOK /\ WalkInv
  BY DEF Init, PlaceOK, WalkInv, OnSlice
<1>2. exhausted \in BOOLEAN /\ due \in BOOLEAN /\ old \in BOOLEAN /\ clean \in BOOLEAN
  BY DEF Init
<1>3. DataOK
  BY DEF Init, DataOK, Checkpoints, NoCheckpoint
<1>4. recentYield \in Seq(Nat) /\ Len(recentYield) <= 2 * Batch
  BY EmptySeq, CrawlBounds DEF Init
<1>5. phase \in Phases /\ process \in {"up", "stopping", "stopped", "down"}
  BY DEF Init, Phases
<1> QED
  BY <1>1, <1>3, <1>4, <1>5, <1>2 DEF CrawlTypeInv, TypeOK, PlaceOK, DataOK

\* The values of a crawl's variables have their types, and the pages being fetched
\* are always pages of the batch whose yields are counted (runSlice).
THEOREM CrawlTypeCorrect == Spec => []CrawlTypeInv
<1>1. CrawlTypeInv /\ [Next]_vars => CrawlTypeInv'
  BY YieldStep, PhaseStep, FlagStep, PlaceStep, DataStep, WalkStep DEF CrawlTypeInv, TypeOK,
     PlaceOK, DataOK
<1> QED
  BY <1>1, InitTypes, PTL DEF Spec
-----------------------------------------------------------------------------
(* A shutdown's checkpoint and the crawl's.                                *)

AtLeast(cp, least) == least.assets \subseteq cp.assets /\ least.done \subseteq cp.done

\* What keeps a shutdown's checkpoint: nothing is copied any more once it has
\* taken its snapshot, and what was copied before and is still to be written is
\* the state the snapshot was taken of.
FinalInv ==
    /\ phase = "write" => copy = Snapshot
    /\ process \in {"stopping", "stopped"} =>
          /\ phase = "idle" \/ ~due
          /\ phase = "write" => AtLeast(copy, final)
    /\ process = "stopped" /\ checkpoint # NoCheckpoint => AtLeast(checkpoint, final)

\* A crawl that has ended, or a process, leaves nothing to be written.
LEMMA FinalStep ==
  ASSUME FinalInv, [Next]_vars
  PROVE  FinalInv'
<1> USE DEF FinalInv, AtLeast, Snapshot, At, Running, NoCheckpoint, Put, Fault, vars,
            crawlVars, crawlerVars, diskVars, counters
<1>1. CASE StartCrawl
  BY <1>1 DEF StartCrawl
<1>2. CASE ResumeAssets
  BY <1>2 DEF ResumeAssets
<1>3. CASE ResumeSlices
  BY <1>3 DEF ResumeSlices
<1>4. CASE NextSlice
  BY <1>4 DEF NextSlice
<1>5. CASE StartBatch
  BY <1>5 DEF StartBatch
<1>6. CASE FetchPage
  BY <1>6 DEF FetchPage
<1>7. CASE EndBatch
  BY <1>7 DEF EndBatch
<1>8. CASE Judge
  BY <1>8 DEF Judge
<1>9. CASE MarkDone
  BY <1>9 DEF MarkDone
<1>10. CASE CopyCheckpoint
  BY <1>10 DEF CopyCheckpoint
<1>11. CASE WriteCheckpoint
  BY <1>11 DEF WriteCheckpoint
<1>12. CASE Gate
  BY <1>12 DEF Gate, Finish
<1>13. CASE DeleteCheckpoint
  BY <1>13 DEF DeleteCheckpoint, Finish
<1>14. CASE CheckpointFallsDue
  BY <1>14 DEF CheckpointFallsDue
<1>15. CASE CheckpointAges
  BY <1>15 DEF CheckpointAges
<1>16. CASE Shutdown
  BY <1>16 DEF Shutdown
<1>17. CASE WriteFinal
  BY <1>17 DEF WriteFinal
<1>18. CASE Exit \/ Kill
  BY <1>18 DEF Exit, Kill, Die, Finish
<1>19. CASE Restart
  BY <1>19 DEF Restart
<1>20. CASE UNCHANGED vars
  BY <1>20
<1> QED
  BY <1>1, <1>2, <1>3, <1>4, <1>5, <1>6, <1>7, <1>8, <1>9, <1>10, <1>11, <1>12, <1>13, <1>14,
     <1>15, <1>16, <1>17, <1>18, <1>19, <1>20 DEF Next, CrawlStep

\* The file a shutdown leaves never holds less than the copy it made, whichever
\* of the two writers is last.
THEOREM LastCheckpointWins == Spec => []FinalCheckpointKept
<1>1. Init => FinalInv
  BY DEF Init, FinalInv, NoCheckpoint, AtLeast
<1>2. FinalInv /\ [Next]_vars => FinalInv'
  BY FinalStep
<1>3. FinalInv => FinalCheckpointKept
  BY DEF FinalInv, FinalCheckpointKept, AtLeast
<1> QED
  BY <1>1, <1>2, <1>3, PTL DEF Spec
-----------------------------------------------------------------------------
(* Every slice that counts as done has been collected.                     *)

\* A slice's pages before upto are among the assets found, or a fetch failed.
Fetched(s, upto, except, found, failed) ==
    \A p \in 1..Len(Listing[s]) : p < upto /\ p <= PageBudget[s] /\ p \notin except =>
        Listing[s][p] \subseteq found \/ failed > 0

\* DoneSlicesCollected of one slice and one checkpoint.
Collected(s, found, total, failed) ==
    \/ UNION {Listing[s][p] : p \in 1..Min({Len(Listing[s]), PageBudget[s]})} \subseteq found
    \/ failed > 0 \/ MaxPages > 0
    \/ Reached(found, total, Target)

AllCollected(cp, failed) ==
    IsFiniteSet(cp.assets) /\ \A s \in cp.done \cap InFull : Collected(s, cp.assets, cp.total, failed)

\* The same of the crawl at work: of the pages of the slice it is on, those
\* before the batch are collected; in the batch, those that are not pending;
\* and a batch that was past the view's end leaves none to fetch.
SliceInv ==
    /\ phase = "batch" => Fetched(Slice, start, {}, assets, failures)
    /\ phase \in {"fetch", "judge"} =>
          /\ Fetched(Slice, start + Batch, pending, assets, failures)
          /\ exhausted => Len(Listing[Slice]) < start + Batch
    /\ phase = "judge" => pending = {}
    /\ phase = "mark" /\ Slice \in InFull => Collected(Slice, assets, totalAssets, failures)

\* A resume takes the assets first and the slices later, of one checkpoint.
ResumeInv ==
    /\ phase \in {"idle", "resume", "resume slices"} => doneSlices = {}
    /\ phase = "resume slices" => assets = copy.assets /\ totalAssets = copy.total

StoresInv ==
    /\ failures \in Nat
    /\ AllCollected(checkpoint, failures) /\ AllCollected(copy, failures)
    /\ AllCollected(final, failures) /\ AllCollected(Snapshot, failures)

CollectedInv == StoresInv /\ SliceInv /\ ResumeInv

\* More assets reach whatever fewer did.
LEMMA ReachedGrows ==
  ASSUME NEW few, NEW many, few \subseteq many, IsFiniteSet(many), NEW total \in Nat,
         Reached(few, total, Target)
  PROVE  Reached(many, total, Target)
<1>1. Cardinality(few) \in Nat /\ Cardinality(many) \in Nat /\ Cardinality(few) <= Cardinality(many)
  BY FS_Subset, FS_CardinalityType
<1>2. Target * total \in Nat
  BY CrawlBounds
<1> QED
  BY <1>1, <1>2 DEF Reached

\* What is collected stays so as assets are added and fetches fail.
LEMMA CollectedGrows ==
  ASSUME NEW few, NEW many, few \subseteq many, IsFiniteSet(many), NEW total \in Nat,
         NEW failed \in Nat, NEW later \in Nat, failed <= later,
         NEW s, Collected(s, few, total, failed)
  PROVE  Collected(s, many, total, later)
<1>1. failed > 0 => later > 0
  OBVIOUS
<1> QED
  BY <1>1, ReachedGrows, Zenon DEF Collected

\* A failed fetch spoils no checkpoint.
LEMMA AllCollectedLater ==
  ASSUME NEW failed \in Nat, NEW later \in Nat, failed <= later,
         NEW cp, AllCollected(cp, failed)
  PROVE  AllCollected(cp, later)
<1>1. failed > 0 => later > 0
  OBVIOUS
<1> QED
  BY <1>1, Zenon DEF AllCollected, Collected

\* A slice whose pages have all been fetched, up to the view's end or to the
\* slice's budget, is collected.
LEMMA FetchedToEnd ==
  ASSUME NEW s \in Slices, NEW upto \in Nat, NEW found, NEW failed, NEW total,
         Fetched(s, upto, {}, found, failed),
         Len(Listing[s]) < upto \/ PageBudget[s] < upto
  PROVE  Collected(s, found, total, failed)
<1>1. Len(Listing[s]) \in Nat /\ PageBudget[s] \in Nat
  BY CrawlInputs
<1> DEFINE last == Min({Len(Listing[s]), PageBudget[s]})
<1>2. last \in Nat /\ last <= Len(Listing[s]) /\ last <= PageBudget[s]
  <2> DEFINE pages == Len(Listing[s])
             budget == PageBudget[s]
  <2>1. pages \in Int /\ budget \in Int
    BY <1>1
  <2> HIDE DEF pages, budget
  <2>2. /\ Min({pages, budget}) \in {pages, budget}
        /\ Min({pages, budget}) <= pages /\ Min({pages, budget}) <= budget
    BY <2>1, MinMaxOfTwo
  <2> QED
    BY <1>1, <2>2 DEF pages, budget
<1> SUFFICES ASSUME ~(failed > 0)
             PROVE  UNION {Listing[s][p] : p \in 1..last} \subseteq found
  BY DEF Collected
<1> HIDE DEF last
<1>3. ASSUME NEW p \in 1..last PROVE Listing[s][p] \subseteq found
  BY <1>1, <1>2 DEF Fetched
<1> QED
  BY <1>3

\* Where the contents of a checkpoint can come from.
LEMMA CheckpointMoves ==
  ASSUME StoresInv, [Next]_vars
  PROVE  /\ checkpoint' \in {checkpoint, copy, final, NoCheckpoint}
         /\ copy' \in {copy, checkpoint, Snapshot, NoCheckpoint}
         /\ final' \in {final, Snapshot, NoCheckpoint}
         /\ failures' \in Nat /\ failures <= failures'
<1>1. /\ checkpoint' \in {checkpoint, copy, final, NoCheckpoint}
      /\ copy' \in {copy, checkpoint, Snapshot, NoCheckpoint}
      /\ final' \in {final, Snapshot, NoCheckpoint}
      /\ failures' = failures \/ failures' = failures + 1
  <2> USE DEF Next, CrawlStep, StartCrawl, ResumeAssets, ResumeSlices, NextSlice, EndBatch,
         StartBatch, FetchPage, Judge, MarkDone, CopyCheckpoint, WriteCheckpoint,
         CheckpointFallsDue, CheckpointAges, Gate, DeleteCheckpoint, Shutdown, WriteFinal, Exit,
         Kill, Die, Finish, Restart, Put, Fault, vars, diskVars, counters
  <2>1. checkpoint' \in {checkpoint, copy, final, NoCheckpoint}
    OBVIOUS
  <2>2. copy' \in {copy, checkpoint, Snapshot, NoCheckpoint}
    OBVIOUS
  <2>3. final' \in {final, Snapshot, NoCheckpoint}
    OBVIOUS
  <2>4. failures' = failures \/ failures' = failures + 1
    OBVIOUS
  <2> QED
    BY <2>1, <2>2, <2>3, <2>4
<1>2. failures \in Nat
  BY DEF StoresInv
<1> QED
  BY <1>1, <1>2

\* So every checkpoint, written or about to be, stays one to rely on.
LEMMA StoredStep ==
  ASSUME StoresInv, [Next]_vars
  PROVE  /\ failures' \in Nat /\ AllCollected(checkpoint', failures')
         /\ AllCollected(copy', failures') /\ AllCollected(final', failures')
<1>1. AllCollected(NoCheckpoint, failures)
  BY FS_EmptySet DEF AllCollected, NoCheckpoint
<1>2. \A cp \in {checkpoint, copy, final, Snapshot, NoCheckpoint} : AllCollected(cp, failures')
  BY <1>1, CheckpointMoves, AllCollectedLater DEF StoresInv
<1> QED
  BY <1>2, CheckpointMoves

\* The crawl's own state: a page adds assets, a slice that is done was
\* collected, and a resume takes over a checkpoint or one without slices.
LEMMA CrawlerStep ==
  ASSUME CrawlTypeInv, CollectedInv, [Next]_vars
  PROVE  AllCollected(Snapshot', failures')
<1> DEFINE later == failures'
<1>1. /\ failures \in Nat /\ later \in Nat /\ failures <= later
      /\ AllCollected(Snapshot, failures) /\ AllCollected(checkpoint, failures)
  BY CheckpointMoves DEF CollectedInv, StoresInv
<1>2. ASSUME NEW found, NEW done, NEW total \in Nat,
             AllCollected([assets |-> found, done |-> done, total |-> total], later),
             assets' = found, doneSlices' = done, totalAssets' = total
      PROVE  AllCollected(Snapshot', later)
  BY <1>2 DEF Snapshot
<1>3. /\ IsFiniteSet(assets) /\ totalAssets \in Nat
      /\ \A s \in doneSlices \cap InFull : Collected(s, assets, totalAssets, failures)
  BY <1>1 DEF AllCollected, Snapshot, CrawlTypeInv, TypeOK
<1> HIDE DEF later
<1>4. CASE UNCHANGED <<assets, doneSlices, totalAssets>>
  <2>1. Snapshot' = Snapshot
    BY <1>4 DEF Snapshot
  <2> QED
    BY <1>1, <2>1, AllCollectedLater DEF later
<1>5. CASE StartCrawl
  <2>1. assets' = assets /\ doneSlices' = {}
    BY <1>5 DEF StartCrawl, At, CollectedInv, ResumeInv
  <2> QED
    BY <1>3, <2>1 DEF AllCollected, Snapshot
<1>6. CASE ResumeAssets
  <2>1. doneSlices' = {} /\ assets' \in {assets, checkpoint.assets}
    BY <1>6 DEF ResumeAssets, At, CollectedInv, ResumeInv
  <2>2. IsFiniteSet(checkpoint.assets)
    BY <1>1 DEF AllCollected
  <2> QED
    BY <1>3, <2>1, <2>2 DEF AllCollected, Snapshot
<1>7. CASE ResumeSlices
  <2>1. doneSlices' = copy.done /\ UNCHANGED <<assets, totalAssets, failures>>
    BY <1>7 DEF ResumeSlices, counters
  <2>2. assets = copy.assets /\ totalAssets = copy.total
    BY <1>7 DEF ResumeSlices, At, CollectedInv, ResumeInv
  <2>3. \A s \in copy.done \cap InFull : Collected(s, assets, totalAssets, failures)
    BY <2>2 DEF AllCollected, CollectedInv, StoresInv
  <2> QED
    BY <1>3, <2>1, <2>3 DEF AllCollected, Snapshot, later
<1>8. CASE FetchPage
  <2>1. UNCHANGED <<doneSlices, totalAssets>>
    BY <1>8 DEF FetchPage
  <2>2. assets \subseteq assets' /\ IsFiniteSet(assets')
    <3>1. PICK p \in pending :
             \/ assets' = assets
             \/ p <= Len(Listing[Slice]) /\ assets' = assets \cup Listing[Slice][p]
      BY <1>8 DEF FetchPage
    <3>2. CASE assets' = assets
      BY <1>3, <3>2
    <3>3. CASE p <= Len(Listing[Slice]) /\ assets' = assets \cup Listing[Slice][p]
      <4>1. /\ phase = "fetch" /\ position \in Nat /\ position >= 1 /\ position <= Len(Plan)
            /\ p \in start..LastOfBatch /\ start \in Nat /\ start >= 1
        BY <1>8 DEF FetchPage, At, CrawlTypeInv, TypeOK, WalkInv, OnSlice
      <4>2. Len(Listing[Slice]) \in Nat
        BY <4>1, SliceOfPlan
      <4>3. p \in 1..Len(Listing[Slice])
        BY <3>3, <4>1, <4>2
      <4>4. IsFiniteSet(Listing[Slice][p])
        BY <4>1, <4>3, SliceOfPlan
      <4> QED
        BY <1>3, <3>3, <4>4, FS_Union
    <3> QED
      BY <3>1, <3>2, <3>3
  <2>3. ASSUME NEW s \in doneSlices \cap InFull
        PROVE  Collected(s, assets', totalAssets, later)
    BY <1>1, <1>3, <2>2, CollectedGrows
  <2> QED
    BY <2>1, <2>2, <2>3 DEF AllCollected, Snapshot, later
<1>9. CASE MarkDone
  <2>1. doneSlices' = doneSlices \cup {Slice} /\ UNCHANGED <<assets, totalAssets, failures>>
    BY <1>9 DEF MarkDone, counters
  <2>2. Slice \in InFull => Collected(Slice, assets, totalAssets, failures)
    BY <1>9 DEF MarkDone, At, CollectedInv, SliceInv
  <2> QED
    BY <1>3, <2>1, <2>2 DEF AllCollected, Snapshot, later
<1>10. CASE Finish
  <2>1. assets' = {} /\ doneSlices' = {}
    BY <1>10 DEF Finish
  <2> QED
    BY <2>1, FS_EmptySet DEF AllCollected, Snapshot
<1> QED
  BY <1>4, <1>5, <1>6, <1>7, <1>8, <1>9, <1>10
     DEF Next, CrawlStep, NextSlice, StartBatch, EndBatch, Judge, CopyCheckpoint, WriteCheckpoint,
     CheckpointFallsDue, CheckpointAges, Gate, DeleteCheckpoint, Shutdown, WriteFinal, Exit, Kill,
     Die, Restart, vars, crawlerVars, later

\* The slice the crawl is on, step by step.
LEMMA SliceStep ==
  ASSUME CrawlTypeInv, CollectedInv, [Next]_vars
  PROVE  SliceInv'
<1> USE DEF SliceInv, At, vars, crawlVars, crawlerVars, counters
<1>1. SliceInv /\ failures \in Nat /\ start \in Nat /\ Batch \in Nat
  BY CrawlBounds DEF CollectedInv, StoresInv, CrawlTypeInv, TypeOK
<1>2. ASSUME UNCHANGED <<phase, position, start, pending, exhausted, assets, totalAssets, failures>>
      PROVE  SliceInv'
  BY <1>1, <1>2 DEF Slice
<1>3. ASSUME phase' \notin {"batch", "fetch", "judge", "mark"}
      PROVE  SliceInv'
  BY <1>3
<1>4. ASSUME phase = "batch" \/ phase = "fetch" \/ phase = "judge" \/ phase = "mark"
      PROVE  Slice \in Slices /\ PageBudget[Slice] \in Nat /\ Len(Listing[Slice]) \in Nat
  BY <1>4, SliceOfPlan DEF CrawlTypeInv, TypeOK, WalkInv, OnSlice
<1>5. CASE NextSlice
  <2>1. CASE phase' # "batch"
    BY <1>3, <1>5, <2>1 DEF NextSlice
  <2>2. CASE phase' = "batch"
    <3>1. start' = 1
      BY <1>5, <2>2 DEF NextSlice
    <3> QED
      BY <2>2, <3>1 DEF Fetched
  <2> QED
    BY <2>1, <2>2
<1>6. CASE StartBatch
  <2>1. /\ phase = "batch" /\ UNCHANGED <<position, start, assets, totalAssets, failures>>
        /\ Fetched(Slice, start, {}, assets, failures)
    BY <1>1, <1>6 DEF StartBatch
  <2>2. Slice' = Slice
    BY <2>1 DEF Slice
  <2>3. CASE phase' = "mark"
    <3>1. Collected(Slice, assets, totalAssets, failures)
      <4>1. CASE CrawlDone
        BY <4>1 DEF CrawlDone, Collected
      <4>2. CASE PageBudget[Slice] < start
        BY <1>1, <1>4, <2>1, <4>2, FetchedToEnd
      <4> QED
        BY <1>1, <1>4, <1>6, <2>1, <2>3, <4>1, <4>2 DEF StartBatch
    <3> QED
      BY <2>1, <2>2, <2>3, <3>1
  <2>4. CASE phase' = "fetch"
    <3>1. start <= PageBudget[Slice] /\ pending' = start..LastOfBatch /\ exhausted' = FALSE
      BY <1>6, <2>4 DEF StartBatch, LastOfBatch
    <3>2. /\ LastOfBatch \in Nat /\ LastOfBatch \in {start + Batch - 1, PageBudget[Slice]}
      BY <2>1, <3>1, BatchRange DEF OnSlice
    <3>3. Fetched(Slice, start + Batch, pending', assets, failures)
      BY <1>1, <1>4, <2>1, <3>1, <3>2 DEF Fetched
    <3> QED
      BY <2>1, <2>2, <2>4, <3>1, <3>3
  <2> QED
    BY <1>6, <2>3, <2>4 DEF StartBatch
<1>7. CASE FetchPage
  <2>1. /\ phase = "fetch" /\ UNCHANGED <<phase, position, start>>
        /\ Fetched(Slice, start + Batch, pending, assets, failures)
        /\ exhausted => Len(Listing[Slice]) < start + Batch
    BY <1>1, <1>7 DEF FetchPage
  <2>2. Slice' = Slice
    BY <2>1 DEF Slice
  <2>3. start <= PageBudget[Slice] /\ pending \subseteq start..LastOfBatch
    BY <2>1 DEF CrawlTypeInv, WalkInv
  <2>4. LastOfBatch \in Nat /\ LastOfBatch <= start + Batch - 1
    BY <2>1, <2>3, BatchRange DEF OnSlice
  <2>5. PICK p \in pending :
          /\ pending' = pending \ {p}
          /\ \/ p > Len(Listing[Slice]) /\ UNCHANGED <<assets, failures>>
             \/ /\ p <= Len(Listing[Slice]) /\ exhausted' = exhausted
                /\ assets' = assets \cup Listing[Slice][p] /\ failures' = failures
             \/ exhausted' = exhausted /\ assets' = assets /\ failures' = failures + 1
    BY <1>7 DEF FetchPage
  <2>6. p \in Nat /\ p < start + Batch
    BY <1>1, <2>3, <2>4, <2>5
  <2>7. Fetched(Slice, start + Batch, pending', assets', failures')
    BY <1>1, <1>4, <2>1, <2>5, <2>6 DEF Fetched
  <2>8. exhausted' => Len(Listing[Slice]) < start + Batch
    <3>1. p > Len(Listing[Slice]) \/ exhausted' = exhausted
      BY <2>5
    <3>2. p > Len(Listing[Slice]) => Len(Listing[Slice]) < start + Batch
      BY <1>1, <1>4, <2>1, <2>6
    <3> QED
      BY <2>1, <3>1, <3>2
  <2> QED
    BY <2>1, <2>2, <2>7, <2>8
<1>8. CASE EndBatch
  BY <1>1, <1>8 DEF EndBatch, Slice
<1>9. CASE Judge
  <2>1. /\ phase = "judge" /\ UNCHANGED <<position, assets, totalAssets, failures>>
        /\ Fetched(Slice, start + Batch, {}, assets, failures)
        /\ exhausted => Len(Listing[Slice]) < start + Batch
    BY <1>1, <1>9 DEF Judge
  <2>2. Slice' = Slice
    BY <2>1 DEF Slice
  <2>3. CASE phase' = "mark"
    <3>1. Slice \in InFull => exhausted
      BY <1>9, <2>3 DEF Judge
    <3>2. Slice \in InFull => Collected(Slice, assets, totalAssets, failures)
      <4>1. start + Batch \in Nat
        BY <1>1
      <4> QED
        BY <1>4, <2>1, <3>1, <4>1, FetchedToEnd
    <3> QED
      BY <2>1, <2>2, <2>3, <3>2
  <2>4. CASE phase' = "batch" /\ start' = start + Batch
    BY <2>1, <2>2, <2>4
  <2> QED
    BY <1>9, <2>3, <2>4 DEF Judge
<1> QED
  BY <1>2, <1>3, <1>5, <1>6, <1>7, <1>8, <1>9
     DEF Next, CrawlStep, StartCrawl, ResumeAssets, ResumeSlices, MarkDone, CopyCheckpoint,
     WriteCheckpoint, CheckpointFallsDue, CheckpointAges, Gate, DeleteCheckpoint, Shutdown,
     WriteFinal, Exit, Kill, Die, Finish, Restart, At

\* A resume between its two halves.
LEMMA ResumeStep ==
  ASSUME CrawlTypeInv, CollectedInv, [Next]_vars
  PROVE  ResumeInv'
<1> USE DEF ResumeInv, CollectedInv, At, Running, Put, Fault, vars, crawlVars, crawlerVars,
        diskVars,
            counters
<1>1. CASE StartCrawl
  BY <1>1 DEF StartCrawl
<1>2. CASE ResumeAssets
  BY <1>2 DEF ResumeAssets, Resumable
<1>3. CASE ResumeSlices
  BY <1>3 DEF ResumeSlices
<1>4. CASE NextSlice
  BY <1>4 DEF NextSlice
<1>5. CASE StartBatch
  BY <1>5 DEF StartBatch
<1>6. CASE FetchPage
  BY <1>6 DEF FetchPage
<1>7. CASE EndBatch
  BY <1>7 DEF EndBatch
<1>8. CASE Judge
  BY <1>8 DEF Judge
<1>9. CASE MarkDone
  BY <1>9 DEF MarkDone
<1>10. CASE CopyCheckpoint
  BY <1>10 DEF CopyCheckpoint
<1>11. CASE WriteCheckpoint
  BY <1>11 DEF WriteCheckpoint
<1>12. CASE Gate
  BY <1>12 DEF Gate, Finish
<1>13. CASE DeleteCheckpoint
  BY <1>13 DEF DeleteCheckpoint, Finish
<1>14. CASE CheckpointFallsDue
  BY <1>14 DEF CheckpointFallsDue
<1>15. CASE CheckpointAges
  BY <1>15 DEF CheckpointAges
<1>16. CASE Shutdown
  BY <1>16 DEF Shutdown, Snapshot
<1>17. CASE WriteFinal
  BY <1>17 DEF WriteFinal, NoCheckpoint
<1>18. CASE Exit \/ Kill
  BY <1>18 DEF Exit, Kill, Die, Finish, NoCheckpoint
<1>19. CASE Restart
  BY <1>19 DEF Restart
<1>20. CASE UNCHANGED vars
  BY <1>20
<1> QED
  BY <1>1, <1>2, <1>3, <1>4, <1>5, <1>6, <1>7, <1>8, <1>9, <1>10, <1>11, <1>12, <1>13, <1>14,
     <1>15, <1>16, <1>17, <1>18, <1>19, <1>20 DEF Next, CrawlStep

\* Before the first crawl no slice counts as done.
LEMMA InitCollected == Init => CollectedInv
  BY FS_EmptySet DEF Init, CollectedInv, StoresInv, SliceInv, ResumeInv, AllCollected, Snapshot,
     NoCheckpoint

\* A slice that a checkpoint lists as done, and that a later run will therefore
\* never visit again, has left all its pages to that checkpoint.
THEOREM NothingIsSkipped == Spec => []DoneSlicesCollected
<1>1. CrawlTypeInv /\ CollectedInv /\ [Next]_vars => CollectedInv'
  BY StoredStep, CrawlerStep, SliceStep, ResumeStep DEF CollectedInv, StoresInv
<1>2. CollectedInv => DoneSlicesCollected
  <2> SUFFICES ASSUME StoresInv, NEW cp \in {checkpoint, copy, final}, NEW s \in cp.done \cap InFull
               PROVE  Collected(s, cp.assets, cp.total, failures)
    BY DEF CollectedInv, DoneSlicesCollected, Collected
  <2> QED
    BY DEF StoresInv, AllCollected
<1> QED
  BY <1>1, <1>2, InitCollected, CrawlTypeCorrect, PTL DEF Spec
-----------------------------------------------------------------------------
(* A view is only abandoned on a full window that brought too little.      *)

\* In a first run a resume finds nothing, whatever a shutdown writes before it.
FirstRunInv ==
    /\ runs \in Nat
    /\ phase = "idle" => assets = {}
    /\ runs = 0 => phase = "idle" /\ checkpoint = NoCheckpoint /\ final = NoCheckpoint
    /\ runs = 1 /\ phase \in {"resume", "resume slices"} =>
          /\ assets = {}
          /\ checkpoint.assets = {} /\ checkpoint.done = {}
          /\ final.assets = {} /\ final.done = {}

\* brought gives each page of slice s up to the last one fetched a part of what
\* it shows,
Brought(brought, s, last, except) ==
    /\ brought \in [Nat -> SUBSET Listed]
    /\ \A p \in Nat :
          /\ brought[p] # {} => p \in 1..Len(Listing[s]) /\ brought[p] \subseteq Listing[s][p]
          /\ p > last \/ p \in except => brought[p] = {}

\* which with what the views done before show is all that was found,
Explains(brought, found, before) == found \subseteq before \cup UNION {brought[p] : p \in Nat}

\* and the window holds the yields of the pages up to last, each of them at
\* least what the page brought.
Counted(brought, yields, last) ==
    /\ last <= 2 * Batch => Len(yields) = last
    /\ last > 2 * Batch => Len(yields) = 2 * Batch
    /\ \A i \in 1..Len(yields) : Cardinality(brought[last - Len(yields) + i]) <= yields[i]

\* Unless one of them was past the view's end, the batch's pages lie within it.
InView(except) ==
    /\ start <= PageBudget[Slice]
    /\ ~exhausted => (start..LastOfBatch) \ except \subseteq 1..Len(Listing[Slice])

\* In a first run without failures every asset was brought by a page the crawl
\* knows the yield of, as long as that page is in the window.
CreditInv ==
    runs = 1 /\ failures = 0 =>
        /\ phase \in {"loop", "copy", "write", "gate", "delete"} => assets \subseteq SeenElsewhere
        /\ phase = "mark" => assets \subseteq SeenElsewhere \cup UNION Range(Listing[Slice])
        /\ phase = "batch" =>
              \E brought : /\ Brought(brought, Slice, start - 1, {})
                           /\ Explains(brought, assets, SeenElsewhere)
                           /\ start <= PageBudget[Slice] => Counted(brought, recentYield, start - 1)
        /\ phase = "fetch" =>
              \E brought : /\ Brought(brought, Slice, LastOfBatch, pending)
                           /\ Explains(brought, assets, SeenElsewhere)
                           /\ Counted(brought, recentYield, start - 1)
                           /\ \A p \in start..LastOfBatch : Cardinality(brought[p]) <= perPage[p]
        /\ phase = "fetch" => InView(pending)
        /\ phase = "judge" => InView({})
        /\ phase = "judge" =>
              \E brought : /\ Brought(brought, Slice, LastOfBatch, {})
                           /\ Explains(brought, assets, SeenElsewhere)
                           /\ Counted(brought, recentYield, LastOfBatch)

\* Nothing but a finished crawl's own checkpoints is on disk once a run is over.
LEMMA FirstRunStep ==
  ASSUME CrawlTypeInv, CollectedInv, FirstRunInv, [Next]_vars
  PROVE  FirstRunInv'
<1> USE DEF FirstRunInv, ResumeInv, At, Running, Put, Fault, NoCheckpoint, vars, crawlVars,
        crawlerVars, diskVars, counters
<1>0. ResumeInv
  BY DEF CollectedInv
<1>1. CASE StartCrawl
  BY <1>0, <1>1 DEF StartCrawl
<1>2. CASE ResumeAssets
  BY <1>2 DEF ResumeAssets, Resumable
<1>3. CASE ResumeSlices
  BY <1>3 DEF ResumeSlices
<1>4. CASE NextSlice
  BY <1>4 DEF NextSlice
<1>5. CASE StartBatch
  BY <1>5 DEF StartBatch
<1>6. CASE FetchPage
  BY <1>6 DEF FetchPage
<1>7. CASE EndBatch
  BY <1>7 DEF EndBatch
<1>8. CASE Judge
  BY <1>8 DEF Judge
<1>9. CASE MarkDone
  BY <1>9 DEF MarkDone
<1>10. CASE CopyCheckpoint
  BY <1>10 DEF CopyCheckpoint
<1>11. CASE WriteCheckpoint
  BY <1>11 DEF WriteCheckpoint
<1>12. CASE Gate
  BY <1>12 DEF Gate, Finish
<1>13. CASE DeleteCheckpoint
  BY <1>13 DEF DeleteCheckpoint, Finish
<1>14. CASE CheckpointFallsDue
  BY <1>14 DEF CheckpointFallsDue
<1>15. CASE CheckpointAges
  BY <1>15 DEF CheckpointAges
<1>16. CASE Shutdown
  BY <1>0, <1>16 DEF Shutdown, Snapshot
<1>17. CASE WriteFinal
  <2>1. /\ checkpoint' = final \/ checkpoint' = checkpoint
        /\ final' = final \/ final' = NoCheckpoint
        /\ UNCHANGED <<phase, runs, assets>>
    BY <1>17 DEF WriteFinal
  <2>2. NoCheckpoint.assets = {} /\ NoCheckpoint.done = {}
    OBVIOUS
  <2> QED
    BY <2>1, <2>2
<1>18. CASE Exit \/ Kill
  BY <1>18 DEF Exit, Kill, Die, Finish
<1>19. CASE Restart
  BY <1>19 DEF Restart
<1>20. CASE UNCHANGED vars
  BY <1>20
<1> QED
  BY <1>1, <1>2, <1>3, <1>4, <1>5, <1>6, <1>7, <1>8, <1>9, <1>10, <1>11, <1>12, <1>13, <1>14,
     <1>15, <1>16, <1>17, <1>18, <1>19, <1>20 DEF Next, CrawlStep

\* The window after a batch: the last 2 * Batch of the yields before and the
\* batch's own.
LEMMA WindowIs ==
  ASSUME CrawlTypeInv, EndBatch
  PROVE  LET size == LastOfBatch - start + 1
             n    == Len(recentYield) + size
             len  == IF n <= 2 * Batch THEN n ELSE 2 * Batch
         IN  /\ Len(recentYield') = len
             /\ \A i \in 1..len :
                   LET k == n - len + i
                   IN  recentYield'[i] = IF k <= Len(recentYield) THEN recentYield[k]
                                         ELSE perPage[start + k - Len(recentYield) - 1]
<1> DEFINE size  == LastOfBatch - start + 1
           pages == [i \in 1..size |-> perPage[start + i - 1]]
           all   == recentYield \o pages
           n     == Len(recentYield) + size
           from  == Max({1, n - 2 * Batch + 1})
           len   == IF n <= 2 * Batch THEN n ELSE 2 * Batch
<1>1. /\ start \in Nat /\ start <= LastOfBatch /\ LastOfBatch \in Nat /\ Batch \in Nat \ {0}
      /\ perPage \in [start..LastOfBatch -> Nat] /\ recentYield \in Seq(Nat)
  BY BatchRange, CrawlBounds DEF CrawlTypeInv, TypeOK, WalkInv, OnSlice, EndBatch, At
<1>2. size \in Nat /\ Cardinality(DOMAIN perPage) = size
  BY <1>1, FS_Interval
<1>3. pages \in Seq(Nat) /\ Len(pages) = size
  <2>1. \A i \in 1..size : perPage[start + i - 1] \in Nat
    BY <1>1
  <2> HIDE DEF size
  <2> QED
    BY <1>2, <2>1
<1>4. /\ all \in Seq(Nat) /\ Len(all) = n /\ n \in Nat
      /\ \A k \in 1..n : all[k] = IF k <= Len(recentYield) THEN recentYield[k]
                                  ELSE perPage[start + k - Len(recentYield) - 1]
  <2> HIDE DEF size
  <2> QED
    BY <1>1, <1>2, <1>3
<1>5. recentYield' = SubSeq(all, Max({1, Len(all) - 2 * Batch + 1}), Len(all))
  BY <1>2 DEF EndBatch
<1>6. recentYield' = SubSeq(all, from, n)
  BY <1>4, <1>5
<1> HIDE DEF all, n, size
<1>7. from \in Nat /\ from = n - len + 1 /\ len \in Nat /\ len <= n
  <2> DEFINE first == n - 2 * Batch + 1
  <2>1. 1 \in Int /\ first \in Int
    BY <1>1, <1>4
  <2> HIDE DEF first
  <2>2. /\ Max({1, first}) \in {1, first} /\ Max({1, first}) >= 1 /\ Max({1, first}) >= first
    BY <2>1, MinMaxOfTwo
  <2>3. first >= 1 => Max({1, first}) = first
    BY <2>1, <2>2
  <2>4. first <= 1 => Max({1, first}) = 1
    BY <2>1, <2>2
  <2> QED
    BY <1>1, <1>4, <2>3, <2>4 DEF first
<1> HIDE DEF from, len
<1>8. /\ Len(SubSeq(all, from, n)) = len
      /\ \A i \in 1..len : SubSeq(all, from, n)[i] = all[from + i - 1]
  BY <1>4, <1>7, SubSeqProperties
<1>9. \A i \in 1..len : n - len + i \in 1..n /\ from + i - 1 = n - len + i
  BY <1>4, <1>7
<1>10. ASSUME NEW i \in 1..len
       PROVE  recentYield'[i] = IF n - len + i <= Len(recentYield) THEN recentYield[n - len + i]
                                ELSE perPage[start + (n - len + i) - Len(recentYield) - 1]
  <2>1. recentYield'[i] = all[n - len + i] /\ n - len + i \in 1..n
    BY <1>6, <1>8, <1>9
  <2> DEFINE k == n - len + i
  <2>2. recentYield'[i] = all[k] /\ k \in 1..n
    BY <2>1
  <2> HIDE DEF k
  <2>3. recentYield'[i] = IF k <= Len(recentYield) THEN recentYield[k]
                          ELSE perPage[start + k - Len(recentYield) - 1]
    BY <1>4, <2>2
  <2> QED
    BY <2>3 DEF k
<1>11. Len(recentYield') = len
  BY <1>6, <1>8
<1> QED
  BY <1>10, <1>11 DEF n, size, len

\* The window counts the batch's yields too once it has ended.
LEMMA BatchCounted ==
  ASSUME CrawlTypeInv, EndBatch, NEW brought, Counted(brought, recentYield, start - 1),
         \A p \in start..LastOfBatch : Cardinality(brought[p]) <= perPage[p]
  PROVE  Counted(brought, recentYield', LastOfBatch)
<1>1. /\ start \in Nat /\ start >= 1 /\ start <= LastOfBatch /\ LastOfBatch \in Nat
      /\ Batch \in Nat \ {0} /\ recentYield \in Seq(Nat)
  BY BatchRange, CrawlBounds DEF CrawlTypeInv, TypeOK, WalkInv, OnSlice, EndBatch, At
<1> DEFINE had  == Len(recentYield)
           n    == had + (LastOfBatch - start + 1)
           len  == IF n <= 2 * Batch THEN n ELSE 2 * Batch
<1>2. /\ Len(recentYield') = len
      /\ \A i \in 1..len :
            recentYield'[i] = IF n - len + i <= had THEN recentYield[n - len + i]
                              ELSE perPage[start + (n - len + i) - had - 1]
  BY WindowIs
<1>3. /\ had \in Nat /\ (start - 1 <= 2 * Batch => had = start - 1)
      /\ (start - 1 > 2 * Batch => had = 2 * Batch)
      /\ \A i \in 1..had : Cardinality(brought[start - 1 - had + i]) <= recentYield[i]
  BY <1>1 DEF Counted
<1>4. n \in Nat /\ n >= had /\ len \in Nat /\ len <= n /\ had <= 2 * Batch
  BY <1>1, <1>3
<1>5. (LastOfBatch <= 2 * Batch => len = LastOfBatch) /\ (LastOfBatch > 2 * Batch => len = 2 * Batch)
  BY <1>1, <1>3
<1>6. ASSUME NEW i \in 1..len
      PROVE  Cardinality(brought[LastOfBatch - len + i]) <= recentYield'[i]
  <2> DEFINE k == n - len + i
  <2>1. k \in 1..n
    BY <1>4
  <2>2. recentYield'[i] = IF k <= had THEN recentYield[k] ELSE perPage[start + k - had - 1]
    BY <1>2
  <2>3. LastOfBatch - len + i = start - 1 - had + k
    BY <1>1, <1>3, <1>4
  <2> HIDE DEF k
  <2>4. CASE k <= had
    BY <1>3, <2>1, <2>2, <2>3, <2>4
  <2>5. CASE k > had
    <3>1. start + k - had - 1 \in start..LastOfBatch /\ start - 1 - had + k = start + k - had - 1
      BY <1>1, <1>3, <1>4, <2>1, <2>5
    <3> QED
      BY <1>3, <2>1, <2>2, <2>3, <2>5, <3>1
  <2> QED
    BY <1>3, <2>1, <2>4, <2>5
<1> HIDE DEF len, n
<1> QED
  BY <1>2, <1>5, <1>6 DEF Counted

\* Credit is kept by every step of a slice,
LEMMA CreditOnSlice ==
  ASSUME CrawlTypeInv, CollectedInv, CreditInv, runs' = 1, failures' = 0,
         StartBatch \/ FetchPage \/ EndBatch \/ Judge \/ MarkDone
  PROVE  CreditInv'
<1> USE DEF At
<1>0. /\ runs = 1 /\ failures = 0 /\ failures \in Nat /\ position' = position /\ Slice' = Slice
      /\ phase \in {"batch", "fetch", "judge", "mark"}
  <2>1. failures \in Nat /\ runs' = runs /\ (failures' = failures \/ failures' = failures + 1)
    BY DEF StartBatch, FetchPage, EndBatch, Judge, MarkDone, CollectedInv, StoresInv, counters
  <2>2. position' = position /\ phase \in {"batch", "fetch", "judge", "mark"}
    BY DEF StartBatch, FetchPage, EndBatch, Judge, MarkDone
  <2> QED
    BY <2>1, <2>2 DEF Slice
<1>1. /\ start \in Nat /\ start >= 1 /\ Batch \in Nat \ {0} /\ PageBudget[Slice] \in Nat
      /\ Len(Listing[Slice]) \in Nat /\ recentYield \in Seq(Nat)
      /\ \A p \in 1..Len(Listing[Slice]) :
            IsFiniteSet(Listing[Slice][p]) /\ Listing[Slice][p] \subseteq Listed
  BY <1>0, SliceOfPlan, CrawlBounds DEF CrawlTypeInv, TypeOK, WalkInv, OnSlice
<1>2. phase # "mark" => doneSlices' = doneSlices /\ SeenElsewhere' = SeenElsewhere
  BY DEF StartBatch, FetchPage, EndBatch, Judge, MarkDone, SeenElsewhere, crawlerVars
<1>3. ASSUME NEW brought, NEW last, NEW except, Brought(brought, Slice, last, except),
             Explains(brought, assets, SeenElsewhere)
      PROVE  assets \subseteq SeenElsewhere \cup UNION Range(Listing[Slice])
  <2>1. \A p \in 1..Len(Listing[Slice]) : Listing[Slice][p] \in Range(Listing[Slice])
    BY <1>0, <1>1, CrawlInputs, SliceOfPlan DEF CrawlTypeInv, TypeOK, WalkInv, OnSlice
  <2> QED
    BY <1>3, <2>1 DEF Brought, Explains
<1>4. CASE StartBatch
  <2>1. PICK brought : /\ Brought(brought, Slice, start - 1, {})
                       /\ Explains(brought, assets, SeenElsewhere)
                       /\ start <= PageBudget[Slice] => Counted(brought, recentYield, start - 1)
    BY <1>0, <1>4 DEF StartBatch, CreditInv
  <2>2. UNCHANGED <<start, assets, recentYield>>
    BY <1>4 DEF StartBatch, crawlerVars
  <2>3. LastOfBatch' = LastOfBatch
    BY <1>0, <2>2 DEF LastOfBatch
  <2>4. CASE phase' = "mark"
    BY <1>0, <1>2, <1>3, <1>4, <2>1, <2>2, <2>4 DEF StartBatch, CreditInv
  <2>5. CASE phase' = "fetch"
    <3>1. /\ start <= PageBudget[Slice] /\ pending' = start..LastOfBatch
          /\ perPage' = [p \in pending' |-> 0]
      BY <1>4, <2>5 DEF StartBatch
    <3>2. LastOfBatch \in Nat /\ start <= LastOfBatch
      BY <1>4, <3>1, BatchRange DEF StartBatch, OnSlice
    <3>3. Brought(brought, Slice, LastOfBatch, pending')
      BY <1>1, <2>1, <3>1, <3>2 DEF Brought
    <3>4. \A p \in start..LastOfBatch : Cardinality(brought[p]) <= perPage'[p]
      <4>1. \A p \in start..LastOfBatch : p \in Nat /\ p > start - 1 /\ brought[p] = {}
        BY <1>1, <2>1, <3>2 DEF Brought
      <4> QED
        BY <3>1, <4>1, FS_EmptySet
    <3>5. InView(pending)'
      BY <1>0, <2>2, <2>3, <3>1 DEF InView
    <3> QED
      BY <1>0, <1>2, <1>4, <2>1, <2>2, <2>3, <2>5, <3>1, <3>3, <3>4, <3>5 DEF CreditInv, StartBatch
  <2> QED
    BY <1>4, <2>4, <2>5 DEF StartBatch
<1>5. CASE FetchPage
  <2>1. PICK brought : /\ Brought(brought, Slice, LastOfBatch, pending)
                       /\ Explains(brought, assets, SeenElsewhere)
                       /\ Counted(brought, recentYield, start - 1)
                       /\ \A p \in start..LastOfBatch : Cardinality(brought[p]) <= perPage[p]
                       /\ InView(pending)
    BY <1>0, <1>5 DEF FetchPage, CreditInv
  <2>2. UNCHANGED <<phase, start, recentYield>> /\ phase = "fetch"
    BY <1>5 DEF FetchPage
  <2>3. LastOfBatch' = LastOfBatch
    BY <1>0, <2>2 DEF LastOfBatch
  <2>4. /\ start <= PageBudget[Slice] /\ pending \subseteq start..LastOfBatch
        /\ perPage \in [start..LastOfBatch -> Nat] /\ LastOfBatch \in Nat
    BY <2>2, BatchRange DEF CrawlTypeInv, WalkInv, OnSlice
  <2>5. PICK p \in pending :
          /\ pending' = pending \ {p}
          /\ \/ p > Len(Listing[Slice]) /\ exhausted' = TRUE /\ UNCHANGED <<assets, perPage>>
             \/ /\ p <= Len(Listing[Slice]) /\ exhausted' = exhausted
                /\ perPage' = [perPage EXCEPT ![p] = Cardinality(Listing[Slice][p] \ assets)]
                /\ assets' = assets \cup Listing[Slice][p]
             \/ failures' = failures + 1
    BY <1>5 DEF FetchPage
  <2>6. p \in Nat /\ p >= start /\ p <= LastOfBatch /\ p >= 1
    BY <1>1, <2>4, <2>5
  <2>7. CASE p > Len(Listing[Slice]) /\ exhausted' = TRUE /\ UNCHANGED <<assets, perPage>>
    <3>1. Brought(brought, Slice, LastOfBatch, pending')
      BY <1>1, <2>1, <2>5, <2>6, <2>7 DEF Brought
    <3>2. InView(pending)'
      BY <1>0, <2>2, <2>4, <2>7 DEF InView
    <3> QED
      BY <1>0, <1>2, <2>1, <2>2, <2>3, <2>7, <3>1, <3>2 DEF CreditInv
  <2>8. CASE /\ p <= Len(Listing[Slice]) /\ exhausted' = exhausted
             /\ perPage' = [perPage EXCEPT ![p] = Cardinality(Listing[Slice][p] \ assets)]
             /\ assets' = assets \cup Listing[Slice][p]
    <3> DEFINE new  == Listing[Slice][p] \ assets
               more == [brought EXCEPT ![p] = new]
    <3>1. p \in 1..Len(Listing[Slice]) /\ new \subseteq Listed /\ new \subseteq Listing[Slice][p]
      BY <1>1, <2>6, <2>8
    <3>2. /\ brought \in [Nat -> SUBSET Listed] /\ brought[p] = {}
          /\ \A q \in Nat : more[q] = IF q = p THEN new ELSE brought[q]
          /\ more \in [Nat -> SUBSET Listed]
      BY <2>1, <2>5, <2>6, <3>1 DEF Brought
    <3>3. assets' \subseteq assets \cup new
      BY <2>8
    <3> HIDE DEF more
    <3>4. Brought(more, Slice, LastOfBatch, pending')
      <4>1. ASSUME NEW q \in Nat
            PROVE  /\ more[q] # {} => q \in 1..Len(Listing[Slice]) /\ more[q] \subseteq Listing[Slice][q]
                   /\ q > LastOfBatch \/ q \in pending' => more[q] = {}
        <5>1. CASE q = p
          <6>1. ~(q > LastOfBatch) /\ q \notin pending'
            BY <2>4, <2>5, <2>6, <5>1
          <6> QED
            BY <3>1, <3>2, <5>1, <6>1
        <5>2. CASE q # p
          BY <2>1, <2>5, <3>2, <5>2 DEF Brought
        <5> QED
          BY <5>1, <5>2
      <4> QED
        BY <3>2, <4>1 DEF Brought
    <3>5. Explains(more, assets', SeenElsewhere)
      <4>1. ASSUME NEW x \in assets, x \notin SeenElsewhere
            PROVE  \E q \in Nat : x \in more[q]
        <5>1. PICK q \in Nat : x \in brought[q]
          BY <2>1, <4>1 DEF Explains
        <5>2. q # p
          BY <3>2, <5>1
        <5> QED
          BY <3>2, <5>1, <5>2
      <4>2. \A x \in new : x \in more[p]
        BY <2>6, <3>2
      <4> HIDE DEF new
      <4> QED
        BY <2>6, <3>3, <4>1, <4>2 DEF Explains
    <3>6. Counted(more, recentYield, start - 1)
      <4>1. ASSUME NEW i \in 1..Len(recentYield)
            PROVE  more[start - 1 - Len(recentYield) + i] = brought[start - 1 - Len(recentYield) + i]
        <5>1. Len(recentYield) \in Nat /\ Len(recentYield) <= start - 1
          BY <1>1, <2>1 DEF Counted
        <5>2. start - 1 - Len(recentYield) + i \in Nat /\ start - 1 - Len(recentYield) + i < p
          BY <1>1, <2>6, <5>1
        <5> QED
          BY <2>6, <3>2, <5>2
      <4> QED
        BY <2>1, <4>1 DEF Counted
    <3>7. \A q \in start..LastOfBatch : Cardinality(more[q]) <= perPage'[q]
      <4>1. Cardinality(new) \in Nat
        BY <1>1, <3>1, FS_Difference, FS_CardinalityType
      <4>2. ASSUME NEW q \in start..LastOfBatch
            PROVE  Cardinality(more[q]) <= perPage'[q]
        <5>1. q \in Nat
          BY <1>1
        <5> DEFINE size == Cardinality(new)
        <5>2. perPage'[q] = IF q = p THEN size ELSE perPage[q]
          BY <2>4, <2>8
        <5>3. more[q] = IF q = p THEN new ELSE brought[q]
          BY <3>2, <5>1
        <5>4. size = Cardinality(new) /\ size \in Nat
          BY <4>1
        <5> HIDE DEF size, new
        <5> QED
          BY <2>1, <5>2, <5>3, <5>4
      <4> QED
        BY <4>2
    <3>8. InView(pending)'
      <4>1. ~exhausted => (start..LastOfBatch) \ (pending \ {p}) \subseteq 1..Len(Listing[Slice])
        BY <2>1, <3>1 DEF InView
      <4> QED
        BY <1>0, <2>2, <2>3, <2>4, <2>5, <2>8, <4>1 DEF InView
    <3> HIDE DEF new
    <3> QED
      BY <1>0, <1>2, <2>2, <2>3, <3>4, <3>5, <3>6, <3>7, <3>8 DEF CreditInv
  <2>9. failures' # failures + 1
    BY <1>0
  <2> QED
    BY <2>5, <2>7, <2>8, <2>9, Zenon
<1>6. CASE EndBatch
  <2>1. PICK brought : /\ Brought(brought, Slice, LastOfBatch, pending)
                       /\ Explains(brought, assets, SeenElsewhere)
                       /\ Counted(brought, recentYield, start - 1)
                       /\ \A p \in start..LastOfBatch : Cardinality(brought[p]) <= perPage[p]
                       /\ InView(pending)
    BY <1>0, <1>6 DEF EndBatch, CreditInv
  <2>2. phase' = "judge" /\ pending = {} /\ UNCHANGED <<start, exhausted, assets>>
    BY <1>6 DEF EndBatch, crawlerVars
  <2>3. LastOfBatch' = LastOfBatch
    BY <1>0, <2>2 DEF LastOfBatch
  <2>4. Counted(brought, recentYield', LastOfBatch)
    BY <1>6, <2>1, BatchCounted
  <2>5. InView({})'
    BY <1>0, <2>1, <2>2, <2>3 DEF InView
  <2> QED
    BY <1>0, <1>2, <1>6, <2>1, <2>2, <2>3, <2>4, <2>5 DEF CreditInv, EndBatch
<1>7. CASE Judge
  <2>1. PICK brought : /\ Brought(brought, Slice, LastOfBatch, {})
                       /\ Explains(brought, assets, SeenElsewhere)
                       /\ Counted(brought, recentYield, LastOfBatch)
    BY <1>0, <1>7 DEF Judge, CreditInv
  <2>2. phase = "judge" /\ UNCHANGED <<assets, recentYield>>
    BY <1>7 DEF Judge, crawlerVars
  <2>3. CASE phase' = "mark"
    BY <1>0, <1>2, <1>3, <2>1, <2>2, <2>3 DEF CreditInv
  <2>4. CASE phase' = "batch" /\ start' = start + Batch
    <3>1. /\ start' - 1 = start + Batch - 1 /\ LastOfBatch \in Int /\ LastOfBatch <= start + Batch - 1
          /\ LastOfBatch \in {start + Batch - 1, PageBudget[Slice]}
      <4> DEFINE full == start + Batch - 1
                 budget == PageBudget[Slice]
      <4>1. full \in Int /\ budget \in Int /\ start' - 1 = full
        BY <1>1, <2>4
      <4>2. LastOfBatch = Min({full, budget})
        BY DEF LastOfBatch
      <4> HIDE DEF full, budget
      <4>3. /\ LastOfBatch \in {full, budget} /\ LastOfBatch <= full
        BY <4>1, <4>2, MinMaxOfTwo
      <4> QED
        BY <4>1, <4>3 DEF full, budget
    <3>2. Brought(brought, Slice, start' - 1, {})
      BY <1>1, <2>1, <3>1 DEF Brought
    <3>3. start' <= PageBudget[Slice] => Counted(brought, recentYield, start' - 1)
      <4>1. start' <= PageBudget[Slice] => LastOfBatch = start' - 1
        BY <1>1, <2>4, <3>1
      <4> QED
        BY <2>1, <4>1
    <3> QED
      BY <1>0, <1>2, <2>1, <2>2, <2>4, <3>2, <3>3 DEF CreditInv
  <2> QED
    BY <1>7, <2>3, <2>4 DEF Judge
<1>8. CASE MarkDone
  <2>1. /\ phase = "mark" /\ phase' = "copy" /\ assets' = assets
        /\ doneSlices' = doneSlices \cup {Slice}
    BY <1>8 DEF MarkDone
  <2>2. SeenElsewhere' = SeenElsewhere \cup UNION Range(Listing[Slice])
    BY <2>1 DEF SeenElsewhere
  <2> QED
    BY <1>0, <2>1, <2>2 DEF CreditInv
<1> QED
  BY <1>4, <1>5, <1>6, <1>7, <1>8

\* between slices, around a resume and between runs,
LEMMA CreditElsewhere ==
  ASSUME CrawlTypeInv, CollectedInv, FirstRunInv, CreditInv, [Next]_vars,
         ~(StartBatch \/ FetchPage \/ EndBatch \/ Judge \/ MarkDone)
  PROVE  CreditInv'
<1> USE DEF At, Running, vars, crawlVars, crawlerVars, counters
<1>1. ASSUME UNCHANGED <<crawlVars, assets, doneSlices, runs, failures>>
      PROVE  CreditInv'
  BY <1>1 DEF CreditInv, InView, SeenElsewhere, Slice, LastOfBatch
<1>2. ASSUME assets' = {}, phase' \notin {"batch", "fetch", "judge"}
      PROVE  CreditInv'
  BY <1>2 DEF CreditInv
<1>3. ASSUME phase \in {"loop", "copy", "write", "gate"}, UNCHANGED <<assets, doneSlices, runs, failures>>,
             phase' \in {"loop", "copy", "write", "gate", "delete"}
      PROVE  CreditInv'
  BY <1>3 DEF CreditInv, SeenElsewhere
<1>4. CASE StartCrawl
  BY <1>2, <1>4 DEF StartCrawl, FirstRunInv
<1>5. CASE ResumeAssets
  <2>1. CASE runs # 1
    BY <1>5, <2>1 DEF ResumeAssets, CreditInv
  <2>2. CASE runs = 1
    BY <1>2, <1>5, <2>2 DEF ResumeAssets, FirstRunInv
  <2> QED
    BY <2>1, <2>2
<1>6. CASE ResumeSlices
  <2>1. CASE runs # 1
    BY <1>6, <2>1 DEF ResumeSlices, CreditInv
  <2>2. CASE runs = 1
    BY <1>2, <1>6, <2>2 DEF ResumeSlices, FirstRunInv
  <2> QED
    BY <2>1, <2>2
<1>7. CASE NextSlice
  <2>1. phase = "loop" /\ UNCHANGED <<assets, doneSlices, runs, failures>>
    BY <1>7 DEF NextSlice
  <2>2. CASE phase' # "batch"
    <3>1. phase' \in {"loop", "gate"}
      BY <1>7, <2>1, <2>2 DEF NextSlice
    <3> QED
      BY <1>3, <2>1, <3>1
  <2>3. CASE phase' = "batch"
    <3>1. start' = 1 /\ recentYield' = <<>>
      BY <1>7, <2>1, <2>3 DEF NextSlice
    <3> DEFINE none == [p \in Nat |-> {}]
    <3>2. Brought(none, Slice', 0, {})
      BY DEF Brought
    <3>3. SeenElsewhere' = SeenElsewhere
      BY <2>1 DEF SeenElsewhere
    <3>4. Counted(none, recentYield', 0)
      BY <3>1, EmptySeq, CrawlBounds DEF Counted
    <3>5. start' - 1 = 0
      BY <3>1
    <3> HIDE DEF none
    <3>6. SUFFICES ASSUME runs' = 1, failures' = 0
                   PROVE  CreditInv'
      BY DEF CreditInv
    <3>7. Explains(none, assets', SeenElsewhere')
      BY <2>1, <3>3, <3>6 DEF CreditInv, Explains
    <3> QED
      BY <2>3, <3>2, <3>4, <3>5, <3>7 DEF CreditInv
  <2> QED
    BY <2>2, <2>3
<1>8. CASE CopyCheckpoint
  BY <1>3, <1>8 DEF CopyCheckpoint
<1>9. CASE WriteCheckpoint
  BY <1>3, <1>9 DEF WriteCheckpoint
<1>10. CASE CheckpointFallsDue
  BY <1>1, <1>10 DEF CheckpointFallsDue
<1>11. CASE CheckpointAges
  BY <1>1, <1>11 DEF CheckpointAges
<1>12. CASE Gate
  <2>1. CASE Finish
    BY <1>2, <2>1 DEF Finish
  <2>2. CASE ~Finish
    BY <1>3, <1>12, <2>2 DEF Gate
  <2> QED
    BY <2>1, <2>2
<1>13. CASE DeleteCheckpoint \/ Exit \/ Kill
  BY <1>2, <1>13 DEF DeleteCheckpoint, Exit, Kill, Die, Finish
<1>14. CASE Shutdown
  BY <1>1, <1>14 DEF Shutdown
<1>15. CASE WriteFinal
  BY <1>1, <1>15 DEF WriteFinal
<1>16. CASE Restart
  BY <1>1, <1>16 DEF Restart
<1>17. CASE UNCHANGED vars
  BY <1>1, <1>17
<1> QED
  BY <1>4, <1>5, <1>6, <1>7, <1>8, <1>9, <1>10, <1>11, <1>12, <1>13, <1>14, <1>15, <1>16, <1>17
     DEF Next, CrawlStep

\* and so, when a full window does not pay, its pages show too little that is
\* new to the crawl.
LEMMA WindowPays ==
  ASSUME CrawlTypeInv, CollectedInv, CreditInv, phase = "judge", ~exhausted, runs = 1, failures = 0,
         SliceSpent
  PROVE  LET first == LastOfBatch - 2 * Batch + 1
         IN  /\ first >= 1
             /\ Cardinality(PagesOf(first..LastOfBatch) \ (SeenElsewhere \cup PagesOf(1..first - 1)))
                   < MinYield
<1> DEFINE first == LastOfBatch - 2 * Batch + 1
           fresh == PagesOf(first..LastOfBatch) \ (SeenElsewhere \cup PagesOf(1..first - 1))
<1>0. Len(recentYield) = 2 * Batch /\ Total(recentYield) < MinYield /\ MinYield \in Nat
  BY CrawlBounds DEF SliceSpent
<1>1. /\ start \in Nat /\ start >= 1 /\ Batch \in Nat \ {0} /\ PageBudget[Slice] \in Nat
      /\ Len(Listing[Slice]) \in Nat /\ recentYield \in Seq(Nat)
      /\ \A p \in 1..Len(Listing[Slice]) : IsFiniteSet(Listing[Slice][p])
  BY SliceOfPlan, CrawlBounds DEF CrawlTypeInv, TypeOK, WalkInv, OnSlice
<1>2. PICK brought : /\ Brought(brought, Slice, LastOfBatch, {})
                     /\ Explains(brought, assets, SeenElsewhere)
                     /\ Counted(brought, recentYield, LastOfBatch)
  BY DEF CreditInv
<1>3. /\ Fetched(Slice, start + Batch, {}, assets, failures)
      /\ start..LastOfBatch \subseteq 1..Len(Listing[Slice])
  <2>1. pending = {} /\ Fetched(Slice, start + Batch, pending, assets, failures)
    BY DEF CollectedInv, SliceInv
  <2> QED
    BY <2>1 DEF CreditInv, InView
<1>4. /\ LastOfBatch \in Int /\ LastOfBatch <= start + Batch - 1 /\ LastOfBatch <= PageBudget[Slice]
  <2> DEFINE full == start + Batch - 1
             budget == PageBudget[Slice]
  <2>1. full \in Int /\ budget \in Int
    BY <1>1
  <2>2. LastOfBatch = Min({full, budget})
    BY DEF LastOfBatch
  <2> HIDE DEF full, budget
  <2>3. LastOfBatch \in {full, budget} /\ LastOfBatch <= full /\ LastOfBatch <= budget
    BY <2>1, <2>2, MinMaxOfTwo
  <2> QED
    BY <2>1, <2>3 DEF full, budget
<1>5. LastOfBatch >= 2 * Batch /\ LastOfBatch \in Nat /\ first \in Nat /\ first >= 1
  <2>1. LastOfBatch > 2 * Batch \/ LastOfBatch = 2 * Batch
    BY <1>0, <1>1, <1>2, <1>4 DEF Counted
  <2> QED
    BY <1>1, <1>4, <2>1
<1>6. LastOfBatch <= Len(Listing[Slice]) /\ LastOfBatch >= start
  <2>1. start <= PageBudget[Slice]
    BY DEF CreditInv, InView
  <2> QED
    BY <1>1, <1>3, <1>4, <1>5, <2>1, BatchRange DEF OnSlice
<1> DEFINE part == [i \in 1..2 * Batch |-> brought[first - 1 + i]]
           all  == UNION {part[i] : i \in 1..2 * Batch}
<1>7. fresh \subseteq all
  <2> SUFFICES ASSUME NEW x \in fresh PROVE x \in all
    OBVIOUS
  <2>1. PICK p \in first..LastOfBatch : x \in Listing[Slice][p]
    BY DEF PagesOf
  <2>2. p \in 1..Len(Listing[Slice]) /\ p < start + Batch /\ p <= PageBudget[Slice]
    BY <1>1, <1>4, <1>5, <1>6
  <2>3. x \in assets
    BY <1>3, <2>1, <2>2 DEF Fetched
  <2>4. PICK q \in Nat : x \in brought[q]
    BY <1>2, <2>3 DEF Explains
  <2>5. q \in 1..Len(Listing[Slice]) /\ x \in Listing[Slice][q] /\ q <= LastOfBatch
    BY <1>2, <1>5, <2>4 DEF Brought
  <2>6. q >= first
    <3> SUFFICES ASSUME q < first PROVE FALSE
      BY <1>5
    <3>1. q \in 1..first - 1
      BY <1>5, <2>5
    <3> QED
      BY <2>5, <3>1 DEF PagesOf
  <2>7. q - first + 1 \in 1..2 * Batch /\ first - 1 + (q - first + 1) = q
    BY <1>1, <1>5, <2>5, <2>6
  <2>8. part[q - first + 1] = brought[q]
    BY <2>7
  <2> HIDE DEF part
  <2> QED
    BY <2>4, <2>7, <2>8
<1>8. /\ recentYield \in [1..2 * Batch -> Nat] /\ IsFiniteSet(1..2 * Batch)
      /\ \A i \in 1..2 * Batch : IsFiniteSet(part[i]) /\ Cardinality(part[i]) <= recentYield[i]
  <2>1. recentYield \in [1..2 * Batch -> Nat]
    BY <1>0, <1>1
  <2>2. ASSUME NEW i \in 1..2 * Batch
        PROVE  IsFiniteSet(part[i]) /\ Cardinality(part[i]) <= recentYield[i]
    <3>1. part[i] = brought[LastOfBatch - Len(recentYield) + i] /\ first - 1 + i \in Nat
      BY <1>0, <1>1, <1>5
    <3>2. Cardinality(part[i]) <= recentYield[i]
      BY <1>0, <1>1, <1>2, <3>1 DEF Counted
    <3>3. IsFiniteSet(part[i])
      <4>1. CASE brought[first - 1 + i] = {}
        BY <4>1, FS_EmptySet
      <4>2. CASE brought[first - 1 + i] # {}
        BY <1>1, <1>2, <3>1, <4>2, FS_Subset DEF Brought
      <4> QED
        BY <4>1, <4>2
    <3> QED
      BY <3>2, <3>3
  <2>3. IsFiniteSet(1..2 * Batch)
    <3> DEFINE n == 2 * Batch
    <3>1. n \in Int
      BY <1>1
    <3> HIDE DEF n
    <3>2. IsFiniteSet(1..n)
      BY <3>1, FS_Interval
    <3> QED
      BY <3>2 DEF n
  <2> QED
    BY <2>1, <2>2, <2>3
<1> HIDE DEF part, fresh
<1>9. IsFiniteSet(all) /\ Cardinality(all) <= FoldFunction(+, 0, recentYield)
  <2> DEFINE D == 1..2 * Batch
  <2>1. /\ all = UNION {part[i] : i \in D}
        /\ recentYield \in [D -> Nat] /\ IsFiniteSet(D)
        /\ \A i \in D : IsFiniteSet(part[i]) /\ Cardinality(part[i]) <= recentYield[i]
    BY <1>8
  <2> HIDE DEF all, D
  <2>2. /\ IsFiniteSet(UNION {part[x] : x \in D})
        /\ Cardinality(UNION {part[x] : x \in D}) <= FoldFunction(+, 0, recentYield)
    BY ONLY <2>1, UnionWithinSum, ZenonT(60)
  <2> QED
    BY <2>1, <2>2, Zenon
<1> HIDE DEF all
<1>10. Cardinality(fresh) <= Cardinality(all) /\ Cardinality(fresh) \in Nat /\ Cardinality(all) \in Nat
  BY <1>7, <1>9, FS_Subset, FS_CardinalityType
<1>11. FoldFunction(+, 0, recentYield) \in Nat
  BY <1>8, SumIsNat
<1>12. Cardinality(fresh) < MinYield
  <2> DEFINE sum == FoldFunction(+, 0, recentYield)
  <2>1. Total(recentYield) = sum
    BY DEF Total, FoldSeq
  <2>2. sum \in Nat /\ Cardinality(all) <= sum
    BY <1>9, <1>11
  <2> HIDE DEF sum
  <2> QED
    BY <1>0, <1>10, <2>1, <2>2
<1> HIDE DEF first
<1> QED
  BY <1>5, <1>12 DEF fresh, first

\* A view is abandoned in a first run, none of whose fetches failed, only on two
\* full batches' worth of pages that held too few assets the crawl had not seen
\* on earlier pages or in the views done before (sliceSpent,
\* docs/configuration.md:190-192).
THEOREM AbandonedForCause == Spec => AbandonedOnlyWhenSpent
<1> DEFINE I == CrawlTypeInv /\ CollectedInv /\ FirstRunInv /\ CreditInv
<1>1. Init => I
  <2>1. Init => FirstRunInv /\ CreditInv
    BY DEF Init, FirstRunInv, CreditInv, NoCheckpoint
  <2> QED
    BY <2>1, InitTypes, InitCollected
<1>2. I /\ [Next]_vars => I'
  <2> SUFFICES ASSUME I, [Next]_vars PROVE I'
    OBVIOUS
  <2>1. CrawlTypeInv'
    BY YieldStep, PhaseStep, FlagStep, PlaceStep, DataStep, WalkStep DEF CrawlTypeInv, TypeOK,
       PlaceOK, DataOK
  <2>2. CollectedInv'
    BY StoredStep, CrawlerStep, SliceStep, ResumeStep DEF CollectedInv, StoresInv
  <2>3. FirstRunInv'
    BY FirstRunStep
  <2>4. CreditInv'
    BY CreditOnSlice, CreditElsewhere DEF CreditInv
  <2> QED
    BY <2>1, <2>2, <2>3, <2>4
<1>3. ASSUME I, [Next]_vars, Abandons, runs = 1, failures = 0
      PROVE  LET first == LastOfBatch - 2 * Batch + 1
             IN  /\ first >= 1
                 /\ Cardinality(PagesOf(first..LastOfBatch)
                                  \ (SeenElsewhere \cup PagesOf(1..first - 1))) < MinYield
  <2>1. phase = "judge" /\ ~exhausted /\ Judge
    BY <1>3 DEF Abandons, Next, CrawlStep, StartCrawl, ResumeAssets, ResumeSlices, NextSlice,
       StartBatch, FetchPage, EndBatch, MarkDone, CopyCheckpoint, WriteCheckpoint,
       CheckpointFallsDue, CheckpointAges, Gate, DeleteCheckpoint, Shutdown, WriteFinal, Exit,
       Kill, Die, Finish, Restart, At, vars, crawlVars
  <2>2. SliceSpent
    BY <1>3, <2>1 DEF Judge, Abandons
  <2> QED
    BY <1>3, <2>1, <2>2, WindowPays
<1>4. I /\ [Next]_vars =>
        [Abandons /\ runs = 1 /\ failures = 0 =>
           LET first == LastOfBatch - 2 * Batch + 1
           IN  /\ first >= 1
               /\ Cardinality(PagesOf(first..LastOfBatch)
                                \ (SeenElsewhere \cup PagesOf(1..first - 1))) < MinYield]_vars
  BY <1>3
<1> QED
  BY <1>1, <1>2, <1>4, PTL DEF Spec, AbandonedOnlyWhenSpent
-----------------------------------------------------------------------------
(* The page fetches of a batch.                                            *)

USE FetcherAssumption DEF FetcherInv, PausedMeansStale, QueueBehindPause, AttemptsLeft

\* The limiter may start inside a pause an earlier batch met, with its queue
\* behind that pause.
LEMMA InitEstablishesFetcherInv == FetcherInit => FetcherInv
<1> SUFFICES ASSUME FetcherInit PROVE FetcherInv
  OBVIOUS
<1>1. nextIn \in Nat /\ pauseLeft \in Nat /\ pauseLeft <= nextIn
  BY DEF FetcherInit, Later
<1> QED
  BY <1>1 DEF FetcherInit, FetcherTypeOK, Outcomes

\* One 429: either its episode is over and the limiter is left alone, or the
\* epoch moves past every request in flight and the queue behind the new pause.
LEMMA PauseStep ==
  ASSUME FetcherTypeOK, QueueBehindPause, NEW p \in Pages, NEW wait \in Waits, Pause(p, wait)
  PROVE  /\ nextIn' \in Nat /\ pauseLeft' \in Nat /\ epoch' \in Nat
         /\ pauseLeft' <= nextIn'
         /\ \/ issued[p] # epoch /\ UNCHANGED limiterVars
            \/ issued[p] = epoch /\ epoch' = epoch + 1
<1> wait \in Nat /\ nextIn \in Nat /\ pauseLeft \in Nat /\ epoch \in Nat
  BY DEF FetcherTypeOK
<1>1. CASE issued[p] = epoch
  BY <1>1 DEF Pause, Later
<1>2. CASE issued[p] # epoch
  BY <1>2 DEF Pause, limiterVars
<1> QED
  BY <1>1, <1>2

\* The types survive the end of an attempt, which is the last one or not.
LEMMA AttemptStep ==
  ASSUME FetcherTypeOK, AttemptsLeft, NEW p \in Pages, pc[p] = "flight",
         NEW step \in {"request", "backoff"}, NextAttempt(p, step)
  PROVE  /\ pc' \in [Pages -> {"request", "slot", "flight", "backoff", "done"}]
         /\ attempt' \in [Pages -> 0..MaxAttempts]
         /\ outcome' \in [Pages -> Outcomes]
         /\ \A q \in Pages : pc'[q] = "flight" => pc[q] = "flight" /\ q # p
         /\ AttemptsLeft'
<1>1. pc' \in [Pages -> {"request", "slot", "flight", "backoff", "done"}]
  BY DEF FetcherTypeOK, NextAttempt
<1>2. attempt' \in [Pages -> 0..MaxAttempts]
  BY DEF FetcherTypeOK, NextAttempt
<1>3. outcome' \in [Pages -> Outcomes]
  BY DEF FetcherTypeOK, NextAttempt, Outcomes
<1>4. \A q \in Pages : pc'[q] = "flight" => pc[q] = "flight" /\ q # p
  BY DEF FetcherTypeOK, NextAttempt
<1>5. AttemptsLeft'
  BY DEF FetcherTypeOK, NextAttempt, LastAttempt
<1> QED
  BY <1>1, <1>2, <1>3, <1>4, <1>5

\* The inductive step, one action at a time.
LEMMA FetcherStep ==
  ASSUME FetcherInv, [FetcherNext]_fetcherVars
  PROVE  FetcherInv'
<1> USE DEF limiterVars
<1>1. CASE Tick
  BY <1>1 DEF Tick, Less, FetcherTypeOK
<1>2. ASSUME NEW p \in Pages, Reserve(p) PROVE FetcherInv'
  BY <1>2 DEF Reserve, FetcherTypeOK
<1>3. ASSUME NEW p \in Pages, Send(p) PROVE FetcherInv'
  BY <1>3 DEF Send, FetcherTypeOK
<1>4. ASSUME NEW p \in Pages, WaitOutPause(p) PROVE FetcherInv'
  BY <1>4 DEF WaitOutPause, FetcherTypeOK
<1>5. ASSUME NEW p \in Pages, BackoffElapses(p) PROVE FetcherInv'
  BY <1>5 DEF BackoffElapses, FetcherTypeOK
<1>6. ASSUME NEW p \in Pages, Refused(p) PROVE FetcherInv'
  <2>1. PICK wait \in Waits : Pause(p, wait)
    BY <1>6 DEF Refused
  <2>2. pc[p] = "flight" /\ NextAttempt(p, "request") /\ UNCHANGED <<sleepLeft, issued>>
    BY <1>6 DEF Refused
  <2>3. /\ pc' \in [Pages -> {"request", "slot", "flight", "backoff", "done"}]
        /\ attempt' \in [Pages -> 0..MaxAttempts]
        /\ outcome' \in [Pages -> Outcomes]
        /\ \A q \in Pages : pc'[q] = "flight" => pc[q] = "flight" /\ q # p
        /\ AttemptsLeft'
    BY <2>2, AttemptStep
  <2>4. FetcherTypeOK'
    BY <2>1, <2>2, <2>3, PauseStep DEF FetcherTypeOK
  <2>5. PausedMeansStale' /\ QueueBehindPause'
    BY <2>1, <2>2, <2>3, PauseStep DEF FetcherTypeOK
  <2> QED
    BY <2>3, <2>4, <2>5
<1>7. ASSUME NEW p \in Pages, NetworkError(p) PROVE FetcherInv'
  <2>1. /\ pc' \in [Pages -> {"request", "slot", "flight", "backoff", "done"}]
        /\ attempt' \in [Pages -> 0..MaxAttempts]
        /\ outcome' \in [Pages -> Outcomes]
        /\ \A q \in Pages : pc'[q] = "flight" => pc[q] = "flight" /\ q # p
        /\ AttemptsLeft'
    BY <1>7, AttemptStep DEF NetworkError
  <2>2. sleepLeft' \in [Pages -> Nat]
    BY <1>7 DEF NetworkError, FetcherTypeOK
  <2> QED
    BY <1>7, <2>1, <2>2 DEF NetworkError, FetcherTypeOK
<1>8. ASSUME NEW p \in Pages, Answered(p) PROVE FetcherInv'
  BY <1>8 DEF Answered, FetcherTypeOK, Outcomes
<1>9. CASE UNCHANGED fetcherVars
  BY <1>9 DEF fetcherVars, FetcherTypeOK
<1> QED
  BY <1>1, <1>2, <1>3, <1>4, <1>5, <1>6, <1>7, <1>8, <1>9 DEF FetcherNext, FetchStep

\* The limiter's invariant: while the fleet is paused, no request in flight can
\* open another pause.
THEOREM FetcherInvHolds == FetcherSpec => []FetcherInv
  BY InitEstablishesFetcherInv, FetcherStep, PTL DEF FetcherSpec

\* A running pause ends when the first 429 of its episode said, whatever
\* refusals come in meanwhile.
THEOREM PauseEndsAsAnnounced == FetcherSpec => PauseNotProlonged
<1>1. FetcherInv /\ [FetcherNext]_fetcherVars => [pauseLeft > 0 => pauseLeft' <= pauseLeft]_fetcherVars
  <2> SUFFICES ASSUME FetcherInv, FetcherNext, pauseLeft > 0
               PROVE  pauseLeft' <= pauseLeft
    OBVIOUS
  <2> USE DEF FetcherTypeOK, limiterVars
  <2>1. CASE Tick
    BY <2>1 DEF Tick, Less
  <2>2. ASSUME NEW p \in Pages, Refused(p) PROVE pauseLeft' <= pauseLeft
    BY <2>2 DEF Refused, Pause
  <2>3. ASSUME NEW p \in Pages, FetchStep(p), ~Refused(p) PROVE pauseLeft' <= pauseLeft
    BY <2>3 DEF FetchStep, Reserve, Send, WaitOutPause, BackoffElapses, NetworkError, Answered
  <2> QED
    BY <2>1, <2>2, <2>3 DEF FetcherNext, FetchStep
<1> QED
  BY <1>1, FetcherInvHolds, PTL DEF FetcherSpec, PauseNotProlonged

\* What makes QueueBounded inductive: every slot before the next one
\* that is further off than one pause is the turn of a page in wait for it.
SlotsTaken ==
    \A longest \in Waits : (\A w \in Waits : w <= longest) =>
        \A j \in Nat \ {0} : nextIn - Interval * j > Later(longest, Interval) - Interval =>
            \E p \in Pages : pc[p] = "slot" /\ sleepLeft[p] = nextIn - Interval * j

\* A new slot is behind all the others and has its page; time moves slots and
\* sleeps alike; and a pause that pushes the next slot out leaves none beyond.
LEMMA SlotsStayTaken ==
  ASSUME FetcherInv, SlotsTaken, [FetcherNext]_fetcherVars
  PROVE  SlotsTaken'
<1> SUFFICES ASSUME NEW longest \in Waits, \A w \in Waits : w <= longest,
                    NEW j \in Nat \ {0},
                    nextIn' - Interval * j > Later(longest, Interval) - Interval
             PROVE  \E p \in Pages : pc'[p] = "slot" /\ sleepLeft'[p] = nextIn' - Interval * j
  BY DEF SlotsTaken
<1> DEFINE Slack == Later(longest, Interval) - Interval
<1>1. /\ longest \in Nat /\ Slack \in Nat /\ longest - Interval <= Slack /\ Interval * j \in Nat
      /\ Interval * j >= Interval /\ nextIn \in Nat /\ pauseLeft \in Nat
      /\ pc \in [Pages -> {"request", "slot", "flight", "backoff", "done"}]
      /\ sleepLeft \in [Pages -> Nat]
  BY DEF FetcherTypeOK, Later
<1>2. ASSUME NEW i \in Nat \ {0}, nextIn - Interval * i > Slack
      PROVE  \E p \in Pages : pc[p] = "slot" /\ sleepLeft[p] = nextIn - Interval * i
  BY <1>2 DEF SlotsTaken
<1>3. nextIn' - Interval * j > Slack
  OBVIOUS
<1> HIDE DEF Slack
\* The pages in wait for a slot go on waiting for the same one.
<1>4. ASSUME nextIn' = nextIn,
             \A p \in Pages : pc[p] = "slot" /\ sleepLeft[p] > 0
                 => pc'[p] = "slot" /\ sleepLeft'[p] = sleepLeft[p]
      PROVE  \E p \in Pages : pc'[p] = "slot" /\ sleepLeft'[p] = nextIn' - Interval * j
  <2>1. PICK p \in Pages : pc[p] = "slot" /\ sleepLeft[p] = nextIn - Interval * j
    BY <1>2, <1>3, <1>4
  <2>2. sleepLeft[p] > 0
    BY <1>1, <1>3, <1>4, <2>1
  <2> QED
    BY <1>4, <2>1, <2>2
<1>5. CASE Tick
  <2>1. /\ nextIn' = Less(nextIn) /\ pc' = pc
        /\ sleepLeft' = [p \in Pages |-> Less(sleepLeft[p])]
    BY <1>5 DEF Tick
  <2>2. nextIn > 0 /\ nextIn' = nextIn - 1
    BY <1>1, <1>3, <2>1 DEF Less
  <2>3. nextIn - Interval * j > Slack
    BY <1>1, <1>3, <2>2
  <2>4. PICK p \in Pages : pc[p] = "slot" /\ sleepLeft[p] = nextIn - Interval * j
    BY <1>2, <2>3
  <2>5. sleepLeft'[p] = sleepLeft[p] - 1
    BY <1>1, <2>1, <2>3, <2>4 DEF Less
  <2>6. sleepLeft'[p] = nextIn' - Interval * j
    BY <1>1, <2>2, <2>4, <2>5
  <2> QED
    BY <2>1, <2>4, <2>6
<1>6. ASSUME NEW p \in Pages, Reserve(p)
      PROVE  \E q \in Pages : pc'[q] = "slot" /\ sleepLeft'[q] = nextIn' - Interval * j
  <2>1. /\ pc[p] = "request" /\ pc' = [pc EXCEPT ![p] = "slot"]
        /\ sleepLeft' = [sleepLeft EXCEPT ![p] = nextIn] /\ nextIn' = nextIn + Interval
    BY <1>6 DEF Reserve
  <2>2. CASE j = 1
    <3>1. pc'[p] = "slot" /\ sleepLeft'[p] = nextIn' - Interval * j
      BY <1>1, <2>1, <2>2
    <3> QED
      BY <3>1
  <2>3. CASE j # 1
    <3>1. j - 1 \in Nat \ {0} /\ Interval * (j - 1) = Interval * j - Interval
      BY <2>3
    <3>2. nextIn - Interval * (j - 1) = nextIn' - Interval * j
      BY <1>1, <2>1, <3>1
    <3>3. PICK q \in Pages : pc[q] = "slot" /\ sleepLeft[q] = nextIn - Interval * (j - 1)
      BY <1>2, <1>3, <3>1, <3>2
    <3>4. q # p
      BY <2>1, <3>3
    <3> QED
      BY <1>1, <2>1, <3>2, <3>3, <3>4
  <2> QED
    BY <2>2, <2>3
<1>7. ASSUME NEW p \in Pages,
             Send(p) \/ WaitOutPause(p) \/ BackoffElapses(p) \/ NetworkError(p) \/ Answered(p)
      PROVE  \E q \in Pages : pc'[q] = "slot" /\ sleepLeft'[q] = nextIn' - Interval * j
  <2>1. nextIn' = nextIn
    BY <1>7 DEF Send, WaitOutPause, BackoffElapses, NetworkError, Answered, limiterVars
  <2>2. ~(pc[p] = "slot" /\ sleepLeft[p] > 0)
    BY <1>7 DEF Send, WaitOutPause, BackoffElapses, NetworkError, Answered
  <2>3. ASSUME NEW q \in Pages, q # p PROVE pc'[q] = pc[q] /\ sleepLeft'[q] = sleepLeft[q]
    BY <1>1, <1>7, <2>3 DEF Send, WaitOutPause, BackoffElapses, NetworkError, Answered, NextAttempt
  <2> QED
    BY <1>4, <2>1, <2>2, <2>3
<1>8. ASSUME NEW p \in Pages, Refused(p)
      PROVE  \E q \in Pages : pc'[q] = "slot" /\ sleepLeft'[q] = nextIn' - Interval * j
  <2>1. PICK wait \in Waits : Pause(p, wait)
    BY <1>8 DEF Refused
  <2>2. wait \in Nat /\ wait <= longest
    OBVIOUS
  <2>3. nextIn' = nextIn \/ nextIn' = wait
    BY <1>1, <2>1, <2>2 DEF Pause, Later, limiterVars
  <2>4. nextIn' # wait \/ nextIn' = nextIn
    BY <1>1, <1>3, <2>2
  <2>5. ~(pc[p] = "slot")
    BY <1>8 DEF Refused
  <2>6. ASSUME NEW q \in Pages, q # p PROVE pc'[q] = pc[q] /\ sleepLeft'[q] = sleepLeft[q]
    BY <1>1, <1>8, <2>6 DEF Refused, NextAttempt
  <2> QED
    BY <1>4, <2>3, <2>4, <2>5, <2>6
<1>9. CASE UNCHANGED fetcherVars
  BY <1>4, <1>9 DEF fetcherVars
<1> QED
  BY <1>5, <1>6, <1>7, <1>8, <1>9 DEF FetcherNext, FetchStep

\* With one page to a slot there are no more slots beyond a pause than pages.
LEMMA PagesBoundQueue ==
  ASSUME FetcherTypeOK, SlotsTaken
  PROVE  QueueBounded
<1> SUFFICES ASSUME NEW longest \in Waits, \A w \in Waits : w <= longest,
                    ~(nextIn <= Later(longest, Interval) + Interval * Cardinality(Pages))
             PROVE  FALSE
  BY DEF QueueBounded
<1> DEFINE n == Cardinality(Pages)
<1>1. n \in Nat /\ IsFiniteSet(Pages) /\ nextIn \in Nat /\ Later(longest, Interval) \in Nat
  BY FS_CardinalityType DEF FetcherTypeOK, Later
<1>2. nextIn > Later(longest, Interval) + Interval * n
  BY <1>1
<1> HIDE DEF n
<1>3. ASSUME NEW j \in 1..n + 1
      PROVE  \E p \in Pages : sleepLeft[p] = nextIn - Interval * j
  <2>1. Interval * j <= Interval * n + Interval /\ Interval * j \in Nat /\ Interval * n \in Nat
    <3>1. /\ j \in Nat /\ j <= n + 1 /\ Interval \in Nat
      BY <1>1
    <3>2. Interval * (n + 1) = Interval * n + Interval
      BY <1>1
    <3>3. Interval * j <= Interval * (n + 1)
      BY <1>1, <3>1
    <3> QED
      BY <1>1, <3>1, <3>2, <3>3
  <2>2. nextIn - Interval * j > Later(longest, Interval) - Interval
    BY <1>1, <1>2, <2>1
  <2> QED
    BY <2>2 DEF SlotsTaken
<1> DEFINE f == [j \in 1..n + 1 |-> CHOOSE p \in Pages : sleepLeft[p] = nextIn - Interval * j]
<1>4. /\ f \in [1..n + 1 -> Pages]
      /\ \A j \in 1..n + 1 : sleepLeft[f[j]] = nextIn - Interval * j
  BY <1>3
<1> HIDE DEF f
<1>5. IsFiniteSet(1..n + 1) /\ Cardinality(1..n + 1) = n + 1
  <2>1. 1 \in Int /\ n + 1 \in Int /\ ~(1 > n + 1) /\ (n + 1) - 1 + 1 = n + 1
    BY <1>1
  <2> DEFINE m == n + 1
  <2>2. m \in Int /\ ~(1 > m) /\ m - 1 + 1 = m
    BY <2>1
  <2> HIDE DEF m
  <2>3. IsFiniteSet(1..m) /\ Cardinality(1..m) = m
    BY <2>1, <2>2, FS_Interval
  <2> QED
    BY <2>3 DEF m
<1>6. PICK i, j \in 1..n + 1 : i # j /\ f[i] = f[j]
  <2>1. Cardinality(Pages) < Cardinality(1..n + 1)
    BY <1>1, <1>5 DEF n
  <2> QED
    BY <1>1, <1>4, <1>5, <2>1, FS_PigeonHole
<1>7. i \in Nat /\ j \in Nat /\ i # j /\ Interval \in Nat \ {0}
  BY <1>1, <1>6
<1>8. Interval * i = Interval * j
  <2>1. Interval * i \in Nat /\ Interval * j \in Nat
    BY ONLY <1>7
  <2>2. nextIn - Interval * i = nextIn - Interval * j
    BY ONLY <1>4, <1>6
  <2> QED
    BY ONLY <1>1, <2>1, <2>2
<1> QED
  BY ONLY <1>7, <1>8, SMTT(60)

\* Refusals never ratchet the rate down: whatever the answers, the queue of
\* slots ends within one pause and one slot per page.
THEOREM QueueStaysBounded == FetcherSpec => []QueueBounded
<1>1. FetcherInit => SlotsTaken
  <2> SUFFICES ASSUME FetcherInit, NEW longest \in Waits, \A w \in Waits : w <= longest,
                      NEW j \in Nat \ {0},
                      nextIn - Interval * j > Later(longest, Interval) - Interval
               PROVE  FALSE
    BY DEF SlotsTaken
  <2>1. nextIn \in Nat /\ nextIn <= Later(longest, Interval)
    BY DEF FetcherInit, Later
  <2>2. Interval * j >= Interval /\ Interval * j \in Nat /\ Later(longest, Interval) \in Nat
    BY DEF Later
  <2> QED
    BY <2>1, <2>2
<1>2. SlotsTaken /\ FetcherInv /\ [FetcherNext]_fetcherVars => SlotsTaken'
  BY SlotsStayTaken
<1>3. FetcherInv /\ SlotsTaken => QueueBounded
  BY PagesBoundQueue
<1> QED
  BY <1>1, <1>2, <1>3, FetcherInvHolds, PTL DEF FetcherSpec
==============================================================================
