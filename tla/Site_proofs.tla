------------------------------ MODULE Site_proofs ------------------------------
(***************************************************************************)
(* Proofs about the dataservice's publish and about the two processes over *)
(* the data directory, for every number of crawls, crashes, failing calls  *)
(* and webserver restarts.  First Publisher alone: PubInv is inductive,    *)
(* and its safety properties follow.  Then both: SiteInv is inductive,     *)
(* whatever reads of a refresh fall between whatever steps of a publish,   *)
(* and the promise of CatalogPromise is kept.  Last the rate limiter in    *)
(* front of the site's visitors (module Limiter), for every number of      *)
(* clients and requests, every rate, burst and table size: nothing in its  *)
(* proof depends on which bucket is evicted to make room; and the          *)
(* webserver's single flight (module SingleFlight), for any number of      *)
(* callers, closers, refreshes and panics: one refresh at a time, Close is *)
(* final, indexes are closed, and a waiter never gets an older result than *)
(* it asked for.                                                           *)
(***************************************************************************)
EXTENDS Site, Limiter, SingleFlight, TLAPS

\* The definitions every step is about.
USE DEF Missing, Form, IndexDir, NoIndex, Present, Usable, Damaged, DiskIndex,
        Dataset, NotLoaded

\* PubInv holds on a fresh volume and on every volume an older build left.
LEMMA InitEstablishesInv == DirInit /\ PubInit => PubInv
<1> SUFFICES ASSUME DirInit, PubInit PROVE PubInv
  OBVIOUS
<1> DEFINE old(form) == [form |-> form, id |-> 1, assets |-> 1, rates |-> ratesFile]
<1>1. /\ assetsFile \in {Missing, 1}
      /\ ratesFile \in {Missing, assetsFile}
      /\ statsFile \in {Missing, assetsFile}
      /\ staging = NoIndex
  BY DEF DirInit
<1>2. \/ published = NoIndex /\ previous = NoIndex
      \/ published = old("broken") /\ previous = NoIndex /\ assetsFile = 1
      \/ published = old("scorch") /\ previous = NoIndex /\ assetsFile = 1
      \/ published = NoIndex /\ previous = old("scorch") /\ assetsFile = 1
  BY DEF DirInit
<1>3. DirTypeOK
  BY <1>1, <1>2 DEF DirTypeOK
<1>4. PubTypeOK
  <2>1. pc \in PC /\ job \in {"none", "crawl", "heal"}
    BY DEF PubInit, PC
  <2>2. hadPrevious \in BOOLEAN
    BY DEF PubInit
  <2>3. /\ gen \in Nat /\ rates \in Nat /\ crawls \in Nat
        /\ builds \in Nat /\ crashes \in Nat /\ faults \in Nat
    BY <1>1 DEF PubInit
  <2> QED
    BY <1>3, <2>1, <2>2, <2>3 DEF PubTypeOK
<1>5. NumbersBounded /\ JobNotOlder /\ StagedByJob
  BY <1>1 DEF PubInit, NumbersBounded, JobNotOlder, StagedByJob
<1>6. PublishOrder
  BY <1>2 DEF PubInit, PublishOrder
<1>7. AssetsNeverAhead /\ RatesNeverAhead
  BY <1>1, <1>2 DEF AssetsNeverAhead, RatesNeverAhead
<1> QED
  BY <1>4, <1>5, <1>6, <1>7 DEF PubInv
-----------------------------------------------------------------------------
\* Every step leaves files and directories of their types.
LEMMA DirTypeStep ==
  ASSUME PubTypeOK, [PubNext]_PubAllVars
  PROVE  DirTypeOK'
<1> USE DEF PubTypeOK, DirTypeOK, Return, Goto, Fault, NoFault, dirVars
<1>1. CASE SelfHeal
  BY <1>1 DEF SelfHeal
<1>2. CASE CreateStaging
  BY <1>2 DEF CreateStaging
<1>3. CASE FillStaging
  BY <1>3 DEF FillStaging
<1>4. CASE RecoverInterrupted
  BY <1>4 DEF RecoverInterrupted
<1>5. CASE ClearPrevious
  BY <1>5 DEF ClearPrevious
<1>6. CASE MoveAside
  BY <1>6 DEF MoveAside
<1>7. CASE SwapIn
  BY <1>7 DEF SwapIn
<1>8. CASE Restore
  BY <1>8 DEF Restore
<1>9. CASE RemovePrevious
  BY <1>9 DEF RemovePrevious
<1>10. CASE PutRates
  BY <1>10 DEF PutRates
<1>11. CASE PutAssets
  BY <1>11 DEF PutAssets
<1>12. CASE PutStats
  BY <1>12 DEF PutStats
<1>13. CASE CrawlCollected
  BY <1>13 DEF CrawlCollected
<1>14. CASE Crash
  BY <1>14 DEF Crash
<1>15. CASE Restart
  BY <1>15 DEF Restart
<1>16. CASE UNCHANGED PubAllVars
  BY <1>16 DEF PubAllVars, pubVars
<1> QED
  BY <1>1, <1>2, <1>3, <1>4, <1>5, <1>6, <1>7, <1>8,
     <1>9, <1>10, <1>11, <1>12, <1>13, <1>14, <1>15, <1>16 DEF PubNext, PublishStep

\* Every step leaves the job's numbers and its place in the code of their types.
LEMMA JobTypeStep ==
  ASSUME PubTypeOK, [PubNext]_PubAllVars
  PROVE  /\ pc' \in PC /\ job' \in {"none", "crawl", "heal"}
         /\ gen' \in Nat /\ rates' \in Nat
         /\ crawls' \in Nat /\ builds' \in Nat
         /\ crashes' \in Nat /\ faults' \in Nat
<1> USE DEF PubTypeOK, DirTypeOK, PC, Return, Goto, Fault, NoFault, dirVars
<1>1. CASE SelfHeal
  BY <1>1 DEF SelfHeal
<1>2. CASE CreateStaging
  BY <1>2 DEF CreateStaging
<1>3. CASE FillStaging
  BY <1>3 DEF FillStaging
<1>4. CASE RecoverInterrupted
  BY <1>4 DEF RecoverInterrupted
<1>5. CASE ClearPrevious
  BY <1>5 DEF ClearPrevious
<1>6. CASE MoveAside
  BY <1>6 DEF MoveAside
<1>7. CASE SwapIn
  BY <1>7 DEF SwapIn
<1>8. CASE Restore
  BY <1>8 DEF Restore
<1>9. CASE RemovePrevious
  BY <1>9 DEF RemovePrevious
<1>10. CASE PutRates
  BY <1>10 DEF PutRates
<1>11. CASE PutAssets
  BY <1>11 DEF PutAssets
<1>12. CASE PutStats
  BY <1>12 DEF PutStats
<1>13. CASE CrawlCollected
  BY <1>13 DEF CrawlCollected, ChooseRates
<1>14. CASE Crash
  BY <1>14 DEF Crash
<1>15. CASE Restart
  BY <1>15 DEF Restart
<1>16. CASE UNCHANGED PubAllVars
  BY <1>16 DEF PubAllVars, pubVars
<1> QED
  BY <1>1, <1>2, <1>3, <1>4, <1>5, <1>6, <1>7, <1>8,
     <1>9, <1>10, <1>11, <1>12, <1>13, <1>14, <1>15, <1>16 DEF PubNext, PublishStep

\* PublishIndex's flag stays a Boolean.  Apart from the numbers: no one prover
\* handles both.
LEMMA FlagTypeStep ==
  ASSUME PubTypeOK, [PubNext]_PubAllVars
  PROVE  hadPrevious' \in BOOLEAN
<1> USE DEF PubTypeOK, Return, Goto, Fault, NoFault, dirVars
<1>1. CASE SelfHeal
  BY <1>1 DEF SelfHeal
<1>2. CASE CreateStaging
  BY <1>2 DEF CreateStaging
<1>3. CASE FillStaging
  BY <1>3 DEF FillStaging
<1>4. CASE RecoverInterrupted
  BY <1>4 DEF RecoverInterrupted
<1>5. CASE ClearPrevious
  BY <1>5 DEF ClearPrevious
<1>6. CASE MoveAside
  BY <1>6 DEF MoveAside
<1>7. CASE SwapIn
  BY <1>7 DEF SwapIn
<1>8. CASE Restore
  BY <1>8 DEF Restore
<1>9. CASE RemovePrevious
  BY <1>9 DEF RemovePrevious
<1>10. CASE PutRates
  BY <1>10 DEF PutRates
<1>11. CASE PutAssets
  BY <1>11 DEF PutAssets
<1>12. CASE PutStats
  BY <1>12 DEF PutStats
<1>13. CASE CrawlCollected
  BY <1>13 DEF CrawlCollected
<1>14. CASE Crash
  BY <1>14 DEF Crash
<1>15. CASE Restart
  BY <1>15 DEF Restart
<1>16. CASE UNCHANGED PubAllVars
  BY <1>16 DEF PubAllVars, pubVars
<1> QED
  BY <1>1, <1>2, <1>3, <1>4, <1>5, <1>6, <1>7, <1>8,
     <1>9, <1>10, <1>11, <1>12, <1>13, <1>14, <1>15, <1>16 DEF PubNext, PublishStep

\* Together: the type invariant is inductive on its own.
LEMMA TypeStep == PubTypeOK /\ [PubNext]_PubAllVars => PubTypeOK'
  BY DirTypeStep, JobTypeStep, FlagTypeStep DEF PubTypeOK

\* A new crawl is newer than everything, and what a job carries stays at least
\* as new as the files until the job has written them.
LEMMA NumbersStep ==
  ASSUME PubInv, [PubNext]_PubAllVars
  PROVE  NumbersBounded' /\ JobNotOlder'
<1> USE DEF PubInv, PubTypeOK, DirTypeOK, NumbersBounded, JobNotOlder,
           StagedByJob, Return, Goto, Fault, NoFault, dirVars
<1>1. CASE SelfHeal
  BY <1>1 DEF SelfHeal
<1>2. CASE CreateStaging
  BY <1>2 DEF CreateStaging
<1>3. CASE FillStaging
  BY <1>3 DEF FillStaging
<1>4. CASE RecoverInterrupted
  BY <1>4 DEF RecoverInterrupted
<1>5. CASE ClearPrevious
  BY <1>5 DEF ClearPrevious
<1>6. CASE MoveAside
  BY <1>6 DEF MoveAside
<1>7. CASE SwapIn
  BY <1>7 DEF SwapIn
<1>8. CASE Restore
  BY <1>8 DEF Restore
<1>9. CASE RemovePrevious
  BY <1>9 DEF RemovePrevious
<1>10. CASE PutRates
  BY <1>10 DEF PutRates
<1>11. CASE PutAssets
  BY <1>11 DEF PutAssets
<1>12. CASE PutStats
  BY <1>12 DEF PutStats
<1>13. CASE CrawlCollected
  BY <1>13 DEF CrawlCollected, ChooseRates
<1>14. CASE Crash
  BY <1>14 DEF Crash
<1>15. CASE Restart
  BY <1>15 DEF Restart
<1>16. CASE UNCHANGED PubAllVars
  BY <1>16 DEF PubAllVars, pubVars
<1> QED
  BY <1>1, <1>2, <1>3, <1>4, <1>5, <1>6, <1>7, <1>8,
     <1>9, <1>10, <1>11, <1>12, <1>13, <1>14, <1>15, <1>16 DEF PubNext, PublishStep

\* From the build to the swap the staging directory is this job's.
LEMMA StagedStep ==
  ASSUME PubInv, [PubNext]_PubAllVars
  PROVE  StagedByJob'
<1> USE DEF PubInv, PubTypeOK, DirTypeOK, PC, StagedByJob, Return, Goto, Fault, NoFault, dirVars
<1>1. CASE SelfHeal
  BY <1>1 DEF SelfHeal
<1>2. CASE CreateStaging
  BY <1>2 DEF CreateStaging
<1>3. CASE FillStaging
  BY <1>3 DEF FillStaging
<1>4. CASE RecoverInterrupted
  BY <1>4 DEF RecoverInterrupted
<1>5. CASE ClearPrevious
  BY <1>5 DEF ClearPrevious
<1>6. CASE MoveAside
  BY <1>6 DEF MoveAside
<1>7. CASE SwapIn
  BY <1>7 DEF SwapIn
<1>8. CASE Restore
  BY <1>8 DEF Restore
<1>9. CASE RemovePrevious
  BY <1>9 DEF RemovePrevious
<1>10. CASE PutRates
  BY <1>10 DEF PutRates
<1>11. CASE PutAssets
  BY <1>11 DEF PutAssets
<1>12. CASE PutStats
  BY <1>12 DEF PutStats
<1>13. CASE CrawlCollected
  BY <1>13 DEF CrawlCollected
<1>14. CASE Crash
  BY <1>14 DEF Crash
<1>15. CASE Restart
  BY <1>15 DEF Restart
<1>16. CASE UNCHANGED PubAllVars
  BY <1>16 DEF PubAllVars, pubVars
<1> QED
  BY <1>1, <1>2, <1>3, <1>4, <1>5, <1>6, <1>7, <1>8,
     <1>9, <1>10, <1>11, <1>12, <1>13, <1>14, <1>15, <1>16 DEF PubNext, PublishStep

\* The index a publish replaces is where the renames done so far put it.
LEMMA OrderStep ==
  ASSUME PubInv, [PubNext]_PubAllVars
  PROVE  PublishOrder'
<1> USE DEF PubInv, PubTypeOK, DirTypeOK, PC, StagedByJob, PublishOrder,
           Return, Goto, Fault, NoFault, dirVars
<1>1. CASE SelfHeal
  BY <1>1 DEF SelfHeal
<1>2. CASE CreateStaging
  BY <1>2 DEF CreateStaging
<1>3. CASE FillStaging
  BY <1>3 DEF FillStaging
<1>4. CASE RecoverInterrupted
  BY <1>4 DEF RecoverInterrupted
<1>5. CASE ClearPrevious
  BY <1>5 DEF ClearPrevious
<1>6. CASE MoveAside
  BY <1>6 DEF MoveAside
<1>7. CASE SwapIn
  BY <1>7 DEF SwapIn
<1>8. CASE Restore
  BY <1>8 DEF Restore
<1>9. CASE RemovePrevious
  BY <1>9 DEF RemovePrevious
<1>10. CASE PutRates
  BY <1>10 DEF PutRates
<1>11. CASE PutAssets
  BY <1>11 DEF PutAssets
<1>12. CASE PutStats
  BY <1>12 DEF PutStats
<1>13. CASE CrawlCollected
  BY <1>13 DEF CrawlCollected
<1>14. CASE Crash
  BY <1>14 DEF Crash
<1>15. CASE Restart
  BY <1>15 DEF Restart
<1>16. CASE UNCHANGED PubAllVars
  BY <1>16 DEF PubAllVars, pubVars
<1> QED
  BY <1>1, <1>2, <1>3, <1>4, <1>5, <1>6, <1>7, <1>8,
     <1>9, <1>10, <1>11, <1>12, <1>13, <1>14, <1>15, <1>16 DEF PubNext, PublishStep

\* Neither assets.json nor rates.json overtakes the index: they are written only
\* after the index of the same job is live, and an index that goes back to the
\* published path was moved aside with the files as they still are.
LEMMA AheadStep ==
  ASSUME PubInv, [PubNext]_PubAllVars
  PROVE  AssetsNeverAhead' /\ RatesNeverAhead'
<1> USE DEF PubInv, PubTypeOK, DirTypeOK, NumbersBounded, JobNotOlder,
           StagedByJob, PublishOrder, AssetsNeverAhead, RatesNeverAhead,
           Return, Goto, Fault, NoFault, dirVars
<1>1. CASE SelfHeal
  BY <1>1 DEF SelfHeal
<1>2. CASE CreateStaging
  BY <1>2 DEF CreateStaging
<1>3. CASE FillStaging
  BY <1>3 DEF FillStaging
<1>4. CASE RecoverInterrupted
  BY <1>4 DEF RecoverInterrupted
<1>5. CASE ClearPrevious
  BY <1>5 DEF ClearPrevious
<1>6. CASE MoveAside
  BY <1>6 DEF MoveAside
<1>7. CASE SwapIn
  BY <1>7 DEF SwapIn
<1>8. CASE Restore
  BY <1>8 DEF Restore
<1>9. CASE RemovePrevious
  BY <1>9 DEF RemovePrevious
<1>10. CASE PutRates
  BY <1>10 DEF PutRates
<1>11. CASE PutAssets
  BY <1>11 DEF PutAssets
<1>12. CASE PutStats
  BY <1>12 DEF PutStats
<1>13. CASE CrawlCollected
  BY <1>13 DEF CrawlCollected
<1>14. CASE Crash
  BY <1>14 DEF Crash
<1>15. CASE Restart
  BY <1>15 DEF Restart
<1>16. CASE UNCHANGED PubAllVars
  BY <1>16 DEF PubAllVars, pubVars
<1> QED
  BY <1>1, <1>2, <1>3, <1>4, <1>5, <1>6, <1>7, <1>8,
     <1>9, <1>10, <1>11, <1>12, <1>13, <1>14, <1>15, <1>16 DEF PubNext, PublishStep

\* The inductive step.
LEMMA PubInvStep == PubInv /\ [PubNext]_PubAllVars => PubInv'
<1> SUFFICES ASSUME PubInv, [PubNext]_PubAllVars PROVE PubInv'
  OBVIOUS
<1>1. PubTypeOK'
  BY TypeStep DEF PubInv
<1> QED
  BY <1>1, NumbersStep, StagedStep, OrderStep, AheadStep DEF PubInv

\* A step from a state of the invariant never loses the last usable index:
\* an index is removed only while the other path holds a usable one.
LEMMA NeverLostStep ==
  ASSUME PubInv, [PubNext]_PubAllVars
  PROVE  HasUsableIndex => HasUsableIndex'
<1> USE DEF PubInv, PubTypeOK, DirTypeOK, StagedByJob, PublishOrder,
           HasUsableIndex, Return, Goto, Fault, NoFault, dirVars
<1>1. CASE SelfHeal
  BY <1>1 DEF SelfHeal
<1>2. CASE CreateStaging
  BY <1>2 DEF CreateStaging
<1>3. CASE FillStaging
  BY <1>3 DEF FillStaging
<1>4. CASE RecoverInterrupted
  BY <1>4 DEF RecoverInterrupted
<1>5. CASE ClearPrevious
  BY <1>5 DEF ClearPrevious
<1>6. CASE MoveAside
  BY <1>6 DEF MoveAside
<1>7. CASE SwapIn
  BY <1>7 DEF SwapIn
<1>8. CASE Restore
  BY <1>8 DEF Restore
<1>9. CASE RemovePrevious
  BY <1>9 DEF RemovePrevious
<1>10. CASE PutRates
  BY <1>10 DEF PutRates
<1>11. CASE PutAssets
  BY <1>11 DEF PutAssets
<1>12. CASE PutStats
  BY <1>12 DEF PutStats
<1>13. CASE CrawlCollected
  BY <1>13 DEF CrawlCollected
<1>14. CASE Crash
  BY <1>14 DEF Crash
<1>15. CASE Restart
  BY <1>15 DEF Restart
<1>16. CASE UNCHANGED PubAllVars
  BY <1>16 DEF PubAllVars, pubVars
<1> QED
  BY <1>1, <1>2, <1>3, <1>4, <1>5, <1>6, <1>7, <1>8,
     <1>9, <1>10, <1>11, <1>12, <1>13, <1>14, <1>15, <1>16 DEF PubNext, PublishStep

-----------------------------------------------------------------------------
\* Every reachable state of the dataservice satisfies the inductive invariant:
\* the strengthening of type, numbers, staging and rename order under which
\* each step of a publish preserves the three facts below.
THEOREM InvHolds == PubSpec => []PubInv
  BY InitEstablishesInv, PubInvStep, PTL DEF PubSpec, PublisherInit

\* Files, directories and locals keep their types through crashes and faults.
THEOREM TypeCorrect == PubSpec => []PubTypeOK
<1>1. PubInv => PubTypeOK
  BY DEF PubInv
<1> QED
  BY <1>1, InvHolds, PTL

\* An index on disk is never older than assets.json, and rates.json never newer
\* than the snapshot it was priced with, however publishes fail and the process
\* dies (publishCrawl's order of writes).
THEOREM FilesKeepOrder == PubSpec => []FilesInOrder
<1>1. PubInv => FilesInOrder
  BY DEF PubInv, FilesInOrder
<1> QED
  BY <1>1, InvHolds, PTL

\* PublishIndex never leaves a volume that had a usable index without one.
THEOREM IndexSurvives == PubSpec => IndexNeverLost
<1>1. PubInv /\ [PubNext]_PubAllVars => [HasUsableIndex => HasUsableIndex']_PubAllVars
  BY NeverLostStep
<1> QED
  BY <1>1, InvHolds, PTL DEF PubSpec, IndexNeverLost
-----------------------------------------------------------------------------
(* The two processes.                                                      *)

\* Nothing is loaded at start-up, and build numbers start after the old index.
LEMMA InitEstablishesSiteInv == SiteInit => SiteInv
<1> SUFFICES ASSUME SiteInit PROVE SiteInv
  OBVIOUS
<1>1. PubInv
  BY InitEstablishesInv DEF SiteInit
<1>2. WebTypeOK
  <2>1. wpc \in WPC /\ live \in Dataset /\ next \in Dataset /\ restarts \in Nat
    BY DEF SiteInit, WebInit, WPC
  <2>2. byLoop \in BOOLEAN /\ retrying \in BOOLEAN /\ throttled \in BOOLEAN
    BY DEF SiteInit, WebInit
  <2> QED
    BY <2>1, <2>2 DEF WebTypeOK
<1>3. DiskIndex.id \in {0, 1} /\ builds = 1 /\ pc = "boot"
  BY DEF SiteInit, DirInit, PubInit
<1>4. IdentitiesGrow
  BY <1>3 DEF IdentitiesGrow
<1>5. LoadedInv /\ ReadingInv
  BY <1>1 DEF SiteInit, WebInit, LoadedInv, ReadingInv, OpenedInOrder, PubInv, PubTypeOK, DirTypeOK
<1> QED
  BY <1>1, <1>2, <1>4, <1>5 DEF SiteInv
-----------------------------------------------------------------------------
\* The index a publish leaves for readers is only replaced by one with a larger
\* identity, and assets.json by a newer one.
LEMMA DiskStep ==
  ASSUME PubInv, IdentitiesGrow, [PubNext]_PubAllVars
  PROVE  /\ IdentitiesGrow'
         /\ assetsFile <= assetsFile'
         /\ Present(DiskIndex) =>
               /\ Present(DiskIndex)' /\ DiskIndex.id <= DiskIndex'.id
               /\ DiskIndex'.id = DiskIndex.id => DiskIndex' = DiskIndex
<1> USE DEF PubInv, PubTypeOK, DirTypeOK, IdentitiesGrow, StagedByJob, PublishOrder,
           JobNotOlder, Return, Goto, Fault, NoFault, dirVars
<1>1. CASE SelfHeal
  BY <1>1 DEF SelfHeal
<1>2. CASE CreateStaging
  BY <1>2 DEF CreateStaging
<1>3. CASE FillStaging
  BY <1>3 DEF FillStaging
<1>4. CASE RecoverInterrupted
  BY <1>4 DEF RecoverInterrupted
<1>5. CASE ClearPrevious
  BY <1>5 DEF ClearPrevious
<1>6. CASE MoveAside
  BY <1>6 DEF MoveAside
<1>7. CASE SwapIn
  BY <1>7 DEF SwapIn
<1>8. CASE Restore
  BY <1>8 DEF Restore
<1>9. CASE RemovePrevious
  BY <1>9 DEF RemovePrevious
<1>10. CASE PutRates
  BY <1>10 DEF PutRates
<1>11. CASE PutAssets
  BY <1>11 DEF PutAssets
<1>12. CASE PutStats
  BY <1>12 DEF PutStats
<1>13. CASE CrawlCollected
  BY <1>13 DEF CrawlCollected
<1>14. CASE Crash
  BY <1>14 DEF Crash
<1>15. CASE Restart
  BY <1>15 DEF Restart
<1>16. CASE UNCHANGED PubAllVars
  BY <1>16 DEF PubAllVars, pubVars, dirVars
<1> QED
  BY <1>1, <1>2, <1>3, <1>4, <1>5, <1>6, <1>7, <1>8, <1>9,
     <1>10, <1>11, <1>12, <1>13, <1>14, <1>15, <1>16 DEF PubNext, PublishStep

\* Whatever the dataservice does, what the webserver has loaded or read so far
\* stays as old, or as new, as it was.
LEMMA PublisherKeepsReading ==
  ASSUME SiteInv, [PubNext]_PubAllVars, UNCHANGED webVars
  PROVE  LoadedInv' /\ ReadingInv'
<1> USE DEF SiteInv, WebTypeOK, PubInv, PubTypeOK, DirTypeOK, webVars
<1>1. /\ assetsFile <= assetsFile'
      /\ Present(DiskIndex) =>
            /\ Present(DiskIndex)' /\ DiskIndex.id <= DiskIndex'.id
            /\ DiskIndex'.id = DiskIndex.id => DiskIndex' = DiskIndex
  BY DiskStep
<1>2. published' \in IndexDir /\ previous' \in IndexDir /\ assetsFile' \in Nat
  BY TypeStep
<1>3. ASSUME NEW d \in Dataset, OpenedInOrder(d)
      PROVE  Present(d.index) =>
               /\ Usable(d.index) /\ d.info <= d.index.id
               /\ Present(DiskIndex)' /\ d.index.id <= DiskIndex'.id
               /\ d.index.id = DiskIndex'.id => d.index = DiskIndex'
  BY <1>1, <1>2, <1>3 DEF OpenedInOrder
<1>4. LoadedInv'
  BY <1>1, <1>2, <1>3 DEF LoadedInv, OpenedInOrder
<1>5. ReadingInv'
  BY <1>1, <1>2, <1>3 DEF ReadingInv, OpenedInOrder
<1> QED
  BY <1>4, <1>5

\* Every step of a refresh leaves the datasets of their type.
LEMMA WebTypeStep ==
  ASSUME PubTypeOK, WebTypeOK, WebNext, UNCHANGED <<dirVars, pubVars>>
  PROVE  wpc' \in WPC /\ live' \in Dataset /\ next' \in Dataset /\ restarts' \in Nat
<1> USE DEF PubTypeOK, DirTypeOK, WebTypeOK, WPC, Begin, Advance, Fail
<1>1. CASE ReadUpdateTime
  BY <1>1 DEF ReadUpdateTime
<1>2. CASE ReadAssets
  BY <1>2 DEF ReadAssets
<1>3. CASE StatIndex
  <2>1. CASE ~Present(published) /\ Fail
    BY <1>3, <2>1 DEF StatIndex
  <2>2. CASE Present(published) /\ AlreadyOpen
    BY <1>3, <2>2 DEF StatIndex, AlreadyOpen
  <2>3. CASE Present(published) /\ ~AlreadyOpen
    BY <1>3, <2>3 DEF StatIndex
  <2> QED
    BY <1>3, <2>1, <2>2, <2>3 DEF StatIndex
<1>4. CASE OpenIndex
  BY <1>4 DEF OpenIndex
<1>5. CASE ReadRates
  BY <1>5 DEF ReadRates
<1>6. CASE ReadStats
  BY <1>6 DEF ReadStats
<1>7. CASE Swap
  BY <1>7 DEF Swap
<1>8. CASE RequestChecks
  BY <1>8 DEF RequestChecks
<1>9. CASE LoopRetries
  BY <1>9 DEF LoopRetries
<1>10. CASE ThrottleElapses
  BY <1>10 DEF ThrottleElapses
<1>11. CASE WebRestart
  BY <1>11 DEF WebRestart
<1> QED
  BY <1>1, <1>2, <1>3, <1>4, <1>5, <1>6, <1>7, <1>8, <1>9,
     <1>10, <1>11 DEF WebNext, RefreshStep

\* The flags of the retry loop and the throttle stay Booleans.
LEMMA WebFlagStep ==
  ASSUME WebTypeOK, WebNext
  PROVE  byLoop' \in BOOLEAN /\ retrying' \in BOOLEAN /\ throttled' \in BOOLEAN
<1> USE DEF WebTypeOK, Begin, Advance, Fail
<1>1. CASE ReadUpdateTime
  BY <1>1 DEF ReadUpdateTime
<1>2. CASE ReadAssets
  BY <1>2 DEF ReadAssets
<1>3. CASE StatIndex
  BY <1>3 DEF StatIndex
<1>4. CASE OpenIndex
  BY <1>4 DEF OpenIndex
<1>5. CASE ReadRates
  BY <1>5 DEF ReadRates
<1>6. CASE ReadStats
  BY <1>6 DEF ReadStats
<1>7. CASE Swap
  BY <1>7 DEF Swap
<1>8. CASE RequestChecks
  BY <1>8 DEF RequestChecks
<1>9. CASE LoopRetries
  BY <1>9 DEF LoopRetries
<1>10. CASE ThrottleElapses
  BY <1>10 DEF ThrottleElapses
<1>11. CASE WebRestart
  BY <1>11 DEF WebRestart
<1> QED
  BY <1>1, <1>2, <1>3, <1>4, <1>5, <1>6, <1>7, <1>8, <1>9,
     <1>10, <1>11 DEF WebNext, RefreshStep

\* What each read of a refresh adds, and what the swap therefore installs.
LEMMA RefreshKeepsReading ==
  ASSUME SiteInv, WebNext, UNCHANGED <<dirVars, pubVars>>
  PROVE  LoadedInv' /\ ReadingInv'
<1> USE DEF SiteInv, PubInv, PubTypeOK, DirTypeOK, WebTypeOK, AssetsNeverAhead,
           LoadedInv, ReadingInv, OpenedInOrder, dirVars, Begin, Advance, Fail
<1>1. CASE ReadUpdateTime
  BY <1>1 DEF ReadUpdateTime
<1>2. CASE ReadAssets
  BY <1>2 DEF ReadAssets
<1>3. CASE StatIndex
  <2>1. CASE ~Present(published) /\ Fail
    BY <1>3, <2>1 DEF StatIndex
  <2>2. CASE Present(published) /\ AlreadyOpen
    <3>1. live.index = published /\ Usable(published)
      BY <2>2 DEF AlreadyOpen
    <3>2. next.data <= live.index.assets
      BY <1>3, <3>1 DEF StatIndex
    <3>3. next' = [next EXCEPT !.info = published.id, !.index = live.index]
      BY <1>3, <2>2 DEF StatIndex
    <3> QED
      BY <1>3, <2>2, <3>1, <3>2, <3>3 DEF StatIndex, AlreadyOpen
  <2>3. CASE Present(published) /\ ~AlreadyOpen
    BY <1>3, <2>3 DEF StatIndex
  <2> QED
    BY <1>3, <2>1, <2>2, <2>3 DEF StatIndex
<1>4. CASE OpenIndex
  BY <1>4 DEF OpenIndex
<1>5. CASE ReadRates
  BY <1>5 DEF ReadRates
<1>6. CASE ReadStats
  BY <1>6 DEF ReadStats
<1>7. CASE Swap
  BY <1>7 DEF Swap
<1>8. CASE RequestChecks
  BY <1>8 DEF RequestChecks
<1>9. CASE LoopRetries
  BY <1>9 DEF LoopRetries
<1>10. CASE ThrottleElapses
  BY <1>10 DEF ThrottleElapses
<1>11. CASE WebRestart
  BY <1>11 DEF WebRestart
<1> QED
  BY <1>1, <1>2, <1>3, <1>4, <1>5, <1>6, <1>7, <1>8, <1>9,
     <1>10, <1>11 DEF WebNext, RefreshStep

-----------------------------------------------------------------------------
\* The inductive step of the composition.
LEMMA SiteStep == SiteInv /\ [SiteNext]_siteVars => SiteInv'
<1> SUFFICES ASSUME SiteInv, [SiteNext]_siteVars PROVE SiteInv'
  OBVIOUS
<1>1. CASE [PubNext]_PubAllVars /\ UNCHANGED webVars
  <2>1. PubInv' /\ IdentitiesGrow'
    BY <1>1, PubInvStep, DiskStep DEF SiteInv
  <2>2. WebTypeOK'
    BY <1>1 DEF SiteInv, WebTypeOK, webVars
  <2>3. LoadedInv' /\ ReadingInv'
    BY <1>1, PublisherKeepsReading
  <2> QED
    BY <2>1, <2>2, <2>3 DEF SiteInv
<1>2. CASE WebNext /\ UNCHANGED <<dirVars, pubVars>>
  <2>1. PubInv'
    BY <1>2, PubInvStep DEF SiteInv, PubAllVars
  <2>2. IdentitiesGrow'
    BY <1>2 DEF SiteInv, IdentitiesGrow, dirVars, pubVars
  <2>3. WebTypeOK'
    BY <1>2, WebTypeStep, WebFlagStep DEF SiteInv, PubInv, WebTypeOK
  <2>4. LoadedInv' /\ ReadingInv'
    BY <1>2, RefreshKeepsReading
  <2> QED
    BY <2>1, <2>2, <2>3, <2>4 DEF SiteInv
<1> QED
  BY <1>1, <1>2 DEF SiteNext, siteVars, PubAllVars

\* Every reachable state of the two processes satisfies the inductive invariant.
THEOREM SiteInvHolds == SiteSpec => []SiteInv
  BY InitEstablishesSiteInv, SiteStep, PTL DEF SiteSpec

\* The webserver never answers for a list with an index older than that list,
\* whatever it read in the middle of a publish, a crash or a recovery.
THEOREM ListsAreCovered == SiteSpec => []IndexCoversList
<1>1. SiteInv => IndexCoversList
  BY DEF SiteInv, LoadedInv, IndexCoversList
<1> QED
  BY <1>1, SiteInvHolds, PTL

\* The publication time it claims is never ahead of the list it serves.
THEOREM TimeFollowsList == SiteSpec => []TimeNeverAheadOfList
<1>1. SiteInv => TimeNeverAheadOfList
  BY DEF SiteInv, LoadedInv, TimeNeverAheadOfList
<1> QED
  BY <1>1, SiteInvHolds, PTL

\* The files, renames and reads implement the promise: what is served moves
\* forward, stays behind what is published, and is covered by its index.
THEOREM KeepsPromise == SiteSpec => ImplementsPromise
<1>1. SiteInit => Promise!Init
  BY DEF SiteInit, DirInit, WebInit, Promise!Init
<1>2. SiteInv /\ SiteInv' /\ [SiteNext]_siteVars => [Promise!Next]_(Promise!promiseVars)
  <2> SUFFICES ASSUME SiteInv, SiteInv', [SiteNext]_siteVars
               PROVE  [Promise!Next]_(Promise!promiseVars)
    OBVIOUS
  <2> USE DEF SiteInv, PubInv, PubTypeOK, DirTypeOK, WebTypeOK
  <2>1. CASE [PubNext]_PubAllVars /\ UNCHANGED webVars
    <3>1. assetsFile <= assetsFile'
      BY <2>1, DiskStep
    <3> QED
      BY <2>1, <3>1 DEF webVars, Promise!Next, Promise!Publish, Promise!promiseVars
  <2>2. CASE Swap /\ UNCHANGED <<dirVars, pubVars>>
    BY <2>2 DEF Swap, dirVars, LoadedInv, ReadingInv,
                Promise!Next, Promise!Serve, Promise!promiseVars
  <2>3. CASE WebRestart /\ UNCHANGED <<dirVars, pubVars>>
    BY <2>3 DEF WebRestart, dirVars, Promise!Next, Promise!Restart, Promise!promiseVars
  <2>4. CASE WebNext /\ ~Swap /\ ~WebRestart /\ UNCHANGED <<dirVars, pubVars>>
    <3>1. UNCHANGED live
      BY <2>4 DEF WebNext, RefreshStep, ReadUpdateTime, ReadAssets, StatIndex, OpenIndex,
                  ReadRates, ReadStats, RequestChecks, LoopRetries, ThrottleElapses,
                  Begin, Advance, Fail
    <3> QED
      BY <2>4, <3>1 DEF dirVars, Promise!promiseVars
  <2> QED
    BY <2>1, <2>2, <2>3, <2>4 DEF SiteNext, siteVars, PubAllVars
<1> QED
  BY <1>1, <1>2, SiteInvHolds, PTL DEF SiteSpec, ImplementsPromise, Promise!Spec
-----------------------------------------------------------------------------
(* The rate limiter.                                                       *)

\* The types the arguments below need; nothing is said of order.
Typed ==
    /\ now \in Nat
    /\ DOMAIN buckets \subseteq Keys
    /\ \A k \in DOMAIN buckets : buckets[k].tokens \in Int /\ buckets[k].last \in 0..now
    /\ req \in [Requests -> [key: Keys, at: -1..now]]
    /\ spent \in [Keys -> [n: Nat, since: 0..now]]

Inv == Typed /\ Spendable
-----------------------------------------------------------------------------
(* Arithmetic of a bucket.                                                 *)

\* Waiting: what accrues only grows.
LEMMA Accrues ==
  ASSUME NEW r \in Nat, NEW a \in Int, NEW b \in Int, a <= b
  PROVE  r * a <= r * b
<1>1. PICK d \in Nat : b = a + d
  <2>1. b - a \in Nat /\ b = a + (b - a)
    OBVIOUS
  <2> QED
    BY <2>1
<1>2. r * b = r * a + r * d
  BY <1>1
<1>3. r * d >= 0
  OBVIOUS
<1>4. r * a \in Int /\ r * d \in Int /\ r * b \in Int
  BY <1>1
<1> QED
  BY <1>2, <1>3, <1>4

\* A refill moves the account from its last time to the new one.
LEMMA RefillSplits ==
  ASSUME NEW r \in Nat, NEW t \in Int, NEW last \in Int, NEW s \in Int
  PROVE  /\ (t - last) * r = r * t - r * last
         /\ r * (t - s) = r * t - r * s
         /\ r * (last - s) = r * last - r * s
         /\ r * t \in Int /\ r * last \in Int /\ r * s \in Int
  OBVIOUS

\* Distribution over a sum.
LEMMA Added ==
  ASSUME NEW r \in Nat, NEW a \in Int, NEW b \in Int
  PROVE  r * (a + b) = r * a + r * b /\ r * a \in Int /\ r * b \in Int
  OBVIOUS

\* What a bucket's account says, in numbers: n let through since s, tok left
\* at the time of the last refill.
Held(r, b, skew, n, s, tok, last, time) ==
    /\ n + tok <= b + r * (last - s)
    /\ 0 <= tok + r * (time - last)
    /\ 0 <= tok + r * skew

Topped(r, b, tok, last, t) == IF tok + (t - last) * r > b THEN b ELSE tok + (t - last) * r

\* The lazy refill keeps the account, by an earlier reading of the clock too.
LEMMA RefillHolds ==
  ASSUME NEW r \in Nat, NEW b \in Nat, NEW skew \in Nat, NEW n \in Nat, NEW s \in Int,
         NEW tok \in Int, NEW last \in Int, NEW time \in Int, NEW t \in Int,
         Held(r, b, skew, n, s, tok, last, time), t <= time, time <= t + skew
  PROVE  /\ Topped(r, b, tok, last, t) \in Int
         /\ Held(r, b, skew, n, s, Topped(r, b, tok, last, t), t, time)
<1> DEFINE whole == tok + (t - last) * r
           tok2 == Topped(r, b, tok, last, t)
<1>1. /\ (t - last) * r = r * t - r * last /\ r * (t - s) = r * t - r * s
      /\ r * (last - s) = r * last - r * s
      /\ r * t \in Int /\ r * last \in Int /\ r * s \in Int
  BY RefillSplits
<1>2. /\ r * (time - last) = r * time - r * last /\ r * (time - t) = r * time - r * t
      /\ r * time \in Int
  OBVIOUS
<1>3. r * time <= r * (t + skew) /\ r * (t + skew) = r * t + r * skew /\ r * skew \in Int
  BY Accrues, Added
<1>4. r * t <= r * time
  BY Accrues
<1>5. 0 <= r * skew
  OBVIOUS
<1>6. whole \in Int /\ tok2 \in Int /\ tok2 <= whole /\ tok2 = (IF whole > b THEN b ELSE whole)
  BY <1>1 DEF Topped
<1>7. /\ n + tok <= b + (r * last - r * s) /\ 0 <= tok + (r * time - r * last)
      /\ 0 <= tok + r * skew /\ whole = tok + (r * t - r * last)
  BY <1>1, <1>2 DEF Held
<1> HIDE DEF whole, tok2
<1>8. n + tok2 <= b + (r * t - r * s)
  BY <1>1, <1>6, <1>7
<1>9. 0 <= tok2 + (r * time - r * t)
  <2>1. 0 <= whole + (r * time - r * t)
    BY <1>1, <1>2, <1>6, <1>7
  <2> QED
    BY <2>1, <1>1, <1>2, <1>4, <1>6
<1>10. 0 <= tok2 + r * skew
  <2>1. 0 <= whole + r * skew
    BY <1>1, <1>2, <1>3, <1>6, <1>7
  <2> QED
    BY <2>1, <1>3, <1>5, <1>6
<1>11. Held(r, b, skew, n, s, tok2, t, time)
  BY <1>1, <1>2, <1>8, <1>9, <1>10 DEF Held
<1> QED
  BY <1>6, <1>11 DEF tok2

\* Letting one through against a token keeps it too.
LEMMA SpendHolds ==
  ASSUME NEW r \in Nat, NEW b \in Nat, NEW skew \in Nat, NEW n \in Nat, NEW s \in Int,
         NEW tok \in Int, NEW t \in Int, NEW time \in Int,
         Held(r, b, skew, n, s, tok, t, time), t <= time, ~(tok < 1)
  PROVE  Held(r, b, skew, n + 1, s, tok - 1, t, time)
<1>1. 0 <= r * (time - t) /\ r * (time - t) \in Int
  BY Accrues, time - t \in Nat
<1>2. 0 <= r * skew /\ r * skew \in Int /\ r * (t - s) \in Int
  OBVIOUS
<1> QED
  BY <1>1, <1>2 DEF Held

\* Time passing keeps it.
LEMMA WaitHolds ==
  ASSUME NEW r \in Nat, NEW b \in Nat, NEW skew \in Nat, NEW n \in Nat, NEW s \in Int,
         NEW tok \in Int, NEW t \in Int, NEW time \in Int, NEW later \in Int,
         Held(r, b, skew, n, s, tok, t, time), time <= later
  PROVE  Held(r, b, skew, n, s, tok, t, later)
<1>1. r * (time - t) <= r * (later - t) /\ r * (time - t) \in Int /\ r * (later - t) \in Int
  BY Accrues
<1>2. r * (t - s) \in Int /\ r * skew \in Int
  OBVIOUS
<1> QED
  BY <1>1, <1>2 DEF Held

\* A bucket that has not been touched for q ticks has earned what a new one holds.
LEMMA QuietPays ==
  ASSUME NEW r \in Nat, NEW b \in Nat, NEW skew \in Nat, NEW n \in Nat, NEW s \in Int,
         NEW tok \in Int, NEW last \in Int, NEW time \in Int, NEW q \in Nat,
         Held(r, b, skew, n, s, tok, last, time),
         b <= r * (q + 1 - 2 * skew), last < time - q
  PROVE  n <= r * (time - skew - s)
<1>1. /\ r * (last - s) = r * last - r * s
      /\ r * (q + 1 - 2 * skew) = r * q + r - (r * skew + r * skew)
      /\ r * (time - skew - s) = r * time - r * skew - r * s
  OBVIOUS
<1>2. r * (last + (q + 1)) <= r * time
  BY Accrues, last + (q + 1) <= time
<1>3. r * (last + (q + 1)) = r * last + r * q + r
  OBVIOUS
<1>4. r * last \in Int /\ r * s \in Int /\ r * q \in Int /\ r * skew \in Int /\ r * time \in Int
  OBVIOUS
<1>5. n + tok <= b + (r * last - r * s) /\ 0 <= tok + r * skew
  BY <1>1 DEF Held
<1>6. b <= r * q + r - (r * skew + r * skew)
  BY <1>1
<1> QED
  BY <1>1, <1>2, <1>3, <1>4, <1>5, <1>6

\* A new bucket, full less the token its key pays with, of a key that is new or
\* has been quiet.
LEMMA NewHolds ==
  ASSUME NEW r \in Nat, NEW b \in Nat \ {0}, NEW skew \in Nat, NEW n \in Nat, NEW s \in Int,
         NEW time \in Int, NEW t \in Int, t <= time, time <= t + skew,
         n > 0 => n <= r * (time - skew - s)
  PROVE  Held(r, b, skew, n + 1, IF n = 0 THEN t ELSE s, b - 1, t, time)
<1>1. 0 <= r * (time - t) /\ r * (time - t) \in Int /\ 0 <= r * skew /\ r * skew \in Int
  BY Accrues, time - t \in Nat
<1>2. CASE n = 0
  <2>1. r * (t - t) = 0
    OBVIOUS
  <2> QED
    BY <1>1, <1>2, <2>1 DEF Held
<1>3. CASE n > 0
  <2>1. r * (time - skew - s) <= r * (t - s)
    BY Accrues, time - skew - s \in Int, t - s \in Int, time - skew - s <= t - s
  <2>2. r * (time - skew - s) \in Int /\ r * (t - s) \in Int
    OBVIOUS
  <2>3. n <= r * (t - s)
    BY <1>3, <2>1, <2>2
  <2> QED
    BY <1>1, <1>3, <2>2, <2>3 DEF Held
<1> QED
  BY <1>2, <1>3

\* What a held account says of the rate.
LEMMA HeldIsRate ==
  ASSUME NEW r \in Nat, NEW b \in Nat, NEW skew \in Nat, NEW n \in Nat, NEW s \in Int,
         NEW tok \in Int, NEW last \in Int, NEW time \in Int,
         Held(r, b, skew, n, s, tok, last, time)
  PROVE  n <= b + r * (time - s)
<1>1. /\ r * (last - s) = r * last - r * s /\ r * (time - s) = r * time - r * s
      /\ r * (time - last) = r * time - r * last
      /\ r * last \in Int /\ r * s \in Int /\ r * time \in Int
  OBVIOUS
<1> QED
  BY <1>1 DEF Held
-----------------------------------------------------------------------------
(* The steps.                                                              *)

\* BucketHeld is Held of the bucket's fields.
LEMMA BucketIsHeld ==
  ASSUME NEW k
  PROVE  /\ BucketHeld(k) <=> Held(Rate, Burst, MaxSkew, spent[k].n, spent[k].since,
                                  buckets[k].tokens, buckets[k].last, now)
         /\ BucketHeld(k)' <=> Held(Rate, Burst, MaxSkew, spent'[k].n, spent'[k].since,
                                  buckets'[k].tokens, buckets'[k].last, now')
  BY DEF BucketHeld, Held

\* Before the first request there are no buckets.
LEMMA LimiterInit == LimiterConstants /\ Init => Inv
<1> SUFFICES ASSUME LimiterConstants, Init PROVE Inv
  OBVIOUS
<1>1. DOMAIN buckets = {}
  BY DEF Init
<1>2. Typed
  BY <1>1 DEF Init, Typed, NoKey, Keys
<1>3. Spendable
  BY <1>1 DEF Init, Spendable, QuietPaid, Idle, NoKey
<1> QED
  BY <1>2, <1>3 DEF Inv

\* Time passes.
LEMMA TickStep ==
  ASSUME LimiterConstants, Inv, Tick
  PROVE  Inv'
<1> USE DEF LimiterConstants
<1>1. now' = now + 1 /\ UNCHANGED <<buckets, order, req, spent>>
  BY DEF Tick
<1>2. Typed'
  BY <1>1 DEF Inv, Typed
<1>3. ASSUME NEW k \in DOMAIN buckets' PROVE BucketHeld(k)'
  <2>1. k \in DOMAIN buckets /\ k \in Keys /\ BucketHeld(k)
    BY <1>1, <1>3 DEF Inv, Typed, Spendable
  <2>2. /\ spent[k].n \in Nat /\ spent[k].since \in Int /\ now \in Nat
        /\ buckets[k].tokens \in Int /\ buckets[k].last \in Int
    BY <2>1 DEF Inv, Typed
  <2>3. Held(Rate, Burst, MaxSkew, spent[k].n, spent[k].since, buckets[k].tokens, buckets[k].last, now)
    BY <2>1, BucketIsHeld
  <2>4. Held(Rate, Burst, MaxSkew, spent[k].n, spent[k].since, buckets[k].tokens, buckets[k].last, now + 1)
    <3>1. now + 1 \in Int /\ now \in Int /\ now <= now + 1 /\ Rate \in Nat /\ Burst \in Nat /\ MaxSkew \in Nat
      BY <2>2
    <3> QED
      BY <3>1, <2>2, <2>3, WaitHolds
  <2> QED
    BY <1>1, <2>4, BucketIsHeld
<1>4. ASSUME NEW k \in Keys \ DOMAIN buckets' PROVE QuietPaid(k)'
  <2>1. QuietPaid(k) /\ spent[k].n \in Nat /\ spent[k].since \in Int /\ now \in Nat
    BY <1>1, <1>4 DEF Inv, Typed, Spendable
  <2>2. Rate * (now - MaxSkew - spent[k].since) <= Rate * (now + 1 - MaxSkew - spent[k].since)
    <3> DEFINE a == now - MaxSkew - spent[k].since
               b == now + 1 - MaxSkew - spent[k].since
    <3>1. a \in Int /\ b \in Int /\ a <= b /\ Rate \in Nat
      BY <2>1
    <3> HIDE DEF a, b
    <3>2. Rate * a <= Rate * b
      BY <3>1, Accrues
    <3> QED
      BY <3>2 DEF a, b
  <2>3. Rate * (now - MaxSkew - spent[k].since) \in Int /\ Rate * (now + 1 - MaxSkew - spent[k].since) \in Int
    BY <2>1
  <2> QED
    BY <1>1, <2>1, <2>2, <2>3 DEF QuietPaid
<1>5. ASSUME NEW r \in Requests PROVE (Idle(r) \/ now <= req[r].at + MaxSkew)'
  BY <1>1 DEF Tick, Inv, Typed, Idle
<1> QED
  BY <1>2, <1>3, <1>4, <1>5 DEF Inv, Spendable

\* A request reads the clock.
LEMMA ArriveStep ==
  ASSUME LimiterConstants, Inv, NEW r \in Requests, Arrive(r)
  PROVE  Inv'
<1> USE DEF LimiterConstants
<1>1. PICK key \in Keys : /\ req' = [req EXCEPT ![r] = [key |-> key, at |-> now]]
                          /\ UNCHANGED <<now, buckets, order, spent>>
  BY DEF Arrive, limiterKey, Keys
<1>2. Typed'
  BY <1>1 DEF Inv, Typed
<1>3. ASSUME NEW k PROVE BucketHeld(k)' <=> BucketHeld(k)
  BY <1>1 DEF BucketHeld
<1>4. ASSUME NEW k PROVE QuietPaid(k)' <=> QuietPaid(k)
  BY <1>1 DEF QuietPaid
<1>5. ASSUME NEW x \in Requests PROVE (Idle(x) \/ now <= req[x].at + MaxSkew)'
  BY <1>1 DEF Inv, Typed, Spendable, Idle
<1> QED
  BY <1>1, <1>2, <1>3, <1>4, <1>5 DEF Inv, Spendable

\* A request under way read the clock no more than MaxSkew ago.
LEMMA ReadingIsRecent ==
  ASSUME LimiterConstants, Inv, NEW r \in Requests, ~Idle(r)
  PROVE  /\ req[r].key \in Keys /\ req[r].at \in 0..now
         /\ req[r].at <= now /\ now <= req[r].at + MaxSkew /\ now \in Nat
         /\ Rate \in Nat \ {0} /\ Burst \in Nat \ {0} /\ MaxSkew \in Nat
<1>1. req[r] \in [key: Keys, at: -1..now] /\ now \in Nat
  BY DEF Inv, Typed
<1>2. req[r].at # -1 /\ now <= req[r].at + MaxSkew
  BY DEF Inv, Spendable, Idle
<1> QED
  BY <1>1, <1>2 DEF LimiterConstants

\* A new key.
LEMMA AllowNewStep ==
  ASSUME LimiterConstants, Inv, NEW r \in Requests, AllowNew(r)
  PROVE  Inv'
<1> DEFINE key == req[r].key
           t == req[r].at
           gone == ToSet(order) \ ToSet(MakeRoom(order))
<1>1. /\ ~Idle(r) /\ key \notin DOMAIN buckets
      /\ buckets' = [x \in (DOMAIN buckets \ gone) \cup {key} |->
                        IF x = key THEN [tokens |-> Burst - 1, last |-> t] ELSE buckets[x]]
      /\ spent' = [x \in Keys |->
                      IF x = key THEN [n |-> spent[key].n + 1,
                                       since |-> IF spent[key].n = 0 THEN t ELSE spent[key].since]
                      ELSE IF x \in gone THEN [n |-> 0, since |-> 0]
                      ELSE spent[x]]
      /\ req' = [req EXCEPT ![r] = NoKey]
      /\ now' = now
  BY DEF AllowNew
<1>2. /\ key \in Keys /\ t \in 0..now /\ t <= now /\ now <= t + MaxSkew /\ now \in Nat
      /\ Rate \in Nat \ {0} /\ Burst \in Nat \ {0} /\ MaxSkew \in Nat
  BY <1>1, ReadingIsRecent
<1>3. spent[key].n \in Nat /\ spent[key].since \in 0..now
  BY <1>2 DEF Inv, Typed
<1> HIDE DEF gone, key, t
<1>4. Typed'
  <2>1. now' \in Nat /\ DOMAIN buckets' \subseteq Keys
    BY <1>1, <1>2 DEF Inv, Typed
  <2>2. ASSUME NEW k \in DOMAIN buckets' PROVE buckets'[k].tokens \in Int /\ buckets'[k].last \in 0..now'
    <3>1. CASE k = key
      BY <1>1, <1>2, <3>1
    <3>2. CASE k # key
      BY <1>1, <3>2 DEF Inv, Typed
    <3> QED
      BY <3>1, <3>2
  <2>3. req' \in [Requests -> [key: Keys, at: -1..now']]
    BY <1>1, <1>2 DEF Inv, Typed, NoKey, Keys
  <2>4. spent' \in [Keys -> [n: Nat, since: 0..now']]
    BY <1>1, <1>2, <1>3 DEF Inv, Typed
  <2> QED
    BY <2>1, <2>2, <2>3, <2>4 DEF Typed
<1>5. ASSUME NEW k \in DOMAIN buckets' PROVE BucketHeld(k)'
  <2>1. CASE k = key
    <3>1. QuietPaid(key)
      BY <1>1, <1>2 DEF Inv, Spendable
    <3>2. Held(Rate, Burst, MaxSkew, spent[key].n + 1,
               IF spent[key].n = 0 THEN t ELSE spent[key].since, Burst - 1, t, now)
      <4> DEFINE n == spent[key].n
                 s == spent[key].since
      <4>1. /\ n \in Nat /\ s \in Int /\ now \in Int /\ t \in Int /\ Rate \in Nat
            /\ n > 0 => n <= Rate * (now - MaxSkew - s)
        BY <1>2, <1>3, <3>1 DEF QuietPaid
      <4> HIDE DEF n, s
      <4>2. Held(Rate, Burst, MaxSkew, n + 1, IF n = 0 THEN t ELSE s, Burst - 1, t, now)
        BY <1>2, <4>1, NewHolds
      <4> QED
        BY <4>2 DEF n, s
    <3>3. /\ spent'[k].n = spent[key].n + 1
          /\ spent'[k].since = (IF spent[key].n = 0 THEN t ELSE spent[key].since)
          /\ buckets'[k].tokens = Burst - 1 /\ buckets'[k].last = t /\ now' = now
      BY <1>1, <1>2, <2>1
    <3> QED
      BY <3>2, <3>3, BucketIsHeld
  <2>2. CASE k # key
    <3>1. k \in DOMAIN buckets /\ k \in Keys /\ k \notin gone
      BY <1>1, <2>2 DEF Inv, Typed
    <3>2. spent'[k] = spent[k] /\ buckets'[k] = buckets[k] /\ now' = now
      BY <1>1, <2>2, <3>1
    <3> QED
      BY <3>1, <3>2 DEF Inv, Spendable, BucketHeld
  <2> QED
    BY <2>1, <2>2
<1>6. ASSUME NEW k \in Keys \ DOMAIN buckets' PROVE QuietPaid(k)'
  <2>1. k # key
    BY <1>1, <1>6
  <2>2. CASE k \in gone
    <3>1. spent'[k].n = 0
      BY <1>1, <2>1, <2>2
    <3> QED
      BY <3>1 DEF QuietPaid
  <2>3. CASE k \notin gone
    <3>1. k \notin DOMAIN buckets /\ spent'[k] = spent[k] /\ now' = now
      BY <1>1, <1>6, <2>1, <2>3
    <3> QED
      BY <3>1, <1>6 DEF Inv, Spendable, QuietPaid
  <2> QED
    BY <2>2, <2>3
<1>7. ASSUME NEW x \in Requests PROVE (Idle(x) \/ now <= req[x].at + MaxSkew)'
  <2>1. req \in [Requests -> [key: Keys, at: -1..now]]
    BY DEF Inv, Typed
  <2> QED
    BY <1>1, <2>1 DEF Inv, Spendable, Idle, NoKey
<1> QED
  BY <1>4, <1>5, <1>6, <1>7 DEF Inv, Spendable

\* A key in the table.
LEMMA AllowKnownStep ==
  ASSUME LimiterConstants, Inv, NEW r \in Requests, AllowKnown(r)
  PROVE  Inv'
<1> DEFINE key == req[r].key
           t == req[r].at
           b == Refill(buckets[key], t)
<1>1. /\ ~Idle(r) /\ key \in DOMAIN buckets
      /\ IF b.tokens < 1
           THEN buckets' = [buckets EXCEPT ![key] = b] /\ UNCHANGED spent
           ELSE /\ buckets' = [buckets EXCEPT ![key] = [b EXCEPT !.tokens = @ - 1]]
                /\ spent' = [spent EXCEPT ![key].n = @ + 1]
      /\ req' = [req EXCEPT ![r] = NoKey]
      /\ now' = now
  BY DEF AllowKnown
<1>2. /\ key \in Keys /\ t \in 0..now /\ t <= now /\ now <= t + MaxSkew /\ now \in Nat
      /\ Rate \in Nat /\ Burst \in Nat /\ MaxSkew \in Nat
  BY <1>1, ReadingIsRecent
<1>3. /\ spent[key].n \in Nat /\ spent[key].since \in 0..now
      /\ spent[key] \in [n: Nat, since: 0..now]
      /\ buckets[key].tokens \in Int /\ buckets[key].last \in 0..now
  BY <1>1, <1>2 DEF Inv, Typed
<1>4. b = [tokens |-> Topped(Rate, Burst, buckets[key].tokens, buckets[key].last, t), last |-> t]
  BY DEF Refill, Topped
<1>5. /\ b.tokens \in Int
      /\ Held(Rate, Burst, MaxSkew, spent[key].n, spent[key].since, b.tokens, t, now)
  <2> DEFINE n == spent[key].n
             s == spent[key].since
             tok == buckets[key].tokens
             last == buckets[key].last
  <2>1. Held(Rate, Burst, MaxSkew, n, s, tok, last, now)
    BY <1>1, BucketIsHeld DEF Inv, Spendable
  <2>2. n \in Nat /\ s \in Int /\ tok \in Int /\ last \in Int /\ now \in Int /\ t \in Int
    BY <1>2, <1>3
  <2> HIDE DEF n, s, tok, last
  <2>3. /\ Topped(Rate, Burst, tok, last, t) \in Int
        /\ Held(Rate, Burst, MaxSkew, n, s, Topped(Rate, Burst, tok, last, t), t, now)
    BY <1>2, <2>1, <2>2, RefillHolds
  <2> QED
    BY <1>4, <2>3 DEF n, s, tok, last
<1>6. b.last = t /\ b = [tokens |-> b.tokens, last |-> t]
  BY <1>4
<1>7. req' \in [Requests -> [key: Keys, at: -1..now']]
  BY <1>1 DEF Inv, Typed, NoKey, Keys
<1>8. ASSUME NEW x \in Requests PROVE (Idle(x) \/ now <= req[x].at + MaxSkew)'
  <2>1. req \in [Requests -> [key: Keys, at: -1..now]]
    BY DEF Inv, Typed
  <2> QED
    BY <1>1, <2>1 DEF Inv, Spendable, Idle, NoKey
<1> HIDE DEF key, t, b
\* Either way the key's bucket holds after, and no other changes.
<1>9. /\ DOMAIN buckets' = DOMAIN buckets
      /\ \A x \in DOMAIN buckets \ {key} : buckets'[x] = buckets[x]
      /\ \A x \in Keys \ {key} : spent'[x] = spent[x]
      /\ spent' \in [Keys -> [n: Nat, since: 0..now]]
      /\ buckets'[key].tokens \in Int /\ buckets'[key].last = t
      /\ Held(Rate, Burst, MaxSkew, spent'[key].n, spent'[key].since,
              buckets'[key].tokens, buckets'[key].last, now)
  <2>1. CASE b.tokens < 1
    <3>1. /\ DOMAIN buckets' = DOMAIN buckets /\ buckets'[key] = b /\ spent' = spent
          /\ \A x \in DOMAIN buckets \ {key} : buckets'[x] = buckets[x]
      BY <1>1, <2>1
    <3> QED
      BY <3>1, <1>5, <1>6 DEF Inv, Typed
  <2>2. CASE ~(b.tokens < 1)
    <3>1. /\ buckets' = [buckets EXCEPT ![key] = [b EXCEPT !.tokens = @ - 1]]
          /\ spent' = [spent EXCEPT ![key].n = @ + 1]
      BY <1>1, <2>2
    <3>2. /\ DOMAIN buckets' = DOMAIN buckets
          /\ \A x \in DOMAIN buckets \ {key} : buckets'[x] = buckets[x]
          /\ buckets'[key] = [b EXCEPT !.tokens = @ - 1]
      BY <1>1, <3>1
    <3>3. buckets'[key].tokens = b.tokens - 1 /\ buckets'[key].last = t
      BY <3>2, <1>6
    <3>4. /\ spent' \in [Keys -> [n: Nat, since: 0..now]]
          /\ \A x \in Keys \ {key} : spent'[x] = spent[x]
          /\ spent'[key].n = spent[key].n + 1 /\ spent'[key].since = spent[key].since
      <4>1. spent \in [Keys -> [n: Nat, since: 0..now]]
        BY DEF Inv, Typed
      <4>2. spent' = [spent EXCEPT ![key] = [spent[key] EXCEPT !.n = @ + 1]]
        BY <3>1
      <4>3. [spent[key] EXCEPT !.n = @ + 1] = [n |-> spent[key].n + 1, since |-> spent[key].since]
        BY <1>3
      <4>4. [n |-> spent[key].n + 1, since |-> spent[key].since] \in [n: Nat, since: 0..now]
        BY <1>3
      <4>5. spent'[key] = [n |-> spent[key].n + 1, since |-> spent[key].since]
        BY <1>2, <4>1, <4>2, <4>3
      <4> QED
        BY <1>2, <4>1, <4>2, <4>3, <4>4, <4>5
    <3>5. Held(Rate, Burst, MaxSkew, spent[key].n + 1, spent[key].since, b.tokens - 1, t, now)
      <4> DEFINE n == spent[key].n
                 s == spent[key].since
                 tok == b.tokens
      <4>1. /\ n \in Nat /\ s \in Int /\ tok \in Int /\ t \in Int /\ now \in Int /\ ~(tok < 1)
            /\ Held(Rate, Burst, MaxSkew, n, s, tok, t, now)
        BY <1>2, <1>3, <1>5, <2>2
      <4> HIDE DEF n, s, tok
      <4>2. Held(Rate, Burst, MaxSkew, n + 1, s, tok - 1, t, now)
        BY <1>2, <4>1, SpendHolds
      <4> QED
        BY <4>2 DEF n, s, tok
    <3>6. b.tokens - 1 \in Int
      BY <1>5
    <3> QED
      BY <3>2, <3>3, <3>4, <3>5, <3>6
  <2> QED
    BY <2>1, <2>2
<1>10. Typed'
  BY <1>1, <1>2, <1>7, <1>9 DEF Inv, Typed
<1>11. ASSUME NEW k \in DOMAIN buckets' PROVE BucketHeld(k)'
  <2>1. CASE k = key
    BY <1>1, <1>9, <2>1, BucketIsHeld
  <2>2. CASE k # key
    <3>1. buckets'[k] = buckets[k] /\ spent'[k] = spent[k] /\ now' = now /\ k \in DOMAIN buckets
      BY <1>1, <1>9, <1>11, <2>2 DEF Inv, Typed
    <3> QED
      BY <3>1 DEF Inv, Spendable, BucketHeld
  <2> QED
    BY <2>1, <2>2
<1>12. ASSUME NEW k \in Keys \ DOMAIN buckets' PROVE QuietPaid(k)'
  <2>1. k # key /\ k \in Keys \ DOMAIN buckets
    BY <1>1, <1>9, <1>12
  <2>2. spent'[k] = spent[k] /\ now' = now
    BY <1>1, <1>9, <2>1
  <2> QED
    BY <2>1, <2>2 DEF Inv, Spendable, QuietPaid
<1> QED
  BY <1>8, <1>10, <1>11, <1>12 DEF Inv, Spendable

\* evictLoop drops who has been quiet.
LEMMA EvictStep ==
  ASSUME LimiterConstants, Inv, Evict
  PROVE  Inv'
<1> DEFINE quiet == {k \in DOMAIN buckets : buckets[k].last < now - Quiet}
<1>1. /\ buckets' = [k \in DOMAIN buckets \ quiet |-> buckets[k]]
      /\ UNCHANGED <<now, req, spent>>
  BY DEF Evict
<1>2. Typed'
  BY <1>1 DEF Inv, Typed
<1>3. ASSUME NEW k \in DOMAIN buckets' PROVE BucketHeld(k)'
  <2>1. k \in DOMAIN buckets /\ buckets'[k] = buckets[k] /\ spent'[k] = spent[k] /\ now' = now
    BY <1>1, <1>3
  <2> QED
    BY <2>1 DEF Inv, Spendable, BucketHeld
<1>4. ASSUME NEW k \in Keys \ DOMAIN buckets' PROVE QuietPaid(k)'
  <2>1. CASE k \in DOMAIN buckets
    <3> DEFINE n == spent[k].n
               s == spent[k].since
               tok == buckets[k].tokens
               last == buckets[k].last
    <3>1. Held(Rate, Burst, MaxSkew, n, s, tok, last, now)
      BY <2>1, BucketIsHeld DEF Inv, Spendable
    <3>2. last < now - Quiet
      BY <1>1, <1>4, <2>1
    <3>3. /\ n \in Nat /\ s \in Int /\ tok \in Int /\ last \in Int /\ now \in Int
          /\ Rate \in Nat /\ Burst \in Nat /\ MaxSkew \in Nat /\ Quiet \in Nat
          /\ Burst <= Rate * (Quiet + 1 - 2 * MaxSkew)
      BY <1>4, <2>1 DEF Inv, Typed, LimiterConstants
    <3> HIDE DEF n, s, tok, last
    <3>4. n <= Rate * (now - MaxSkew - s)
      BY <3>1, <3>2, <3>3, QuietPays
    <3> QED
      BY <1>1, <3>4 DEF n, s, QuietPaid
  <2>2. CASE k \notin DOMAIN buckets
    BY <1>1, <1>4, <2>2 DEF Inv, Spendable, QuietPaid
  <2> QED
    BY <2>1, <2>2
<1>5. ASSUME NEW x \in Requests PROVE (Idle(x) \/ now <= req[x].at + MaxSkew)'
  BY <1>1 DEF Inv, Spendable, Idle
<1> QED
  BY <1>2, <1>3, <1>4, <1>5 DEF Inv, Spendable

\* The inductive step.
LEMMA LimiterStep == LimiterConstants /\ Inv /\ [Next]_vars => Inv'
<1> SUFFICES ASSUME LimiterConstants, Inv, [Next]_vars PROVE Inv'
  OBVIOUS
<1>1. CASE UNCHANGED vars
  BY <1>1 DEF Inv, Typed, Spendable, BucketHeld, QuietPaid, Idle, vars
<1> QED
  BY <1>1, TickStep, EvictStep, ArriveStep, AllowNewStep, AllowKnownStep DEF Next

\* The inductive invariant gives the promise.
LEMMA InvGivesRate == LimiterConstants /\ Inv => RateHeld
<1> SUFFICES ASSUME LimiterConstants, Inv, NEW k \in Keys, spent[k].n > 0
             PROVE  spent[k].n <= Burst + Rate * (now - spent[k].since)
  BY DEF RateHeld
<1> DEFINE n == spent[k].n
           s == spent[k].since
<1>1. /\ n \in Nat /\ s \in Int /\ now \in Int /\ Rate \in Nat /\ Burst \in Nat /\ MaxSkew \in Nat
  BY DEF Inv, Typed, LimiterConstants
<1>2. CASE k \in DOMAIN buckets
  <2> DEFINE tok == buckets[k].tokens
             last == buckets[k].last
  <2>1. /\ Held(Rate, Burst, MaxSkew, n, s, tok, last, now)
        /\ tok \in Int /\ last \in Int
    BY <1>2, BucketIsHeld DEF Inv, Typed, Spendable
  <2> HIDE DEF n, s, tok, last
  <2>2. n <= Burst + Rate * (now - s)
    BY <1>1, <2>1, HeldIsRate
  <2> QED
    BY <2>2 DEF n, s
<1>3. CASE k \notin DOMAIN buckets
  <2>1. n <= Rate * (now - MaxSkew - s)
    BY <1>3 DEF Inv, Spendable, QuietPaid
  <2> HIDE DEF n, s
  <2>2. Rate * (now - MaxSkew - s) <= Rate * (now - s)
    <3> DEFINE a == now - MaxSkew - s
               b == now - s
    <3>1. a \in Int /\ b \in Int /\ a <= b
      BY <1>1
    <3> HIDE DEF a, b
    <3>2. Rate * a <= Rate * b
      BY <1>1, <3>1, Accrues
    <3> QED
      BY <3>2 DEF a, b
  <2>3. Rate * (now - MaxSkew - s) \in Int /\ Rate * (now - s) \in Int
    BY <1>1
  <2>4. n <= Burst + Rate * (now - s)
    BY <1>1, <2>1, <2>2, <2>3
  <2> QED
    BY <2>4 DEF n, s
<1> QED
  BY <1>2, <1>3
-----------------------------------------------------------------------------
\* "Limiter allows burst requests immediately and rate per second thereafter,
\* counted per client": for any clients, requests, rate, burst and table, if a
\* bucket is only forgotten after it could have filled up again.
THEOREM RateIsHeld == LimiterConstants => (Spec => []RateHeld)
<1> SUFFICES ASSUME LimiterConstants PROVE Spec => []RateHeld
  OBVIOUS
<1>1. Init => Inv
  BY LimiterInit
<1>2. Inv /\ [Next]_vars => Inv'
  BY LimiterStep
<1>3. Inv => RateHeld
  BY InvGivesRate
<1> QED
  BY <1>1, <1>2, <1>3, PTL DEF Spec
-----------------------------------------------------------------------------
(* One refresh at a time.                                                 *)

(* Refreshes are numbered as they start; one that runs has no outcome and an
   open channel.                                                           *)
Numbering ==
    /\ refreshing => refreshDone # None /\ refreshDone \notin signalled
    /\ \A n \in signalled : n <= refreshErr.of
    /\ refreshErr.of <= refreshDone
    /\ \A n \in Refreshes : n > refreshDone => outcome[n] = "none"
    /\ \A c \in Callers :
          /\ place[c] \in {"load", "swap"} => outcome[refreshDone] = "none"
          /\ place[c] = "leave" => outcome[refreshDone] \in Results

(* What a caller waits for, or is about to signal, is no newer than the
   refresh it was told of, and its result has been stored when it reads.   *)
Waiting ==
    /\ \A c \in Callers : place[c] = "signal" =>
          /\ waits[c] # None /\ waits[c] <= refreshErr.of
          /\ refreshing => waits[c] < refreshDone
    /\ \A c \in Callers : place[c] = "read" => waits[c] <= refreshErr.of

(* The refresh's local is set while it is about to swap, and only then.    *)
LocalIndex == newIndex # None => \E c \in Callers : place[c] = "swap"

(* A Close that is under way knows of the refresh that may still run.      *)
Closing ==
    \A k \in Closers :
      /\ place[k] \in {"open", "closing", "closed"}
      /\ place[k] \in {"closing", "closed"} => closed
      /\ place[k] = "closing" /\ refreshing => waits[k] = refreshDone

FlightInv ==
    /\ FlightTypeOK
    /\ OneRefresh
    /\ Numbering /\ Waiting /\ LocalIndex /\ Closing
    /\ ClosedForGood /\ NoHandleLeaks /\ AnswerNotOlder

USE DEF None

\* Initially nobody refreshes and the engine is open.
LEMMA InvInit == FlightInit => FlightInv
<1> SUFFICES ASSUME FlightInit PROVE FlightInv  OBVIOUS
<1>1. FlightTypeOK
  BY SingleFlightBounds DEF FlightInit, FlightTypeOK, Refreshes, Results, CallerPC, CloserPC
<1>2. \A c \in Callers : place[c] = "idle"  BY DEF FlightInit
<1>3. \A k \in Closers : place[k] = "open"  BY SingleFlightBounds DEF FlightInit
<1>4. OneRefresh  BY <1>2 DEF FlightInit, OneRefresh, Running
<1>5. Numbering /\ Waiting /\ LocalIndex
  BY <1>2, SingleFlightBounds DEF FlightInit, Numbering, Waiting, LocalIndex, Refreshes
<1>6. Closing /\ ClosedForGood
  BY <1>3 DEF FlightInit, Closing, ClosedForGood
<1>7. NoHandleLeaks /\ AnswerNotOlder
  BY DEF FlightInit, NoHandleLeaks, AnswerNotOlder
<1> QED  BY <1>1, <1>4, <1>5, <1>6, <1>7 DEF FlightInv

(* A step of one goroutine moves its own program counter only.             *)
LEMMA PcStep ==
    ASSUME FlightTypeOK, NEW p \in Callers \cup Closers, NEW from, NEW to,
           to \in CallerPC \cup CloserPC, At(p, from, to)
    PROVE  /\ place[p] = from /\ place'[p] = to
           /\ \A q \in Callers \cup Closers : q # p => place'[q] = place[q]
           /\ place' \in [Callers \cup Closers -> CallerPC \cup CloserPC]
BY DEF FlightTypeOK, At

\* The invariant outlives a caller that joins the refresh under way.
LEMMA JoinStep ==
    ASSUME FlightInv, NEW c \in Callers, Join(c) PROVE FlightInv'
<1> USE SingleFlightBounds
<1>1. FlightTypeOK  BY DEF FlightInv
<1>2. /\ place[c] = "idle" /\ place'[c] = "wait"
      /\ \A q \in Callers \cup Closers : q # c => place'[q] = place[q]
      /\ place' \in [Callers \cup Closers -> CallerPC \cup CloserPC]
  BY <1>1, PcStep DEF Join, CallerPC
<1>3. /\ UNCHANGED <<refreshing, closed, refreshDone, refreshErr, signalled, index,
                     loaded, handles, newIndex, outcome, answer>>
      /\ waits' = [waits EXCEPT ![c] = refreshDone]
  BY DEF Join
<1>4. FlightTypeOK'  BY <1>1, <1>2, <1>3 DEF FlightTypeOK
<1>5. OneRefresh'  BY <1>2, <1>3 DEF FlightInv, OneRefresh, Running
<1>6. Numbering' /\ Waiting'
  BY <1>1, <1>2, <1>3 DEF FlightInv, Numbering, Waiting, FlightTypeOK
<1>7. LocalIndex' /\ NoHandleLeaks' /\ AnswerNotOlder'
  BY <1>2, <1>3 DEF FlightInv, LocalIndex, NoHandleLeaks, AnswerNotOlder, Panicked
<1>8. \A k \in Closers : place'[k] = place[k] /\ waits'[k] = waits[k]
  BY <1>1, <1>2, <1>3 DEF FlightTypeOK
<1>9. Closing' /\ ClosedForGood'
  BY <1>3, <1>8 DEF FlightInv, Closing, ClosedForGood, Panicked
<1> QED  BY <1>4, <1>5, <1>6, <1>7, <1>9 DEF FlightInv

\* The invariant outlives a caller that begins a refresh.
LEMMA LeadStep ==
    ASSUME FlightInv, NEW c \in Callers, Lead(c) PROVE FlightInv'
<1> USE SingleFlightBounds
<1>1. FlightTypeOK  BY DEF FlightInv
<1>2. /\ place[c] = "idle" /\ place'[c] = "load"
      /\ \A q \in Callers \cup Closers : q # c => place'[q] = place[q]
      /\ place' \in [Callers \cup Closers -> CallerPC \cup CloserPC]
  BY <1>1, PcStep DEF Lead, CallerPC
<1>3. /\ UNCHANGED <<closed, refreshErr, signalled, index, loaded, handles,
                     newIndex, outcome, waits, answer>>
      /\ ~closed /\ ~refreshing /\ refreshing'
      /\ refreshDone < MaxRefreshes /\ refreshDone' = refreshDone + 1
  BY DEF Lead
<1>4. refreshDone \in Nat /\ refreshDone' \in Refreshes /\ refreshErr.of \in Nat
  BY <1>1, <1>3 DEF FlightTypeOK, Refreshes
<1>5. FlightTypeOK'  BY <1>1, <1>2, <1>3, <1>4 DEF FlightTypeOK
<1>6. \A d \in Callers : ~Running(d)  BY <1>3 DEF FlightInv, OneRefresh
<1>7. OneRefresh'  BY <1>2, <1>3, <1>6 DEF OneRefresh, Running
<1>8. Numbering'
  <2>1. \A n \in signalled : n <= refreshDone
    BY <1>1, <1>4 DEF FlightInv, Numbering, FlightTypeOK, Refreshes
  <2>2. refreshDone' \notin signalled  BY <2>1, <1>1, <1>3, <1>4
  <2>3. \A n \in Refreshes : n >= refreshDone' => outcome[n] = "none"
    BY <1>3, <1>4 DEF FlightInv, Numbering, Refreshes
  <2>4. outcome'[refreshDone'] = "none"  BY <2>3, <1>3, <1>4 DEF Refreshes
  <2>5. \A n \in signalled' : n <= refreshErr'.of  BY <1>3 DEF FlightInv, Numbering
  <2>6. refreshErr'.of <= refreshDone'  BY <1>3, <1>4 DEF FlightInv, Numbering
  <2>7. \A n \in Refreshes : n > refreshDone' => outcome'[n] = "none"
    BY <2>3, <1>3, <1>4 DEF Refreshes
  <2>8. \A d \in Callers : place'[d] # "leave"  BY <1>2, <1>6 DEF Running
  <2> QED  BY <1>3, <1>4, <2>2, <2>4, <2>5, <2>6, <2>7, <2>8 DEF Numbering, Refreshes
<1>9. Waiting'
  <2>1. \A d \in Callers : place'[d] \in {"signal", "read"} => place[d] = place'[d]
    BY <1>2
  <2>2. \A d \in Callers : waits[d] \in Nat  BY <1>1 DEF FlightTypeOK, Refreshes
  <2>3. refreshErr.of <= refreshDone  BY DEF FlightInv, Numbering
  <2> QED  BY <1>3, <1>4, <2>1, <2>2, <2>3 DEF FlightInv, Waiting
<1>10. LocalIndex' /\ NoHandleLeaks' /\ AnswerNotOlder'
  BY <1>2, <1>3 DEF FlightInv, LocalIndex, NoHandleLeaks, AnswerNotOlder, Panicked
<1>11. \A k \in Closers : place[k] = "open" /\ place'[k] = "open"
  BY <1>2, <1>3 DEF FlightInv, Closing
<1>12. Closing' /\ ClosedForGood'
  BY <1>11 DEF Closing, ClosedForGood
<1> QED  BY <1>5, <1>7, <1>8, <1>9, <1>10, <1>12 DEF FlightInv

\* The invariant outlives the leader's load, successful or not.
LEMMA LoadStep ==
    ASSUME FlightInv, NEW c \in Callers, Load(c) PROVE FlightInv'
<1> USE SingleFlightBounds
<1>1. FlightTypeOK  BY DEF FlightInv
<1>2. /\ place[c] = "load" /\ place'[c] \in {"leave", "swap"}
      /\ \A q \in Callers \cup Closers : q # c => place'[q] = place[q]
      /\ place' \in [Callers \cup Closers -> CallerPC \cup CloserPC]
  BY <1>1, PcStep DEF Load, CallerPC
<1>3. UNCHANGED <<refreshing, closed, refreshDone, refreshErr, signalled,
                  index, loaded, waits, answer>>
  BY DEF Load
<1>4. /\ refreshing /\ \A d \in Callers : Running(d) => d = c
      /\ refreshDone \in Refreshes /\ outcome[refreshDone] = "none"
  BY <1>1, <1>2 DEF FlightInv, OneRefresh, Running, Numbering, FlightTypeOK
<1>5. newIndex = None
  BY <1>2, <1>4 DEF FlightInv, LocalIndex, Running
<1>6. \/ /\ place'[c] = "leave" /\ newIndex' = newIndex
         /\ \/ /\ outcome' = [outcome EXCEPT ![refreshDone] = "error"]
               /\ handles' = handles
            \/ /\ outcome' = [outcome EXCEPT ![refreshDone] = "panic"]
               /\ handles' \subseteq handles \cup {refreshDone}
      \/ /\ place'[c] = "swap" /\ outcome' = outcome
         /\ \/ newIndex' = index /\ handles' = handles
            \/ newIndex' = refreshDone /\ handles' = handles \cup {refreshDone}
  <2>1. \A to \in CallerPC : At(c, "load", to) => place'[c] = to
    BY <1>1 DEF FlightTypeOK, At
  <2> QED  BY <2>1 DEF Load, CallerPC
<1>7. FlightTypeOK'
  <2>1. handles' \subseteq Refreshes /\ newIndex' \in {None} \cup Refreshes
    BY <1>1, <1>4, <1>6 DEF FlightTypeOK
  <2>2. outcome' \in [Refreshes -> {"none"} \cup Results]
    BY <1>1, <1>4, <1>6 DEF FlightTypeOK, Results
  <2> QED  BY <1>1, <1>2, <1>3, <2>1, <2>2 DEF FlightTypeOK
<1>8. OneRefresh'
  BY <1>2, <1>3, <1>4 DEF FlightInv, OneRefresh, Running
<1>9. \A n \in Refreshes : n # refreshDone => outcome'[n] = outcome[n]
  BY <1>1, <1>4, <1>6 DEF FlightTypeOK
<1>10. Numbering'
  <2>1. \A n \in Refreshes : n > refreshDone' => outcome'[n] = "none"
    BY <1>3, <1>4, <1>9 DEF FlightInv, Numbering, Refreshes
  <2>2. \A d \in Callers : place'[d] \in {"load", "swap"} => outcome'[refreshDone'] = "none"
    BY <1>2, <1>3, <1>4, <1>6 DEF Running
  <2>3. \A d \in Callers : place'[d] = "leave" => outcome'[refreshDone'] \in Results
    BY <1>1, <1>2, <1>3, <1>4, <1>6 DEF Running, Results, FlightTypeOK
  <2> QED  BY <1>3, <2>1, <2>2, <2>3 DEF FlightInv, Numbering
<1>11. Waiting'  BY <1>2, <1>3 DEF FlightInv, Waiting
<1>12. LocalIndex'  BY <1>2, <1>5, <1>6 DEF LocalIndex
<1>13. NoHandleLeaks'
  <2>1. Panicked \subseteq Panicked'
    BY <1>4, <1>9 DEF Panicked
  <2>2. outcome' = [outcome EXCEPT ![refreshDone] = "panic"] => refreshDone \in Panicked'
    BY <1>1, <1>4 DEF Panicked, FlightTypeOK
  <2>3. handles \subseteq {index} \cup Panicked
    BY <1>1, <1>5 DEF FlightInv, NoHandleLeaks, FlightTypeOK, Refreshes
  <2> QED  BY <1>3, <1>6, <2>1, <2>2, <2>3 DEF NoHandleLeaks
<1>14. AnswerNotOlder'  BY <1>3 DEF FlightInv, AnswerNotOlder
<1>15. \A k \in Closers : place'[k] = place[k]
  BY <1>2, <1>4 DEF FlightInv, Closing
<1>16. Closing' /\ ClosedForGood'
  BY <1>3, <1>4, <1>15 DEF FlightInv, Closing, ClosedForGood
<1> QED  BY <1>7, <1>8, <1>10, <1>11, <1>12, <1>13, <1>14, <1>16 DEF FlightInv

\* The invariant outlives the swap of the index, refused when the engine was closed.
LEMMA SwapStep ==
    ASSUME FlightInv, NEW c \in Callers, SwapIndex(c) PROVE FlightInv'
<1> USE SingleFlightBounds
<1>1. FlightTypeOK  BY DEF FlightInv
<1>2. /\ place[c] = "swap" /\ place'[c] = "leave"
      /\ \A q \in Callers \cup Closers : q # c => place'[q] = place[q]
      /\ place' \in [Callers \cup Closers -> CallerPC \cup CloserPC]
  BY <1>1, PcStep DEF SwapIndex, CallerPC
<1>3. /\ UNCHANGED <<refreshing, closed, refreshDone, refreshErr, signalled,
                     waits, answer>>
      /\ index' = newIndex /\ newIndex' = None
      /\ handles' = IF newIndex = index THEN handles ELSE handles \ {index}
      /\ outcome' = [outcome EXCEPT ![refreshDone] = "nil"]
  BY DEF SwapIndex
<1>4. /\ refreshing /\ \A d \in Callers : Running(d) => d = c
      /\ refreshDone \in Refreshes /\ outcome[refreshDone] = "none"
  BY <1>1, <1>2 DEF FlightInv, OneRefresh, Running, Numbering, FlightTypeOK
<1>5. FlightTypeOK'
  <2>1. outcome' \in [Refreshes -> {"none"} \cup Results]
    BY <1>1, <1>3, <1>4 DEF FlightTypeOK, Results
  <2>2. loaded' \in BOOLEAN  BY DEF SwapIndex
  <2> QED  BY <1>1, <1>2, <1>3, <2>1, <2>2 DEF FlightTypeOK
<1>6. OneRefresh'
  BY <1>2, <1>3, <1>4 DEF FlightInv, OneRefresh, Running
<1>7. \A n \in Refreshes : n # refreshDone => outcome'[n] = outcome[n]
  BY <1>1, <1>3 DEF FlightTypeOK
<1>8. Numbering'
  <2>1. \A n \in Refreshes : n > refreshDone' => outcome'[n] = "none"
    BY <1>3, <1>4, <1>7 DEF FlightInv, Numbering, Refreshes
  <2>2. \A d \in Callers : place'[d] \notin {"load", "swap"}
    BY <1>2, <1>4 DEF Running
  <2>3. outcome'[refreshDone'] \in Results
    BY <1>1, <1>3, <1>4 DEF Results, FlightTypeOK
  <2> QED  BY <1>3, <2>1, <2>2, <2>3 DEF FlightInv, Numbering
<1>9. Waiting' /\ LocalIndex' /\ AnswerNotOlder'
  BY <1>2, <1>3 DEF FlightInv, Waiting, LocalIndex, AnswerNotOlder
<1>10. NoHandleLeaks'
  <2>1. Panicked \subseteq Panicked'  BY <1>4, <1>7 DEF Panicked
  <2> QED  BY <1>3, <2>1 DEF FlightInv, NoHandleLeaks
<1>11. \A k \in Closers : place'[k] = place[k]
  BY <1>2, <1>4 DEF FlightInv, Closing
<1>12. Closing' /\ ClosedForGood'
  BY <1>3, <1>4, <1>11 DEF FlightInv, Closing, ClosedForGood
<1> QED  BY <1>5, <1>6, <1>8, <1>9, <1>10, <1>12 DEF FlightInv

\* The invariant outlives the leader's publication of its error.
LEMMA StoreStep ==
    ASSUME FlightInv, NEW c \in Callers, Store(c) PROVE FlightInv'
<1> USE SingleFlightBounds
<1>1. FlightTypeOK  BY DEF FlightInv
<1>2. /\ place[c] = "leave" /\ place'[c] = "signal"
      /\ \A q \in Callers \cup Closers : q # c => place'[q] = place[q]
      /\ place' \in [Callers \cup Closers -> CallerPC \cup CloserPC]
  BY <1>1, PcStep DEF Store, CallerPC
<1>3. /\ UNCHANGED <<closed, refreshDone, signalled, index, loaded, handles,
                     newIndex, outcome>>
      /\ refreshErr'.of = refreshDone /\ refreshErr'.result \in Results
      /\ refreshErr' = [of |-> refreshErr'.of, result |-> refreshErr'.result]
      /\ ~refreshing' /\ refreshing' \in BOOLEAN
      /\ waits' = [waits EXCEPT ![c] = refreshDone]
      /\ answer' = [answer EXCEPT ![c] = [asked |-> refreshDone, of |-> refreshDone,
                                          result |-> outcome[refreshDone]]]
  BY DEF Store, Results
<1>4. /\ refreshing /\ \A d \in Callers : Running(d) => d = c
      /\ refreshDone \in Refreshes /\ outcome[refreshDone] \in Results
  BY <1>1, <1>2 DEF FlightInv, OneRefresh, Running, Numbering, FlightTypeOK
<1>5. FlightTypeOK'
  <2>1. refreshErr' \in [of: {None} \cup Refreshes, result: Results]
    BY <1>3, <1>4
  <2>2. waits' \in [Callers \cup Closers -> {None} \cup Refreshes]
    BY <1>1, <1>3, <1>4 DEF FlightTypeOK
  <2>3. answer' \in [Callers -> [asked: {None} \cup Refreshes,
                                of: {None} \cup Refreshes, result: Results]]
    BY <1>1, <1>3, <1>4 DEF FlightTypeOK
  <2> QED  BY <1>1, <1>2, <1>3, <2>1, <2>2, <2>3 DEF FlightTypeOK
<1>6. \A d \in Callers : place'[d] \notin {"load", "swap", "leave"}
  BY <1>2, <1>4 DEF Running
<1>7. OneRefresh'  BY <1>3, <1>6 DEF OneRefresh, Running
<1>8. refreshErr.of \in Nat /\ refreshDone \in Nat /\ refreshErr.of <= refreshDone
  BY <1>1 DEF FlightTypeOK, Refreshes, FlightInv, Numbering
<1>9. Numbering'
  <2>1. \A n \in signalled' : n <= refreshErr'.of
    BY <1>1, <1>3, <1>8 DEF FlightInv, Numbering, FlightTypeOK, Refreshes
  <2> QED  BY <1>3, <1>6, <1>8, <2>1 DEF FlightInv, Numbering
<1>10. Waiting'
  <2>1. \A d \in Callers : d # c => waits'[d] = waits[d] /\ waits[d] \in Nat
    BY <1>1, <1>3 DEF FlightTypeOK, Refreshes
  <2>2. waits'[c] = refreshDone /\ refreshDone # None
    BY <1>1, <1>3, <1>4 DEF FlightTypeOK, Refreshes
  <2> QED  BY <1>2, <1>3, <1>8, <2>1, <2>2 DEF FlightInv, Waiting
<1>11. LocalIndex'
  BY <1>2, <1>3, <1>4 DEF FlightInv, LocalIndex, Running
<1>12. NoHandleLeaks'  BY <1>3 DEF FlightInv, NoHandleLeaks, Panicked
<1>13. AnswerNotOlder'
  BY <1>1, <1>3, <1>8 DEF FlightInv, AnswerNotOlder, FlightTypeOK
<1>14. \A k \in Closers : place'[k] = place[k] /\ place[k] # "closed"
  BY <1>2, <1>4 DEF FlightInv, Closing, ClosedForGood
<1>15. Closing' /\ ClosedForGood'
  BY <1>3, <1>14 DEF FlightInv, Closing, ClosedForGood
<1> QED  BY <1>5, <1>7, <1>9, <1>10, <1>11, <1>12, <1>13, <1>15 DEF FlightInv

\* The invariant outlives the closing of the channel the others wait on.
LEMMA SignalStep ==
    ASSUME FlightInv, NEW c \in Callers, Signal(c) PROVE FlightInv'
<1> USE SingleFlightBounds
<1>1. FlightTypeOK  BY DEF FlightInv
<1>2. /\ place[c] = "signal" /\ place'[c] = "idle"
      /\ \A q \in Callers \cup Closers : q # c => place'[q] = place[q]
      /\ place' \in [Callers \cup Closers -> CallerPC \cup CloserPC]
  BY <1>1, PcStep DEF Signal, CallerPC
<1>3. /\ UNCHANGED <<refreshing, closed, refreshDone, refreshErr, index, loaded,
                     handles, newIndex, outcome, answer>>
      /\ signalled' = signalled \cup {waits[c]}
      /\ waits' = [waits EXCEPT ![c] = None]
  BY DEF Signal
<1>4. /\ waits[c] \in Refreshes /\ waits[c] <= refreshErr.of
      /\ refreshing => waits[c] < refreshDone
  BY <1>1, <1>2 DEF FlightInv, Waiting, FlightTypeOK
<1>5. FlightTypeOK'  BY <1>1, <1>2, <1>3, <1>4 DEF FlightTypeOK
<1>6. OneRefresh'  BY <1>2, <1>3 DEF FlightInv, OneRefresh, Running
<1>7. Numbering'
  <2>1. \A n \in signalled' : n <= refreshErr'.of
    BY <1>3, <1>4 DEF FlightInv, Numbering
  <2>2. refreshing' => refreshDone' \notin signalled'
    BY <1>1, <1>3, <1>4 DEF FlightInv, Numbering, FlightTypeOK, Refreshes
  <2> QED  BY <1>2, <1>3, <2>1, <2>2 DEF FlightInv, Numbering
<1>8. Waiting' /\ LocalIndex' /\ NoHandleLeaks' /\ AnswerNotOlder'
  <2>1. \A d \in Callers : d # c => waits'[d] = waits[d]
    BY <1>1, <1>3 DEF FlightTypeOK
  <2>2. Waiting'  BY <1>2, <1>3, <2>1 DEF FlightInv, Waiting
  <2> QED
    BY <1>2, <1>3, <2>2 DEF FlightInv, LocalIndex, NoHandleLeaks, AnswerNotOlder,
       Panicked
<1>9. \A k \in Closers : place'[k] = place[k] /\ waits'[k] = waits[k]
  BY <1>1, <1>2, <1>3 DEF FlightTypeOK, FlightInv, Closing
<1>10. Closing' /\ ClosedForGood'
  BY <1>3, <1>9 DEF FlightInv, Closing, ClosedForGood, Panicked
<1> QED  BY <1>5, <1>6, <1>7, <1>8, <1>10 DEF FlightInv

\* The invariant outlives the waking of a waiter.
LEMMA WakeStep ==
    ASSUME FlightInv, NEW c \in Callers, Wake(c) PROVE FlightInv'
<1> USE SingleFlightBounds
<1>1. FlightTypeOK  BY DEF FlightInv
<1>2. /\ place[c] = "wait" /\ place'[c] = "read"
      /\ \A q \in Callers \cup Closers : q # c => place'[q] = place[q]
      /\ place' \in [Callers \cup Closers -> CallerPC \cup CloserPC]
  BY <1>1, PcStep DEF Wake, CallerPC
<1>3. /\ UNCHANGED <<refreshing, closed, refreshDone, refreshErr, signalled,
                     index, loaded, handles, newIndex, outcome, waits, answer>>
      /\ waits[c] \in signalled
  BY DEF Wake
<1>4. FlightTypeOK'  BY <1>1, <1>2, <1>3 DEF FlightTypeOK
<1>5. OneRefresh'  BY <1>2, <1>3 DEF FlightInv, OneRefresh, Running
<1>6. Numbering' /\ Waiting'
  BY <1>2, <1>3 DEF FlightInv, Numbering, Waiting
<1>7. LocalIndex' /\ NoHandleLeaks' /\ AnswerNotOlder'
  BY <1>2, <1>3 DEF FlightInv, LocalIndex, NoHandleLeaks, AnswerNotOlder, Panicked
<1>8. \A k \in Closers : place'[k] = place[k]
  BY <1>2 DEF FlightInv, Closing
<1>9. Closing' /\ ClosedForGood'
  BY <1>3, <1>8 DEF FlightInv, Closing, ClosedForGood, Panicked
<1> QED  BY <1>4, <1>5, <1>6, <1>7, <1>9 DEF FlightInv

\* The invariant outlives a waiter's reading of the leader's error.
LEMMA ReadErrStep ==
    ASSUME FlightInv, NEW c \in Callers, ReadErr(c) PROVE FlightInv'
<1> USE SingleFlightBounds
<1>1. FlightTypeOK  BY DEF FlightInv
<1>2. /\ place[c] = "read" /\ place'[c] = "idle"
      /\ \A q \in Callers \cup Closers : q # c => place'[q] = place[q]
      /\ place' \in [Callers \cup Closers -> CallerPC \cup CloserPC]
  BY <1>1, PcStep DEF ReadErr, CallerPC
<1>3. /\ UNCHANGED <<refreshing, closed, refreshDone, refreshErr, signalled,
                     index, loaded, handles, newIndex, outcome>>
      /\ answer' = [answer EXCEPT ![c] = [asked |-> waits[c], of |-> refreshErr.of,
                                          result |-> refreshErr.result]]
      /\ waits' = [waits EXCEPT ![c] = None]
  BY DEF ReadErr
<1>4. /\ waits[c] \in {None} \cup Refreshes /\ refreshErr.of \in {None} \cup Refreshes
      /\ refreshErr.result \in Results /\ waits[c] <= refreshErr.of
  BY <1>1, <1>2 DEF FlightTypeOK, FlightInv, Waiting
<1>5. FlightTypeOK'  BY <1>1, <1>2, <1>3, <1>4 DEF FlightTypeOK
<1>6. OneRefresh'  BY <1>2, <1>3 DEF FlightInv, OneRefresh, Running
<1>7. \A d \in Callers \cup Closers : d # c => waits'[d] = waits[d]
  BY <1>1, <1>3 DEF FlightTypeOK
<1>8. Numbering' /\ Waiting'
  BY <1>2, <1>3, <1>7 DEF FlightInv, Numbering, Waiting
<1>9. LocalIndex' /\ NoHandleLeaks'
  BY <1>2, <1>3 DEF FlightInv, LocalIndex, NoHandleLeaks, Panicked
<1>10. AnswerNotOlder'
  BY <1>1, <1>3, <1>4 DEF FlightInv, AnswerNotOlder, FlightTypeOK
<1>11. \A k \in Closers : place'[k] = place[k] /\ waits'[k] = waits[k]
  BY <1>2, <1>7 DEF FlightInv, Closing
<1>12. Closing' /\ ClosedForGood'
  BY <1>3, <1>11 DEF FlightInv, Closing, ClosedForGood, Panicked
<1> QED  BY <1>5, <1>6, <1>8, <1>9, <1>10, <1>12 DEF FlightInv

\* The invariant outlives the first half of Close.
LEMMA CloseBeginStep ==
    ASSUME FlightInv, NEW k \in Closers, CloseBegin(k) PROVE FlightInv'
<1> USE SingleFlightBounds
<1>1. FlightTypeOK  BY DEF FlightInv
<1>2. /\ place[k] = "open" /\ place'[k] = "closing"
      /\ \A q \in Callers \cup Closers : q # k => place'[q] = place[q]
      /\ place' \in [Callers \cup Closers -> CallerPC \cup CloserPC]
  BY <1>1, PcStep DEF CloseBegin, CloserPC
<1>3. /\ UNCHANGED <<refreshing, refreshDone, refreshErr, signalled, index,
                     loaded, handles, newIndex, outcome, answer>>
      /\ closed'
      /\ closed' \in BOOLEAN
      /\ waits' = [waits EXCEPT ![k] = IF refreshing THEN refreshDone ELSE None]
  BY DEF CloseBegin
<1>4. FlightTypeOK'  BY <1>1, <1>2, <1>3 DEF FlightTypeOK
<1>5. \A c \in Callers : c # k /\ place'[c] = place[c] /\ waits'[c] = waits[c]
  BY <1>1, <1>2, <1>3 DEF FlightTypeOK
<1>6. OneRefresh'  BY <1>3, <1>5 DEF FlightInv, OneRefresh, Running
<1>7. Numbering' /\ Waiting'
  BY <1>3, <1>5 DEF FlightInv, Numbering, Waiting
<1>8. LocalIndex' /\ NoHandleLeaks' /\ AnswerNotOlder'
  BY <1>3, <1>5 DEF FlightInv, LocalIndex, NoHandleLeaks, AnswerNotOlder, Panicked
<1>9. Closing'
  BY <1>1, <1>2, <1>3 DEF FlightInv, Closing, FlightTypeOK
<1>10. ClosedForGood'
  BY <1>2, <1>3 DEF FlightInv, ClosedForGood, Panicked
<1> QED  BY <1>4, <1>6, <1>7, <1>8, <1>9, <1>10 DEF FlightInv

\* The invariant outlives Close's closing of the index.
LEMMA CloseIndexStep ==
    ASSUME FlightInv, NEW k \in Closers, CloseIndex(k) PROVE FlightInv'
<1> USE SingleFlightBounds
<1>1. FlightTypeOK  BY DEF FlightInv
<1>2. /\ place[k] = "closing" /\ place'[k] = "closed"
      /\ \A q \in Callers \cup Closers : q # k => place'[q] = place[q]
      /\ place' \in [Callers \cup Closers -> CallerPC \cup CloserPC]
  BY <1>1, PcStep DEF CloseIndex, CloserPC
<1>3. /\ UNCHANGED <<refreshing, closed, refreshDone, refreshErr, signalled,
                     loaded, newIndex, outcome, answer>>
      /\ index' = None /\ handles' = handles \ {index}
      /\ waits' = [waits EXCEPT ![k] = None]
      /\ waits[k] \in signalled \cup {None}
  BY DEF CloseIndex
\* The refresh waited for is over, and closed has kept others from starting.
<1>4. ~refreshing
  BY <1>2, <1>3 DEF FlightInv, Closing, Numbering
<1>5. newIndex = None
  BY <1>4 DEF FlightInv, OneRefresh, LocalIndex, Running
<1>6. FlightTypeOK'  BY <1>1, <1>2, <1>3 DEF FlightTypeOK
<1>7. \A c \in Callers : c # k /\ place'[c] = place[c] /\ waits'[c] = waits[c]
  BY <1>1, <1>2, <1>3 DEF FlightTypeOK
<1>8. OneRefresh'  BY <1>3, <1>7 DEF FlightInv, OneRefresh, Running
<1>9. Numbering' /\ Waiting' /\ LocalIndex' /\ AnswerNotOlder'
  BY <1>3, <1>7 DEF FlightInv, Numbering, Waiting, LocalIndex, AnswerNotOlder
<1>10. handles' \subseteq Panicked'
  BY <1>1, <1>3, <1>5 DEF FlightInv, NoHandleLeaks, Panicked, FlightTypeOK, Refreshes
<1>11. NoHandleLeaks' /\ ClosedForGood'
  BY <1>3, <1>4, <1>10 DEF NoHandleLeaks, ClosedForGood
<1>12. Closing'
  BY <1>1, <1>2, <1>3, <1>4 DEF FlightInv, Closing, FlightTypeOK
<1> QED  BY <1>6, <1>8, <1>9, <1>11, <1>12 DEF FlightInv

\* Every step keeps the invariant.
LEMMA InvStep == FlightInv /\ [FlightNext]_flightVars => FlightInv'
<1> SUFFICES ASSUME FlightInv, [FlightNext]_flightVars PROVE FlightInv'  OBVIOUS
<1>1. CASE FlightNext
  BY <1>1, JoinStep, LeadStep, LoadStep, SwapStep, StoreStep, SignalStep, WakeStep,
     ReadErrStep, CloseBeginStep, CloseIndexStep DEF FlightNext, CallerStep
<1>2. CASE UNCHANGED flightVars
  BY <1>2 DEF flightVars, FlightInv, FlightTypeOK, OneRefresh, Running, Numbering, Waiting,
     LocalIndex, Closing, ClosedForGood, NoHandleLeaks, AnswerNotOlder, Panicked
<1> QED  BY <1>1, <1>2

(* The invariant holds of every behaviour of the single flight.            *)
THEOREM FlightInvHolds == FlightSpec => []FlightInv
BY InvInit, InvStep, PTL DEF FlightSpec

(* There is at most one refresh, and the flag says whether there is one
   (RefreshDataCache).                                                     *)
THEOREM OneRefreshAtATime == FlightSpec => []OneRefresh
<1>1. FlightInv => OneRefresh  BY DEF FlightInv
<1> QED  BY FlightInvHolds, <1>1, PTL

(* Once a Close has returned nothing opens an index again (Close).         *)
THEOREM CloseIsFinal == FlightSpec => []ClosedForGood
<1>1. FlightInv => ClosedForGood  BY DEF FlightInv
<1> QED  BY FlightInvHolds, <1>1, PTL

(* Every index opened is closed, but for one a panic leaves (doRefresh).   *)
THEOREM HandlesAreClosed == FlightSpec => []NoHandleLeaks
<1>1. FlightInv => NoHandleLeaks  BY DEF FlightInv
<1> QED  BY FlightInvHolds, <1>1, PTL

(* A waiter's result is of the refresh it joined or a later one.           *)
THEOREM AnswersAreNotOlder == FlightSpec => []AnswerNotOlder
<1>1. FlightInv => AnswerNotOlder  BY DEF FlightInv
<1> QED  BY FlightInvHolds, <1>1, PTL
================================================================================
