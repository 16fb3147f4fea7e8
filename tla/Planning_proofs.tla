--------------------------- MODULE Planning_proofs ---------------------------
(***************************************************************************)
(* Theorems about when a crawl runs and what it visits.                    *)
(*                                                                         *)
(* Of module Scheduler, for every CRAWL_INTERVAL: crawls never overlap,    *)
(* the loop is neither too eager after failures nor too late when data is  *)
(* due.  Of module Planner, for every universe of tags, page size and set  *)
(* of orderings and filters: the plan is well formed, and reaches every    *)
(* asset that a view in full can show.                                     *)
(***************************************************************************)
EXTENDS Scheduler, Planner, ListTheorems, SequenceTheorems

(* A loop that waits has a crawl of its own running, or its report.        *)
WaiterIsHeard ==
    loop = "waiting" /\ outcome = "none" => running["scheduled"] = 1

(* Time is only lost while a crawl is due, none runs and the loop sleeps.  *)
NoTimeLost ==
    scrapeInProgress \/ ~Overdue \/ loop = "waiting" => idleOverdue = 0

(* What the loop knows of failures when it next decides: the backoff it has
   served, or, if it counts none, that the data is no older than the last
   failure it heard of.                                                    *)
BackoffServed ==
    /\ outcome = "nil" => published /\ age = 0
    /\ consecutiveFailures = 0 =>
         \/ sinceFailure = Interval
         \/ published /\ sinceFailure >= age
    /\ loop = "backoff" => sinceFailure + sleep >= BackoffDelay(consecutiveFailures)
    /\ loop \in {"check", "asleep"} /\ consecutiveFailures > 0
         => sinceFailure >= BackoffDelay(consecutiveFailures)

SchedulerInv ==
    /\ TypeOK
    /\ OneCrawl
    /\ WaiterIsHeard
    /\ NoTimeLost
    /\ PromptStart
    /\ BackoffServed

(* A backoff is a time between nothing and the interval (backoffDelay).    *)
LEMMA DelayIsCapped ==
    \A n \in 0..(Steps + 1) : BackoffDelay(n) \in 0..Interval
<1>1. SUFFICES ASSUME NEW n \in 0..(Steps + 1)
               PROVE  BackoffDelay(n) \in 0..Interval
  OBVIOUS
<1>2. CASE n \in 1..Steps
  <2>1. n = 1 \/ n = 2 \/ n = 3  BY <1>2 DEF Steps
  <2>2. <<1, 4, 24>>[n] \in Nat  BY <2>1
  <2> QED  BY <1>2, <2>2, IntervalIsSet DEF BackoffDelay, AtMost
<1>3. CASE n \notin 1..Steps  BY <1>3, IntervalIsSet DEF BackoffDelay
<1> QED  BY <1>2, <1>3

\* Initially nobody crawls and nobody waits.
LEMMA InvInit == Init => SchedulerInv
<1> SUFFICES ASSUME Init PROVE SchedulerInv  OBVIOUS
<1>1. TypeOK
  <2>1. running \in [Origins -> Nat]  BY DEF Init
  <2>2. /\ age \in 0..Interval /\ sleep \in 0..(Interval + CheckEvery)
        /\ sinceFailure \in 0..Interval /\ idleOverdue \in 0..(Interval + 1)
    BY IntervalIsSet DEF Init, CheckEvery
  <2>3. consecutiveFailures \in 0..(Steps + 1)  BY DEF Init, Steps
  <2> QED  BY <2>1, <2>2, <2>3 DEF Init, TypeOK
<1>2. OneCrawl /\ WaiterIsHeard
  BY DEF Init, OneCrawl, WaiterIsHeard, Origins
<1>3. NoTimeLost /\ PromptStart
  BY DEF Init, NoTimeLost, PromptStart
<1>4. BackoffServed
  BY DEF Init, BackoffServed
<1> QED  BY <1>1, <1>2, <1>3, <1>4 DEF SchedulerInv

(* Every action keeps the invariant (the whole of module Scheduler).       *)
LEMMA InvStep == SchedulerInv /\ [Next]_vars => SchedulerInv'
<1> SUFFICES ASSUME SchedulerInv, [Next]_vars PROVE SchedulerInv'
  OBVIOUS
<1> USE IntervalIsSet DEF Origins, CheckEvery
<1>0. DEFINE delay == BackoffDelay(consecutiveFailures)
<1>t. /\ TypeOK /\ OneCrawl /\ WaiterIsHeard /\ NoTimeLost /\ PromptStart
      /\ BackoffServed
  BY DEF SchedulerInv
<1>d. \A n \in 0..(Steps + 1) : BackoffDelay(n) \in 0..Interval
  BY DelayIsCapped
<1>1. CASE Trigger
  BY <1>1, <1>t DEF Trigger, StartScrape, SchedulerInv, TypeOK, OneCrawl,
     WaiterIsHeard, NoTimeLost, PromptStart, BackoffServed, Overdue, BackoffDelay
<1>2. CASE Check
  <2>1. BackoffDelay(consecutiveFailures') = BackoffDelay(consecutiveFailures)
    BY <1>2 DEF Check
  <2>2. ASSUME StartScrape("scheduled"), loop' = "waiting", sleep' = 0,
               idleOverdue' = 0
        PROVE  TypeOK' /\ OneCrawl' /\ WaiterIsHeard' /\ NoTimeLost'
               /\ PromptStart'
    <3>1. running["scheduled"] = 0 /\ running["triggered"] = 0
      BY <2>2, <1>t DEF StartScrape, OneCrawl, TypeOK
    <3>2. /\ running' \in [Origins -> Nat]
          /\ running'["scheduled"] = 1 /\ running'["triggered"] = 0
      BY <2>2, <3>1, <1>t DEF StartScrape, TypeOK
    <3>3. TypeOK' /\ OneCrawl' /\ WaiterIsHeard'
      BY <1>2, <2>2, <3>2, <1>t DEF Check, StartScrape, TypeOK, OneCrawl,
         WaiterIsHeard
    <3>4. NoTimeLost' /\ PromptStart'
      BY <2>2 DEF NoTimeLost, PromptStart
    <3> QED  BY <3>3, <3>4
  <2>3. ASSUME ~Overdue \/ scrapeInProgress,
               loop' = "asleep", sleep' = CheckEvery,
               UNCHANGED <<scrapeInProgress, running, idleOverdue>>
        PROVE  TypeOK' /\ OneCrawl' /\ WaiterIsHeard' /\ NoTimeLost'
               /\ PromptStart'
    BY <1>2, <2>3, <1>t DEF Check, TypeOK, OneCrawl, WaiterIsHeard,
       NoTimeLost, PromptStart, Overdue
  <2>4. TypeOK' /\ OneCrawl' /\ WaiterIsHeard' /\ NoTimeLost' /\ PromptStart'
    BY <1>2, <2>2, <2>3 DEF Check
  <2>5. BackoffServed'
    BY <1>2, <1>t, <2>1 DEF Check, TypeOK, BackoffServed
  <2> QED  BY <2>4, <2>5 DEF SchedulerInv
<1>3. CASE Hear
  <2>1. consecutiveFailures' \in 0..(Steps + 1)
    BY <1>3, <1>t DEF Hear, TypeOK, AtMost, Steps
  <2>2. BackoffDelay(consecutiveFailures') \in 0..Interval
    BY <2>1, <1>d
  <2>3. CASE outcome = "error"
    <3>1. /\ loop' = "backoff" /\ sleep' = BackoffDelay(consecutiveFailures')
          /\ sinceFailure' = 0 /\ outcome' = "none"
          /\ consecutiveFailures' > 0
          /\ UNCHANGED <<age, published, scrapeInProgress, running, idleOverdue>>
      BY <1>3, <2>3, <1>t DEF Hear, TypeOK, AtMost, Steps
    <3> HIDE DEF CheckEvery
    <3>2. idleOverdue = 0  BY <1>3, <1>t DEF Hear, NoTimeLost
    <3>3. TypeOK' /\ OneCrawl' /\ WaiterIsHeard' /\ NoTimeLost' /\ PromptStart'
      BY <3>1, <3>2, <2>1, <2>2, <1>t DEF TypeOK, OneCrawl, WaiterIsHeard,
         NoTimeLost, PromptStart, Overdue, CheckEvery
    <3>4. BackoffServed'
      BY <3>1, <2>2, <1>t DEF TypeOK, BackoffServed
    <3> QED  BY <3>3, <3>4 DEF SchedulerInv
  <2>4. CASE outcome # "error"
    BY <1>3, <2>4, <2>1, <1>t DEF Hear, SchedulerInv, TypeOK, OneCrawl,
       WaiterIsHeard, NoTimeLost, PromptStart, BackoffServed, Overdue
  <2> QED  BY <2>3, <2>4
<1>4. CASE Wake
  <2>1. BackoffDelay(consecutiveFailures') = BackoffDelay(consecutiveFailures)
    BY <1>4 DEF Wake
  <2>2. delay \in Int  BY <1>d, <1>t DEF TypeOK
  <2>3. BackoffServed'
    BY <1>4, <1>t, <2>1, <2>2 DEF Wake, TypeOK, BackoffServed
  <2> QED
    BY <1>4, <1>t, <2>3 DEF Wake, SchedulerInv, TypeOK, OneCrawl,
       WaiterIsHeard, NoTimeLost, PromptStart, Overdue
<1>5. CASE Release
  <2>1. BackoffDelay(consecutiveFailures') = BackoffDelay(consecutiveFailures)
    BY <1>5 DEF Release
  <2>2. running["scheduled"] = 0 /\ running["triggered"] = 0
    BY <1>5 DEF Release
  <2>3. TypeOK' /\ OneCrawl' /\ WaiterIsHeard' /\ NoTimeLost' /\ PromptStart'
    <3>1. TypeOK'  BY <1>5, <1>t DEF Release, TypeOK
    <3>2. OneCrawl' /\ WaiterIsHeard'
      BY <1>5, <1>t, <2>2 DEF Release, OneCrawl, WaiterIsHeard
    <3>3. NoTimeLost' /\ PromptStart'
      BY <1>5, <1>t DEF Release, NoTimeLost, PromptStart
    <3> QED  BY <3>1, <3>2, <3>3
  <2>4. BackoffServed'
    BY <1>5, <1>t, <2>1 DEF Release, BackoffServed
  <2> QED  BY <2>3, <2>4 DEF SchedulerInv
<1>6. CASE Restart
  <2>1. running' \in [Origins -> Nat]
        /\ running'["scheduled"] = 0 /\ running'["triggered"] = 0
    BY <1>6 DEF Restart
  <2>2. TypeOK'
    <3>1. /\ sinceFailure' \in 0..Interval /\ idleOverdue' \in 0..(Interval + 1)
          /\ sleep' \in 0..(Interval + CheckEvery)
      BY <1>6 DEF Restart
    <3>2. consecutiveFailures' \in 0..(Steps + 1)  BY <1>6 DEF Restart, Steps
    <3> QED  BY <1>6, <1>t, <2>1, <3>1, <3>2 DEF Restart, TypeOK
  <2>3. OneCrawl' /\ WaiterIsHeard'
    BY <1>6, <2>1 DEF Restart, OneCrawl, WaiterIsHeard
  <2>4. NoTimeLost' /\ PromptStart' /\ BackoffServed'
    BY <1>6 DEF Restart, NoTimeLost, PromptStart, BackoffServed
  <2> QED  BY <2>2, <2>3, <2>4 DEF SchedulerInv
<1>7. CASE Tick
  <2>1. BackoffDelay(consecutiveFailures') = BackoffDelay(consecutiveFailures)
    BY <1>7 DEF Tick
  <2>2. delay \in 0..Interval  BY <1>d, <1>t DEF TypeOK
  <2>3. TypeOK' /\ OneCrawl' /\ WaiterIsHeard'
    BY <1>7, <1>t DEF Tick, TypeOK, OneCrawl, WaiterIsHeard, AtMost
  <2>4. NoTimeLost' /\ PromptStart'
    BY <1>7, <1>t DEF Tick, TypeOK, OneCrawl, WaiterIsHeard, NoTimeLost,
       PromptStart, Overdue, AtMost
  <2>5. BackoffServed'
    BY <1>7, <1>t, <2>1, <2>2 DEF Tick, TypeOK, BackoffServed, AtMost
  <2> QED  BY <2>3, <2>4, <2>5 DEF SchedulerInv
<1>8. ASSUME NEW o \in Origins, CrawlReturns(o) PROVE SchedulerInv'
  <2>1. BackoffDelay(consecutiveFailures') = BackoffDelay(consecutiveFailures)
    BY <1>8 DEF CrawlReturns
  <2>2. scrapeInProgress /\ idleOverdue = 0
    BY <1>8, <1>t DEF CrawlReturns, OneCrawl, TypeOK, NoTimeLost
  <2>3. TypeOK' /\ OneCrawl' /\ WaiterIsHeard' /\ NoTimeLost' /\ PromptStart'
    BY <1>8, <1>t, <2>2 DEF CrawlReturns, TypeOK, OneCrawl, WaiterIsHeard,
       NoTimeLost, PromptStart, Overdue
  <2>4. BackoffServed'
    <3>1. PICK result \in {"nil", "error"} :
            /\ outcome' = IF o = "scheduled" THEN result ELSE outcome
            /\ published' = (published \/ result = "nil")
            /\ age' = IF result = "nil" THEN 0 ELSE age
      BY <1>8 DEF CrawlReturns
    <3>2. UNCHANGED <<loop, sleep, consecutiveFailures, sinceFailure>>
      BY <1>8 DEF CrawlReturns
    <3>3. outcome' = "nil" => published' /\ age' = 0
      BY <3>1, <1>t DEF BackoffServed
    <3>4. published => published'  BY <3>1
    <3>5. age' = age \/ (published' /\ age' = 0)  BY <3>1
    <3> QED
      BY <3>2, <3>3, <3>4, <3>5, <2>1, <1>t DEF BackoffServed, TypeOK
  <2> QED  BY <2>3, <2>4 DEF SchedulerInv
<1>9. CASE UNCHANGED vars
  <2>1. BackoffDelay(consecutiveFailures') = BackoffDelay(consecutiveFailures)
    BY <1>9 DEF vars
  <2> QED
    BY <1>9, <1>t, <2>1 DEF vars, SchedulerInv, TypeOK, OneCrawl,
       WaiterIsHeard, NoTimeLost, PromptStart, BackoffServed, Overdue
<1> QED  BY <1>1, <1>2, <1>3, <1>4, <1>5, <1>6, <1>7, <1>8, <1>9 DEF Next

(* The invariant holds of every behaviour of the scheduler.                *)
THEOREM SchedulerInvHolds == Spec => []SchedulerInv
BY InvInit, InvStep, PTL DEF Spec

(* Two crawls never run at once (scrapeInProgress).                        *)
THEOREM CrawlsNeverOverlap == Spec => []OneCrawl
<1>1. SchedulerInv => OneCrawl  BY DEF SchedulerInv
<1> QED  BY SchedulerInvHolds, <1>1, PTL

(* The loop never sleeps on a due crawl for longer than it should
   (scheduleCrawls, backoffDelay).                                         *)
THEOREM DueCrawlsStart == Spec => []PromptStart
<1>1. SchedulerInv => PromptStart  BY DEF SchedulerInv
<1> QED  BY SchedulerInvHolds, <1>1, PTL

(* The loop never starts a crawl before its backoff is over.               *)
THEOREM BackoffIsHeld == Spec => BackoffHeld
<1>1. SchedulerInv /\ [Next]_vars
        => [running'["scheduled"] > running["scheduled"]
              => sinceFailure >= BackoffDelay(consecutiveFailures)]_vars
  <2> SUFFICES ASSUME SchedulerInv, Next,
                      running'["scheduled"] > running["scheduled"]
               PROVE  sinceFailure >= BackoffDelay(consecutiveFailures)
    OBVIOUS
  <2>1. Check
    BY DEF Next, Trigger, StartScrape, Hear, Wake, Release, Restart, Tick,
       CrawlReturns, SchedulerInv, TypeOK, Origins
  <2>2. Overdue /\ loop = "check"
    BY <2>1 DEF Check, SchedulerInv, TypeOK, Origins
  <2>3. CASE consecutiveFailures > 0
    BY <2>2, <2>3 DEF SchedulerInv, BackoffServed
  <2>4. CASE consecutiveFailures = 0
    <3>1. BackoffDelay(consecutiveFailures) = Interval
      BY <2>4 DEF BackoffDelay
    <3> QED
      BY <2>2, <2>4, <3>1, IntervalIsSet DEF SchedulerInv, BackoffServed,
         Overdue, TypeOK
  <2> QED  BY <2>3, <2>4 DEF SchedulerInv, TypeOK
<1> QED  BY SchedulerInvHolds, <1>1, PTL DEF Spec, BackoffHeld
-----------------------------------------------------------------------------
(* Rankings.                                                               *)

\* Tags and slices as the planner takes and makes them.
Tag == [slug : Nat, count : Nat]
SliceType ==
    [Sort : ToSet(allSorts), Filter : ToSet(allFilters) \cup {Unnamed}, Tags : Seq(Nat),
     Count : Nat, PageInFull : BOOLEAN]

\* Slugs and places order tags, sizes and places slices.
LEMMA SlugsOrder ==
    ASSUME NEW tags \in Seq(Tag)
    PROVE  IsOrder(SlugOrder(tags), 1..Len(tags))
<1>1. /\ Len(tags) \in Nat /\ DOMAIN tags = 1..Len(tags)
      /\ \A i \in 1..Len(tags) : tags[i].slug \in Nat
  <2>1. \A i \in 1..Len(tags) : tags[i] \in Tag
    BY ElementOfSeq
  <2> QED
    BY <2>1, LenProperties DEF Tag
<1>2. \A i, j \in 1..Len(tags) : <<i, j>> \in SlugOrder(tags) <=>
         \/ tags[i].slug < tags[j].slug
         \/ tags[i].slug = tags[j].slug /\ i <= j
  BY <1>1 DEF SlugOrder, Places
<1>3. ASSUME NEW i \in 1..Len(tags), NEW j \in 1..Len(tags)
      PROVE  /\ <<i, j>> \in SlugOrder(tags) \/ <<j, i>> \in SlugOrder(tags)
             /\ <<i, j>> \in SlugOrder(tags) /\ <<j, i>> \in SlugOrder(tags) => i = j
  BY <1>1, <1>2
<1>4. ASSUME NEW i \in 1..Len(tags), NEW j \in 1..Len(tags), NEW k \in 1..Len(tags),
             <<i, j>> \in SlugOrder(tags), <<j, k>> \in SlugOrder(tags)
      PROVE  <<i, k>> \in SlugOrder(tags)
  <2> DEFINE a == tags[i].slug
             b == tags[j].slug
             c == tags[k].slug
  <2>1. {a, b, c, i, j, k} \subseteq Int
    BY <1>1
  <2>2. (a < b \/ (a = b /\ i <= j)) /\ (b < c \/ (b = c /\ j <= k))
    BY <1>2, <1>4
  <2>3. a < c \/ (a = c /\ i <= k) => <<i, k>> \in SlugOrder(tags)
    BY <1>2
  <2> HIDE DEF a, b, c
  <2> QED
    BY <2>1, <2>2, <2>3
<1> QED
  BY <1>3, <1>4 DEF IsOrder

\* So do sizes and places, a larger slice before a smaller one.
LEMMA SizesOrder ==
    ASSUME NEW slices \in Seq(SliceType)
    PROVE  /\ IsOrder(SizeOrder(slices), 1..Len(slices))
           /\ \A i, j \in 1..Len(slices) :
                 <<i, j>> \in SizeOrder(slices) => slices[i].Count >= slices[j].Count
<1>1. /\ Len(slices) \in Nat /\ DOMAIN slices = 1..Len(slices)
      /\ \A i \in 1..Len(slices) : slices[i].Count \in Nat
  <2>1. \A i \in 1..Len(slices) : slices[i] \in SliceType
    BY ElementOfSeq
  <2> QED
    BY <2>1, LenProperties DEF SliceType
<1>2. \A i, j \in 1..Len(slices) : <<i, j>> \in SizeOrder(slices) <=>
         \/ slices[i].Count > slices[j].Count
         \/ slices[i].Count = slices[j].Count /\ i <= j
  BY <1>1 DEF SizeOrder, Places
<1>3. IsOrder(SizeOrder(slices), 1..Len(slices))
  <2>1. ASSUME NEW i \in 1..Len(slices), NEW j \in 1..Len(slices)
        PROVE  /\ <<i, j>> \in SizeOrder(slices) \/ <<j, i>> \in SizeOrder(slices)
               /\ <<i, j>> \in SizeOrder(slices) /\ <<j, i>> \in SizeOrder(slices) => i = j
    BY <1>1, <1>2
  <2>2. ASSUME NEW i \in 1..Len(slices), NEW j \in 1..Len(slices), NEW k \in 1..Len(slices),
               <<i, j>> \in SizeOrder(slices), <<j, k>> \in SizeOrder(slices)
        PROVE  <<i, k>> \in SizeOrder(slices)
    <3> DEFINE a == slices[i].Count
               b == slices[j].Count
               c == slices[k].Count
    <3>1. {a, b, c, i, j, k} \subseteq Int
      BY <1>1
    <3>2. (a > b \/ (a = b /\ i <= j)) /\ (b > c \/ (b = c /\ j <= k))
      BY <1>2, <2>2
    <3>3. a > c \/ (a = c /\ i <= k) => <<i, k>> \in SizeOrder(slices)
      BY <1>2
    <3> HIDE DEF a, b, c
    <3> QED
      BY <3>1, <3>2, <3>3
  <2> QED
    BY <2>1, <2>2 DEF IsOrder
<1> QED
  BY <1>1, <1>2, <1>3

\* Tags with different slugs, sorted: all of them, by rising slug.
LEMMA BySlugIs ==
    ASSUME NEW tags, tags \subseteq Tag, IsFiniteSet(tags),
           \A t, u \in tags : t.slug = u.slug => t = u
    PROVE  /\ BySlug(tags) \in Seq(tags)
           /\ \A t \in tags : \E i \in 1..Len(BySlug(tags)) : BySlug(tags)[i] = t
           /\ \A i, j \in 1..Len(BySlug(tags)) : i < j => BySlug(tags)[i].slug < BySlug(tags)[j].slug
<1> DEFINE found == SetToSeq(tags)
           n == Len(found)
<1>0. \A t, u \in tags : t.slug = u.slug => t = u
  OBVIOUS
<1>1. /\ found \in Seq(tags)
      /\ \A t \in tags : \E i \in 1..n : found[i] = t
      /\ \A i, j \in 1..n : i # j => found[i] # found[j]
  BY SetAsSeq
<1> HIDE DEF found
<1>2. found \in Seq(Tag) /\ n \in Nat /\ DOMAIN found = 1..n
  BY <1>1, SeqMonotonic, LenProperties
<1>3. IsOrder(SlugOrder(found), 1..n)
  BY <1>2, SlugsOrder
<1>4. PICK place \in [1..n -> 1..n] :
         /\ Ranked(found, SlugOrder(found)) = [k \in 1..n |-> found[place[k]]]
         /\ \A i \in 1..n : \E k \in 1..n : place[k] = i
         /\ \A k, l \in 1..n : k < l =>
               place[k] # place[l] /\ <<place[k], place[l]>> \in SlugOrder(found)
  BY <1>2, <1>3, RankedIs
<1> DEFINE out == [k \in 1..n |-> found[place[k]]]
<1>5. BySlug(tags) = out
  BY <1>4 DEF BySlug, found
<1>6. \A i \in 1..n : found[i] \in tags /\ found[i].slug \in Nat
  <2>1. \A i \in 1..n : found[i] \in tags
    BY <1>1, ElementOfSeq
  <2> QED
    BY <2>1 DEF Tag
<1>7. out \in Seq(tags) /\ Len(out) = n
  <2>1. out \in [1..n -> tags]
    BY <1>4, <1>6
  <2> HIDE DEF out
  <2>2. out \in Seq(tags)
    BY <2>1, <1>2 DEF Seq
  <2>3. DOMAIN out = 1..n /\ DOMAIN out = 1..Len(out) /\ Len(out) \in Nat
    BY <2>1, <2>2, LenProperties
  <2> QED
    BY <2>2, <2>3, <1>2
<1>8. ASSUME NEW t \in tags
      PROVE  \E k \in 1..n : out[k] = t
  <2>1. PICK i \in 1..n : found[i] = t
    BY <1>1
  <2>2. PICK k \in 1..n : place[k] = i
    BY <1>4
  <2> QED
    BY <2>1, <2>2
<1>9. ASSUME NEW k \in 1..n, NEW l \in 1..n, k < l
      PROVE  out[k].slug < out[l].slug
  <2>1. place[k] \in 1..n /\ place[l] \in 1..n /\ place[k] # place[l]
        /\ <<place[k], place[l]>> \in SlugOrder(found)
    BY <1>4, <1>9
  <2>2. found[place[k]].slug <= found[place[l]].slug
    BY <2>1, <1>6 DEF SlugOrder
  <2>3. found[place[k]].slug # found[place[l]].slug
    <3>1. found[place[k]] # found[place[l]] /\ found[place[k]] \in tags /\ found[place[l]] \in tags
      BY ONLY <2>1, <1>1, <1>6
    <3> QED
      BY ONLY <1>0, <3>1
  <2>4. found[place[k]].slug \in Nat /\ found[place[l]].slug \in Nat
    BY <2>1, <1>6
  <2> QED
    BY <2>2, <2>3, <2>4
<1> HIDE DEF out
<1> QED
  BY <1>5, <1>7, <1>8, <1>9

\* Slices, sorted: all of them, each once, by falling count.
LEMMA LargestFirstIs ==
    ASSUME NEW slices \in Seq(SliceType)
    PROVE  \E place \in [1..Len(slices) -> 1..Len(slices)] :
              /\ LargestFirst(slices) = [k \in 1..Len(slices) |-> slices[place[k]]]
              /\ \A i \in 1..Len(slices) : \E k \in 1..Len(slices) : place[k] = i
              /\ \A k, l \in 1..Len(slices) : k < l =>
                    place[k] # place[l] /\ slices[place[k]].Count >= slices[place[l]].Count
<1>1. PICK place \in [1..Len(slices) -> 1..Len(slices)] :
         /\ Ranked(slices, SizeOrder(slices)) = [k \in 1..Len(slices) |-> slices[place[k]]]
         /\ \A i \in 1..Len(slices) : \E k \in 1..Len(slices) : place[k] = i
         /\ \A k, l \in 1..Len(slices) : k < l =>
               place[k] # place[l] /\ <<place[k], place[l]>> \in SizeOrder(slices)
  BY SizesOrder, RankedIs
<1>2. ASSUME NEW k \in 1..Len(slices), NEW l \in 1..Len(slices), k < l
      PROVE  place[k] # place[l] /\ slices[place[k]].Count >= slices[place[l]].Count
  <2>1. /\ place[k] \in 1..Len(slices) /\ place[l] \in 1..Len(slices) /\ place[k] # place[l]
        /\ <<place[k], place[l]>> \in SizeOrder(slices)
    BY <1>1, <1>2
  <2> QED
    BY <2>1, SizesOrder
<1> QED
  BY <1>1, <1>2 DEF LargestFirst
-----------------------------------------------------------------------------
(* Sequences put together.                                                 *)

\* A slice's view, by which two slices are told apart.
Key(s) == <<s.Sort, s.Filter, s.Tags>>
Apart(slices) == \A i, j \in 1..Len(slices) : i # j => Key(slices[i]) # Key(slices[j])
Disjoint(a, b) == \A x, y : Contains(a, x) /\ Contains(b, y) => Key(x) # Key(y)

\* A concatenation contains what its parts do, and tells slices apart if they
\* do and have none in common.
LEMMA ConcatIs ==
    ASSUME NEW S, NEW a \in Seq(S), NEW b \in Seq(S)
    PROVE  /\ a \o b \in Seq(S)
           /\ \A x : Contains(a \o b, x) <=> Contains(a, x) \/ Contains(b, x)
           /\ Apart(a) /\ Apart(b) /\ Disjoint(a, b) => Apart(a \o b)
<1> DEFINE ab == a \o b
<1>1. /\ ab \in Seq(S) /\ Len(ab) = Len(a) + Len(b) /\ Len(a) \in Nat /\ Len(b) \in Nat
      /\ \A i \in 1..Len(a) + Len(b) : ab[i] = IF i <= Len(a) THEN a[i] ELSE b[i - Len(a)]
  BY ConcatProperties, LenProperties
<1> HIDE DEF ab
<1>2. \A i \in 1..Len(ab) : \/ i \in 1..Len(a) /\ ab[i] = a[i]
                            \/ i - Len(a) \in 1..Len(b) /\ ab[i] = b[i - Len(a)]
  BY <1>1
<1>3. ASSUME NEW x
      PROVE  Contains(ab, x) <=> Contains(a, x) \/ Contains(b, x)
  <2>1. ASSUME NEW i \in 1..Len(a)
        PROVE  i \in 1..Len(ab) /\ ab[i] = a[i]
    BY <1>1
  <2>2. ASSUME NEW i \in 1..Len(b)
        PROVE  i + Len(a) \in 1..Len(ab) /\ ab[i + Len(a)] = b[i]
    <3>1. i + Len(a) \in 1..Len(a) + Len(b) /\ ~(i + Len(a) <= Len(a)) /\ i + Len(a) - Len(a) = i
      BY <1>1
    <3> QED
      BY <1>1, <3>1
  <2>3. ASSUME NEW i \in 1..Len(ab), ab[i] = x
        PROVE  (\E k \in 1..Len(a) : a[k] = x) \/ \E k \in 1..Len(b) : b[k] = x
    BY ONLY <1>2, <2>3
  <2>4. ASSUME (\E k \in 1..Len(a) : a[k] = x) \/ \E k \in 1..Len(b) : b[k] = x
        PROVE  \E i \in 1..Len(ab) : ab[i] = x
    BY ONLY <2>1, <2>2, <2>4
  <2> QED
    BY ONLY <2>3, <2>4 DEF Contains
<1>4. ASSUME Apart(a), Apart(b), Disjoint(a, b)
      PROVE  Apart(ab)
  <2>1. SUFFICES ASSUME NEW i \in 1..Len(ab), NEW j \in 1..Len(ab), i # j
                 PROVE  Key(ab[i]) # Key(ab[j])
    BY DEF Apart
  <2>2. i \in Int /\ j \in Int /\ Len(a) \in Int
    BY <1>1
  <2>3. CASE i \in 1..Len(a) /\ ab[i] = a[i] /\ j \in 1..Len(a) /\ ab[j] = a[j]
    BY <2>1, <2>3, <1>4 DEF Apart
  <2>4. CASE i \in 1..Len(a) /\ ab[i] = a[i] /\ j - Len(a) \in 1..Len(b) /\ ab[j] = b[j - Len(a)]
    BY <2>4, <1>4 DEF Disjoint, Contains
  <2>5. CASE i - Len(a) \in 1..Len(b) /\ ab[i] = b[i - Len(a)] /\ j \in 1..Len(a) /\ ab[j] = a[j]
    BY <2>5, <1>4 DEF Disjoint, Contains
  <2>6. CASE /\ i - Len(a) \in 1..Len(b) /\ ab[i] = b[i - Len(a)]
             /\ j - Len(a) \in 1..Len(b) /\ ab[j] = b[j - Len(a)]
    <3>1. i - Len(a) # j - Len(a)
      BY <2>1, <2>2
    <3> QED
      BY <3>1, <2>6, <1>4 DEF Apart
  <2> QED
    BY <1>2, <2>3, <2>4, <2>5, <2>6
<1> QED
  BY <1>1, <1>3, <1>4 DEF ab

\* So has a sequence of sequences, concatenated.
LEMMA FlattenIs ==
    ASSUME NEW S, NEW seqs \in Seq(Seq(S))
    PROVE  /\ FlattenSeq(seqs) \in Seq(S)
           /\ \A x : Contains(FlattenSeq(seqs), x) <=> \E i \in 1..Len(seqs) : Contains(seqs[i], x)
           /\ (\A i \in 1..Len(seqs) : Apart(seqs[i]))
              /\ (\A i, j \in 1..Len(seqs) : i < j => Disjoint(seqs[i], seqs[j]))
                => Apart(FlattenSeq(seqs))
<1> DEFINE n == Len(seqs)
<1>0. n \in Nat /\ \A i \in 1..n : seqs[i] \in Seq(S)
  BY LenProperties, ElementOfSeq
<1>1. CASE n = 0
  <2>1. FlattenSeq(seqs) = <<>> /\ seqs = <<>>
    BY <1>1, EmptySeq DEF FlattenSeq
  <2>2. Len(<<>>) = 0 /\ <<>> \in Seq(S)
    BY EmptySeq
  <2>3. \A i \in 1..0 : FALSE
    OBVIOUS
  <2> QED
    BY <2>1, <2>2, <2>3 DEF Contains, Apart
<1>2. CASE n # 0
  <2>1. PICK parts : IsJoined(seqs, n, parts) /\ FlattenSeq(seqs) = parts[n]
    BY <1>0, <1>2, FlattenJoins
  <2>2. /\ parts[1] = seqs[1] /\ 1 \in 1..n
        /\ \A m \in 1..n : m < n => m + 1 \in 1..n /\ parts[m + 1] = parts[m] \o seqs[m + 1]
    <3>1. 1 \in 1..n /\ parts[1] = seqs[1]
      BY <1>0, <1>2, <2>1 DEF IsJoined
    <3>2. ASSUME NEW m \in 1..n, m < n
          PROVE  m + 1 \in 1..n /\ parts[m + 1] = parts[m] \o seqs[m + 1]
      <4> DEFINE next == m + 1
      <4>1. next \in 1..n /\ next # 1 /\ next - 1 = m
        BY <1>0, <3>2
      <4> HIDE DEF next
      <4>2. parts[next] = parts[next - 1] \o seqs[next]
        BY <4>1, <2>1 DEF IsJoined
      <4>3. next \in 1..n /\ parts[next] = parts[m] \o seqs[next]
        BY <4>1, <4>2
      <4> QED
        BY <4>3 DEF next
    <3> QED
      BY <3>1, <3>2
  <2> DEFINE G == {m \in 1..n : /\ parts[m] \in Seq(S)
                                /\ \A x : Contains(parts[m], x) <=> \E i \in 1..m : Contains(seqs[i], x)}
  <2>3. 1..n \subseteq G
    <3>1. 1 \in G
      <4>1. \A i \in 1..1 : i = 1
        OBVIOUS
      <4> QED
        BY <4>1, <2>2, <1>0
    <3>2. ASSUME NEW m \in 1..n, m \in G, m < n
          PROVE  m + 1 \in G
      <4>1. /\ parts[m] \in Seq(S) /\ seqs[m + 1] \in Seq(S) /\ m + 1 \in 1..n
            /\ parts[m + 1] = parts[m] \o seqs[m + 1]
        BY <3>2, <2>2, <1>0
      <4>2. /\ parts[m + 1] \in Seq(S)
            /\ \A x : Contains(parts[m + 1], x) <=> Contains(parts[m], x) \/ Contains(seqs[m + 1], x)
        BY <4>1, ConcatIs
      <4>3. \A i : i \in 1..m + 1 <=> i \in 1..m \/ i = m + 1
        BY <1>0
      <4> QED
        BY <3>2, <4>1, <4>2, <4>3
    <3> HIDE DEF G
    <3> QED
      BY <3>1, <3>2, <1>0, UpTo
  <2>4. \A m \in 1..n : /\ parts[m] \in Seq(S)
                        /\ \A x : Contains(parts[m], x) <=> \E i \in 1..m : Contains(seqs[i], x)
    BY <2>3
  <2> HIDE DEF G
  <2>5. ASSUME \A i \in 1..n : Apart(seqs[i]),
               \A i, j \in 1..n : i < j => Disjoint(seqs[i], seqs[j])
        PROVE  Apart(parts[n])
    <3> DEFINE H == {m \in 1..n : Apart(parts[m])}
    <3>1. 1 \in H
      BY <2>2, <2>5
    <3>2. ASSUME NEW m \in 1..n, m \in H, m < n
          PROVE  m + 1 \in H
      <4>1. /\ parts[m] \in Seq(S) /\ seqs[m + 1] \in Seq(S) /\ m + 1 \in 1..n
            /\ parts[m + 1] = parts[m] \o seqs[m + 1]
        BY <3>2, <2>2, <2>4, <1>0
      <4>2. Disjoint(parts[m], seqs[m + 1])
        <5>1. SUFFICES ASSUME NEW x, NEW y, Contains(parts[m], x), Contains(seqs[m + 1], y)
                       PROVE  Key(x) # Key(y)
          BY DEF Disjoint
        <5>2. PICK i \in 1..m : Contains(seqs[i], x)
          BY <5>1, <2>4
        <5>3. i \in 1..n /\ i < m + 1
          BY <1>0
        <5>4. Disjoint(seqs[i], seqs[m + 1])
          BY <5>3, <4>1, <2>5
        <5> QED
          BY <5>1, <5>2, <5>4 DEF Disjoint
      <4>3. Apart(parts[m]) /\ Apart(seqs[m + 1])
        BY <3>2, <4>1, <2>5
      <4>4. Apart(parts[m + 1])
        BY <4>1, <4>2, <4>3, ConcatIs
      <4> QED
        BY <4>1, <4>4
    <3>3. H \subseteq 1..n
      OBVIOUS
    <3>4. n \in H
      <4> HIDE DEF H
      <4>1. 1..n \subseteq H
        BY <3>1, <3>2, <1>0, UpTo
      <4>2. n \in 1..n
        BY <1>0, <1>2
      <4> QED
        BY ONLY <4>1, <4>2
    <3> QED
      BY <3>4
  <2>6. n \in 1..n
    BY <1>0, <1>2
  <2> QED
    BY <2>1, <2>4, <2>5, <2>6
<1> QED
  BY <1>1, <1>2
-----------------------------------------------------------------------------
(* The views that are planned.                                             *)

\* Tags of up to two slugs are told apart by their number and their slugs.
LEMMA ShortTags ==
    /\ Len(<<>>) = 0
    /\ \A a, b : /\ Len(<<a>>) = 1 /\ Len(<<a, b>>) = 2
                 /\ <<>> # <<a>> /\ <<>> # <<a, b>>
    /\ \A a, b, c : <<a>> # <<b, c>>
    /\ \A a, b : <<a>> = <<b>> => a = b
    /\ \A a, b, c, d : <<a, b>> = <<c, d>> => a = c /\ b = d
OBVIOUS

\* Tags in the order of their slugs, none of which is the empty one.
InSlugOrder(tags) ==
    /\ tags \in Seq(Tag)
    /\ \A i \in 1..Len(tags) : tags[i].slug > 0
    /\ \A i, j \in 1..Len(tags) : i < j => tags[i].slug < tags[j].slug

\* What the plan's slices are like: an ordering or a filter or neither, and a
\* pair of tags only with neither.
WellNamed(s) ==
    /\ s \in SliceType
    /\ s.Sort = Unnamed \/ s.Filter = Unnamed
    /\ \/ s.Tags = <<>>
       \/ \E t \in Nat : s.Tags = <<t>>
       \/ \E t, u \in Nat : t < u /\ s.Tags = <<t, u>> /\ s.Sort = Unnamed /\ s.Filter = Unnamed

\* The names of orderings and filters.
LEMMA NamesAre ==
    ASSUME PlannerConstants
    PROVE  /\ Len(allSorts) \in Nat /\ Len(allFilters) \in Nat
           /\ DOMAIN allSorts = 1..Len(allSorts) /\ DOMAIN allFilters = 1..Len(allFilters)
           /\ \A i \in 1..Len(allSorts) : allSorts[i] \in ToSet(allSorts)
           /\ \A i \in 1..Len(allFilters) :
                 allFilters[i] \in ToSet(allFilters) /\ allFilters[i] # Unnamed
           /\ \A i, j \in 1..Len(allSorts) : i # j => allSorts[i] # allSorts[j]
           /\ \A i, j \in 1..Len(allFilters) : i # j => allFilters[i] # allFilters[j]
           /\ Unnamed \in ToSet(allSorts) /\ "newest" \in ToSet(allSorts)
           /\ \A f \in ToSet(allFilters) : f # Unnamed /\ f \notin ToSet(allSorts)
<1>1. /\ Len(allSorts) \in Nat /\ DOMAIN allSorts = 1..Len(allSorts)
  BY LenProperties DEF PlannerConstants
<1>2. /\ Len(allFilters) \in Nat /\ DOMAIN allFilters = 1..Len(allFilters)
  BY LenProperties DEF PlannerConstants
<1>3. /\ \A i \in 1..Len(allSorts) : allSorts[i] \in ToSet(allSorts)
      /\ \A i \in 1..Len(allFilters) : allFilters[i] \in ToSet(allFilters)
  BY <1>1, <1>2 DEF ToSet
<1>4. /\ Unnamed \in ToSet(allSorts) /\ "newest" \in ToSet(allSorts)
      /\ ToSet(allSorts) \cap ToSet(allFilters) = {}
  BY DEF PlannerConstants
<1>5. \A f \in ToSet(allFilters) : f # Unnamed /\ f \notin ToSet(allSorts)
  BY <1>4
<1>6. /\ \A i, j \in 1..Len(allSorts) : i # j => allSorts[i] # allSorts[j]
      /\ \A i, j \in 1..Len(allFilters) : i # j => allFilters[i] # allFilters[j]
  BY <1>1, <1>2 DEF PlannerConstants, IsInjective
<1> QED
  BY <1>1, <1>2, <1>3, <1>4, <1>5, <1>6

\* A slice that is made is a slice, and has the parts it is made of.
LEMMA SliceIs ==
    ASSUME NEW sort \in ToSet(allSorts), NEW filter \in ToSet(allFilters) \cup {Unnamed},
           NEW tags \in Seq(Nat), NEW count \in Nat, NEW inFull \in BOOLEAN,
           NEW s, s = Slice(sort, filter, tags, count, inFull)
    PROVE  /\ s \in SliceType
           /\ s.Sort = sort /\ s.Filter = filter /\ s.Tags = tags
           /\ s.Count = count /\ s.PageInFull = inFull
BY DEF Slice, SliceType

\* Slices have the same key if they agree in three parts.
LEMMA SameKey ==
    \A s, t : Key(s) = Key(t) <=> s.Sort = t.Sort /\ s.Filter = t.Filter /\ s.Tags = t.Tags
BY DEF Key

\* A slice of these shows what a tag's view holds under a filter, paged in full.
InFull(slices, t, filter) ==
    \E s : /\ Contains(slices, s) /\ s.Sort = Unnamed /\ s.Filter = filter
           /\ s.Tags = <<t.slug>> /\ s.Count = t.count /\ s.PageInFull

\* The views of no tag.
LEMMA UntaggedIs ==
    ASSUME PlannerConstants, NEW ceiling \in Nat
    PROVE  /\ Untagged(ceiling) \in Seq(SliceType) /\ Apart(Untagged(ceiling))
           /\ \A s : Contains(Untagged(ceiling), s) =>
                 WellNamed(s) /\ s.Filter # Unnamed /\ s.Tags = <<>>
<1> DEFINE slices == Untagged(ceiling)
           n == Len(allFilters)
<1>1. /\ slices = [f \in 1..n |-> Slice(Unnamed, allFilters[f], <<>>, ceiling, FALSE)]
      /\ n \in Nat
  BY NamesAre DEF Untagged
<1>2. \A f \in 1..n :
         /\ slices[f] = Slice(Unnamed, allFilters[f], <<>>, ceiling, FALSE)
         /\ allFilters[f] \in ToSet(allFilters) /\ allFilters[f] # Unnamed
  BY <1>1, NamesAre
<1> HIDE DEF slices
<1>4. ASSUME NEW f \in 1..n
      PROVE  /\ slices[f] \in SliceType
             /\ slices[f].Sort = Unnamed /\ slices[f].Filter = allFilters[f] /\ slices[f].Tags = <<>>
  <2> DEFINE none == <<>>
             no == FALSE
  <2>1. none \in Seq(Nat)
    BY EmptySeq
  <2>2. no \in BOOLEAN
    OBVIOUS
  <2>3. slices[f] = Slice(Unnamed, allFilters[f], none, ceiling, no)
    BY <1>2
  <2> HIDE DEF none, no
  <2>4. /\ slices[f] \in SliceType
        /\ slices[f].Sort = Unnamed /\ slices[f].Filter = allFilters[f] /\ slices[f].Tags = none
    BY <1>2, <2>1, <2>2, <2>3, SliceIs, NamesAre
  <2> QED
    BY <2>4 DEF none
<1>5. slices \in Seq(SliceType) /\ Len(slices) = n
  <2>1. slices \in [1..n -> SliceType]
    BY <1>1, <1>4
  <2>2. \A S, f : f \in [1..n -> S] => f \in Seq(S) /\ Len(f) = n
    BY <1>1, FunctionIsSeq
  <2> QED
    BY ONLY <2>1, <2>2
<1>6. Apart(slices)
  <2>1. ASSUME NEW i \in 1..n, NEW j \in 1..n, i # j
        PROVE  Key(slices[i]) # Key(slices[j])
    <3>1. allFilters[i] # allFilters[j]
      BY <2>1, NamesAre
    <3>2. slices[i].Filter # slices[j].Filter
      BY <3>1, <1>4
    <3> QED
      BY <3>2, SameKey
  <2> QED
    BY <2>1, <1>5 DEF Apart
<1>7. ASSUME NEW s, Contains(slices, s)
      PROVE  WellNamed(s) /\ s.Filter # Unnamed /\ s.Tags = <<>>
  <2>1. PICK f \in 1..n : slices[f] = s
    BY <1>5, <1>7 DEF Contains
  <2> QED
    BY <2>1, <1>2, <1>4, NamesAre DEF WellNamed
<1> QED
  BY <1>5, <1>6, <1>7 DEF slices

\* The small tags, each in full.
LEMMA WholeIs ==
    ASSUME PlannerConstants, NEW small, InSlugOrder(small)
    PROVE  /\ Whole(small) \in Seq(SliceType) /\ Apart(Whole(small))
           /\ \A i \in 1..Len(small) : InFull(Whole(small), small[i], Unnamed)
           /\ \A s : Contains(Whole(small), s) =>
                 WellNamed(s) /\ \E i \in 1..Len(small) : s.Tags = <<small[i].slug>>
<1> DEFINE slices == Whole(small)
           n == Len(small)
<1>0. /\ n \in Nat /\ DOMAIN small = 1..n
      /\ \A i \in 1..n : small[i].slug \in Nat /\ small[i].count \in Nat
  <2>1. \A i \in 1..n : small[i] \in Tag
    BY ElementOfSeq DEF InSlugOrder
  <2> QED
    BY <2>1, LenProperties DEF InSlugOrder, Tag
<1>1. slices = [i \in 1..n |-> Slice(Unnamed, Unnamed, <<small[i].slug>>, small[i].count, TRUE)]
  BY <1>0 DEF Whole
<1>2. \A i \in 1..n : slices[i] = Slice(Unnamed, Unnamed, <<small[i].slug>>, small[i].count, TRUE)
  BY <1>1
<1> HIDE DEF slices
<1>4. ASSUME NEW i \in 1..n
      PROVE  /\ slices[i] \in SliceType
             /\ slices[i].Sort = Unnamed /\ slices[i].Filter = Unnamed /\ slices[i].Tags = <<small[i].slug>>
             /\ slices[i].Count = small[i].count /\ slices[i].PageInFull
  <2> DEFINE one == <<small[i].slug>>
             yes == TRUE
  <2>1. one \in Seq(Nat)
    BY <1>0
  <2>2. yes \in BOOLEAN
    OBVIOUS
  <2>3. slices[i] = Slice(Unnamed, Unnamed, one, small[i].count, yes)
    BY <1>2
  <2> HIDE DEF one, yes
  <2>4. /\ slices[i] \in SliceType
        /\ slices[i].Sort = Unnamed /\ slices[i].Filter = Unnamed /\ slices[i].Tags = one
        /\ slices[i].Count = small[i].count /\ slices[i].PageInFull = yes
    BY <1>0, <2>1, <2>2, <2>3, SliceIs, NamesAre
  <2> QED
    BY <2>4 DEF one, yes
<1>5. slices \in Seq(SliceType) /\ Len(slices) = n
  <2>1. slices \in [1..n -> SliceType]
    BY <1>1, <1>4
  <2> QED
    BY <1>0, <2>1, FunctionIsSeq
<1>6. Apart(slices)
  <2>1. ASSUME NEW i \in 1..n, NEW j \in 1..n, i # j
        PROVE  Key(slices[i]) # Key(slices[j])
    <3>1. i < j \/ j < i
      BY <1>0, <2>1
    <3>2. small[i].slug # small[j].slug
      BY <3>1, <1>0 DEF InSlugOrder
    <3>3. <<small[i].slug>> # <<small[j].slug>>
      BY <3>2, ShortTags
    <3> QED
      BY <3>3, <1>4, SameKey
  <2> QED
    BY <2>1, <1>5 DEF Apart
<1>7. ASSUME NEW s, Contains(slices, s)
      PROVE  WellNamed(s) /\ \E i \in 1..n : s.Tags = <<small[i].slug>>
  <2>1. PICK i \in 1..n : slices[i] = s
    BY <1>5, <1>7 DEF Contains
  <2> QED
    BY <2>1, <1>0, <1>4, NamesAre DEF WellNamed
<1>8. ASSUME NEW i \in 1..n
      PROVE  InFull(slices, small[i], Unnamed)
  <2>1. Contains(slices, slices[i])
    BY <1>5 DEF Contains
  <2> QED
    BY <2>1, <1>4 DEF InFull
<1> QED
  BY <1>5, <1>6, <1>7, <1>8 DEF slices

\* A large tag through every ordering and every filter, in full through the
\* filters.
LEMMA WindowsAre ==
    ASSUME PlannerConstants, NEW t \in Tag
    PROVE  /\ Windows(t) \in Seq(SliceType) /\ Apart(Windows(t))
           /\ \A f \in ToSet(allFilters) : InFull(Windows(t), t, f)
           /\ \A s : Contains(Windows(t), s) => WellNamed(s) /\ s.Tags = <<t.slug>>
<1> DEFINE sorted == [o \in 1..Len(allSorts) |-> Slice(allSorts[o], Unnamed, <<t.slug>>, t.count, FALSE)]
           filtered == [f \in 1..Len(allFilters) |-> Slice(Unnamed, allFilters[f], <<t.slug>>, t.count, TRUE)]
           one == <<t.slug>>
           yes == TRUE
           no == FALSE
<1>0. /\ Windows(t) = sorted \o filtered
      /\ one \in Seq(Nat) /\ t.slug \in Nat /\ t.count \in Nat
      /\ Len(allSorts) \in Nat /\ Len(allFilters) \in Nat
  <2>1. t.slug \in Nat /\ t.count \in Nat
    BY DEF Tag
  <2>2. one \in Seq(Nat)
    BY <2>1
  <2>3. Windows(t) = sorted \o filtered
    BY NamesAre DEF Windows
  <2> HIDE DEF one, sorted, filtered
  <2> QED
    BY <2>1, <2>2, <2>3, NamesAre
<1>1. yes \in BOOLEAN /\ no \in BOOLEAN
  OBVIOUS
<1>2. /\ \A o \in 1..Len(allSorts) : sorted[o] = Slice(allSorts[o], Unnamed, one, t.count, no)
      /\ \A f \in 1..Len(allFilters) : filtered[f] = Slice(Unnamed, allFilters[f], one, t.count, yes)
  OBVIOUS
<1>3. sorted = [o \in 1..Len(allSorts) |-> sorted[o]] /\ filtered = [f \in 1..Len(allFilters) |-> filtered[f]]
  OBVIOUS
<1> HIDE DEF sorted, filtered, one, yes, no
<1>4. ASSUME NEW o \in 1..Len(allSorts)
      PROVE  /\ sorted[o] \in SliceType
             /\ sorted[o].Sort = allSorts[o] /\ sorted[o].Filter = Unnamed /\ sorted[o].Tags = one
  BY <1>0, <1>1, <1>2, SliceIs, NamesAre
<1>5. ASSUME NEW f \in 1..Len(allFilters)
      PROVE  /\ filtered[f] \in SliceType
             /\ filtered[f].Sort = Unnamed /\ filtered[f].Filter = allFilters[f]
             /\ filtered[f].Tags = one /\ filtered[f].Count = t.count /\ filtered[f].PageInFull = yes
  BY <1>0, <1>1, <1>2, SliceIs, NamesAre
<1>6. /\ sorted \in Seq(SliceType) /\ Len(sorted) = Len(allSorts)
      /\ filtered \in Seq(SliceType) /\ Len(filtered) = Len(allFilters)
  <2>1. sorted \in [1..Len(allSorts) -> SliceType] /\ filtered \in [1..Len(allFilters) -> SliceType]
    BY <1>3, <1>4, <1>5
  <2> QED
    BY <1>0, <2>1, FunctionIsSeq
<1>7. Apart(sorted)
  <2>1. ASSUME NEW i \in 1..Len(allSorts), NEW j \in 1..Len(allSorts), i # j
        PROVE  Key(sorted[i]) # Key(sorted[j])
    <3>1. allSorts[i] # allSorts[j]
      BY <2>1, NamesAre
    <3>2. sorted[i].Sort # sorted[j].Sort
      BY <3>1, <1>4
    <3> QED
      BY <3>2, SameKey
  <2> QED
    BY <2>1, <1>6 DEF Apart
<1>8. Apart(filtered)
  <2>1. ASSUME NEW i \in 1..Len(allFilters), NEW j \in 1..Len(allFilters), i # j
        PROVE  Key(filtered[i]) # Key(filtered[j])
    <3>1. allFilters[i] # allFilters[j]
      BY <2>1, NamesAre
    <3>2. filtered[i].Filter # filtered[j].Filter
      BY <3>1, <1>5
    <3> QED
      BY <3>2, SameKey
  <2> QED
    BY <2>1, <1>6 DEF Apart
<1>9. Disjoint(sorted, filtered)
  <2>1. SUFFICES ASSUME NEW i \in 1..Len(allSorts), NEW j \in 1..Len(allFilters)
                 PROVE  Key(sorted[i]) # Key(filtered[j])
    BY <1>6 DEF Disjoint, Contains
  <2>2. sorted[i].Filter # filtered[j].Filter
    BY <1>4, <1>5, NamesAre
  <2> QED
    BY <2>2, SameKey
<1>10. /\ Windows(t) \in Seq(SliceType) /\ Apart(Windows(t))
       /\ \A s : Contains(Windows(t), s) <=> Contains(sorted, s) \/ Contains(filtered, s)
  BY <1>0, <1>6, <1>7, <1>8, <1>9, ConcatIs
<1>11. ASSUME NEW f \in ToSet(allFilters)
       PROVE  \E s : /\ Contains(Windows(t), s) /\ s.Sort = Unnamed /\ s.Filter = f
                     /\ s.Tags = one /\ s.Count = t.count /\ s.PageInFull = yes
  <2>1. PICK k \in 1..Len(allFilters) : allFilters[k] = f
    BY NamesAre DEF ToSet
  <2>2. Contains(filtered, filtered[k])
    BY <1>6 DEF Contains
  <2> QED
    BY <2>1, <2>2, <1>5, <1>10
<1>12. ASSUME NEW s, Contains(Windows(t), s)
       PROVE  s \in SliceType /\ (s.Sort = Unnamed \/ s.Filter = Unnamed) /\ s.Tags = one
  <2>1. CASE Contains(sorted, s)
    BY <2>1, <1>4, <1>6 DEF Contains
  <2>2. CASE Contains(filtered, s)
    BY <2>2, <1>5, <1>6 DEF Contains
  <2> QED
    BY <1>10, <1>12, <2>1, <2>2
<1>13. \A s : Contains(Windows(t), s) => WellNamed(s) /\ s.Tags = <<t.slug>>
  BY <1>0, <1>12 DEF WellNamed, one
<1> QED
  BY <1>10, <1>11, <1>13 DEF InFull, one, yes

\* All large tags, each through all of these.
AllWindows(big) == FlattenSeq([i \in DOMAIN big |-> Windows(big[i])])

\* Those of different tags differ in the tag.
LEMMA AllWindowsAre ==
    ASSUME PlannerConstants, NEW big, InSlugOrder(big)
    PROVE  /\ AllWindows(big) \in Seq(SliceType) /\ Apart(AllWindows(big))
           /\ \A i \in 1..Len(big) : \A s : Contains(Windows(big[i]), s) => Contains(AllWindows(big), s)
           /\ \A s : Contains(AllWindows(big), s) =>
                 WellNamed(s) /\ \E i \in 1..Len(big) : s.Tags = <<big[i].slug>>
<1> DEFINE n == Len(big)
           parts == [i \in 1..n |-> Windows(big[i])]
<1>0. n \in Nat /\ DOMAIN big = 1..n /\ \A i \in 1..n : big[i] \in Tag
  BY LenProperties, ElementOfSeq DEF InSlugOrder
<1>1. AllWindows(big) = FlattenSeq(parts)
  BY <1>0 DEF AllWindows
<1>2. ASSUME NEW i \in 1..n
      PROVE  /\ parts[i] = Windows(big[i]) /\ parts[i] \in Seq(SliceType) /\ Apart(parts[i])
             /\ \A s : Contains(parts[i], s) => WellNamed(s) /\ s.Tags = <<big[i].slug>>
  <2>1. parts[i] = Windows(big[i])
    OBVIOUS
  <2> HIDE DEF parts
  <2> QED
    BY <2>1, <1>0, WindowsAre
<1>3. parts \in [1..n -> Seq(SliceType)]
  BY <1>2
<1> HIDE DEF parts
<1>4. parts \in Seq(Seq(SliceType)) /\ Len(parts) = n
  BY <1>0, <1>3, FunctionIsSeq
<1>5. ASSUME NEW i \in 1..n, NEW j \in 1..n, i < j
      PROVE  Disjoint(parts[i], parts[j])
  <2>1. SUFFICES ASSUME NEW x, NEW y, Contains(parts[i], x), Contains(parts[j], y)
                 PROVE  Key(x) # Key(y)
    BY DEF Disjoint
  <2>2. big[i].slug < big[j].slug /\ big[i].slug \in Nat /\ big[j].slug \in Nat
    BY <1>0, <1>5 DEF InSlugOrder, Tag
  <2>3. <<big[i].slug>> # <<big[j].slug>>
    BY <2>2, ShortTags
  <2>4. x.Tags = <<big[i].slug>> /\ y.Tags = <<big[j].slug>>
    BY <2>1, <1>2
  <2> QED
    BY <2>3, <2>4, SameKey
<1>6. /\ FlattenSeq(parts) \in Seq(SliceType) /\ Apart(FlattenSeq(parts))
      /\ \A s : Contains(FlattenSeq(parts), s) <=> \E i \in 1..n : Contains(parts[i], s)
  BY <1>2, <1>4, <1>5, FlattenIs
<1> QED
  BY <1>1, <1>2, <1>6

\* A large tag paired with those after it.
LEMMA PairsAre ==
    ASSUME PlannerConstants, NEW big, InSlugOrder(big), NEW i \in 1..Len(big)
    PROVE  /\ PairsFrom(big, i) \in Seq(SliceType) /\ Apart(PairsFrom(big, i))
           /\ \A s : Contains(PairsFrom(big, i), s) =>
                 WellNamed(s) /\ \E j \in 1..Len(big) : s.Tags = <<big[i].slug, big[j].slug>>
<1> DEFINE n == Len(big) - i
           slices == PairsFrom(big, i)
           count(j) == IF big[i + j].count < big[i].count THEN big[i + j].count ELSE big[i].count
           two(j) == <<big[i].slug, big[i + j].slug>>
           no == FALSE
<1>0. /\ Len(big) \in Nat /\ n \in Nat
      /\ \A j \in 1..Len(big) : big[j].slug \in Nat /\ big[j].count \in Nat
  <2>1. \A j \in 1..Len(big) : big[j] \in Tag
    BY ElementOfSeq DEF InSlugOrder
  <2> QED
    BY <2>1, LenProperties DEF InSlugOrder, Tag
<1>1. ASSUME NEW j \in 1..n
      PROVE  /\ i + j \in 1..Len(big) /\ i < i + j /\ count(j) \in Nat /\ two(j) \in Seq(Nat)
             /\ big[i].slug < big[i + j].slug
  <2>1. i + j \in 1..Len(big) /\ i < i + j
    BY <1>0
  <2>2. big[i].slug < big[i + j].slug
    BY <2>1 DEF InSlugOrder
  <2>3. big[i].slug \in Nat /\ big[i + j].slug \in Nat /\ big[i].count \in Nat /\ big[i + j].count \in Nat
    BY <2>1, <1>0
  <2>4. two(j) \in Seq(Nat)
    BY <2>3
  <2>5. count(j) \in Nat
    BY <2>3
  <2> QED
    BY <2>1, <2>2, <2>4, <2>5
<1>2. /\ slices = [j \in 1..n |-> slices[j]]
      /\ \A j \in 1..n : slices[j] = Slice(Unnamed, Unnamed, two(j), count(j), no)
  BY DEF PairsFrom, Pair
<1>3. no \in BOOLEAN
  OBVIOUS
<1> HIDE DEF slices, two, count, no
<1>4. ASSUME NEW j \in 1..n
      PROVE  /\ slices[j] \in SliceType
             /\ slices[j].Sort = Unnamed /\ slices[j].Filter = Unnamed /\ slices[j].Tags = two(j)
  BY <1>1, <1>2, <1>3, SliceIs, NamesAre
<1>5. slices \in Seq(SliceType) /\ Len(slices) = n
  <2>1. slices \in [1..n -> SliceType]
    BY <1>2, <1>4
  <2> QED
    BY <1>0, <2>1, FunctionIsSeq
<1>6. Apart(slices)
  <2>1. ASSUME NEW j \in 1..n, NEW k \in 1..n, j # k
        PROVE  Key(slices[j]) # Key(slices[k])
    <3>1. i + j < i + k \/ i + k < i + j
      BY <1>0, <2>1
    <3>2. big[i + j].slug # big[i + k].slug
      <4>1. i + j \in 1..Len(big) /\ i + k \in 1..Len(big)
        BY <1>1
      <4>2. \A a, b \in 1..Len(big) : a < b => big[a].slug < big[b].slug /\ big[a].slug # big[b].slug
        BY <1>0 DEF InSlugOrder
      <4> DEFINE a == i + j
                 b == i + k
      <4> HIDE DEF a, b
      <4> QED
        BY <3>1, <4>1, <4>2 DEF a, b
    <3>3. two(j) # two(k)
      BY <3>2, ShortTags DEF two
    <3> QED
      BY <3>3, <1>4, SameKey
  <2> QED
    BY <2>1, <1>5 DEF Apart
<1>7. ASSUME NEW s, Contains(slices, s)
      PROVE  WellNamed(s) /\ \E j \in 1..Len(big) : s.Tags = <<big[i].slug, big[j].slug>>
  <2>1. PICK j \in 1..n : slices[j] = s
    BY <1>5, <1>7 DEF Contains
  <2>2. /\ s.Tags = <<big[i].slug, big[i + j].slug>> /\ i + j \in 1..Len(big)
        /\ big[i].slug \in Nat /\ big[i + j].slug \in Nat /\ big[i].slug < big[i + j].slug
    BY <2>1, <1>0, <1>1, <1>4 DEF two
  <2>3. s \in SliceType /\ s.Sort = Unnamed /\ s.Filter = Unnamed
    BY <2>1, <1>4
  <2>4. WellNamed(s)
    BY <2>2, <2>3 DEF WellNamed
  <2> QED
    BY <2>2, <2>4
<1> QED
  BY <1>5, <1>6, <1>7 DEF slices

\* Every two large tags, once.
AllPairs(big) == FlattenSeq([i \in DOMAIN big |-> PairsFrom(big, i)])

\* Two pairs differ in one of their tags.
LEMMA AllPairsAre ==
    ASSUME PlannerConstants, NEW big, InSlugOrder(big)
    PROVE  /\ AllPairs(big) \in Seq(SliceType) /\ Apart(AllPairs(big))
           /\ \A s : Contains(AllPairs(big), s) => WellNamed(s) /\ \E a, b : s.Tags = <<a, b>>
<1> DEFINE n == Len(big)
           parts == [i \in 1..n |-> PairsFrom(big, i)]
<1>0. n \in Nat /\ DOMAIN big = 1..n /\ \A i \in 1..n : big[i] \in Tag
  BY LenProperties, ElementOfSeq DEF InSlugOrder
<1>1. AllPairs(big) = FlattenSeq(parts)
  BY <1>0 DEF AllPairs
<1>2. ASSUME NEW i \in 1..n
      PROVE  /\ parts[i] \in Seq(SliceType) /\ Apart(parts[i])
             /\ \A s : Contains(parts[i], s) =>
                   WellNamed(s) /\ \E j \in 1..n : s.Tags = <<big[i].slug, big[j].slug>>
  <2>1. parts[i] = PairsFrom(big, i)
    OBVIOUS
  <2> HIDE DEF parts
  <2> QED
    BY <2>1, <1>0, PairsAre
<1>3. parts \in [1..n -> Seq(SliceType)]
  BY <1>2
<1> HIDE DEF parts
<1>4. parts \in Seq(Seq(SliceType)) /\ Len(parts) = n
  BY <1>0, <1>3, FunctionIsSeq
<1>5. ASSUME NEW i \in 1..n, NEW j \in 1..n, i < j
      PROVE  Disjoint(parts[i], parts[j])
  <2>1. SUFFICES ASSUME NEW x, NEW y, Contains(parts[i], x), Contains(parts[j], y)
                 PROVE  Key(x) # Key(y)
    BY DEF Disjoint
  <2>2. big[i].slug < big[j].slug /\ big[i].slug \in Nat /\ big[j].slug \in Nat
    BY <1>0, <1>5 DEF InSlugOrder, Tag
  <2>3. big[i].slug # big[j].slug
    BY <2>2
  <2>4. (\E a \in 1..n : x.Tags = <<big[i].slug, big[a].slug>>)
        /\ (\E b \in 1..n : y.Tags = <<big[j].slug, big[b].slug>>)
    BY <2>1, <1>2
  <2>5. x.Tags # y.Tags
    BY <2>3, <2>4, ShortTags
  <2> QED
    BY <2>5, SameKey
<1>6. /\ FlattenSeq(parts) \in Seq(SliceType) /\ Apart(FlattenSeq(parts))
      /\ \A s : Contains(FlattenSeq(parts), s) <=> \E i \in 1..n : Contains(parts[i], s)
  BY <1>2, <1>4, <1>5, FlattenIs
<1> QED
  BY <1>1, <1>2, <1>6

\* All views but the two that lead: each once, the small tags and the filtered
\* large ones in full among them.
LEMMA ViewsAre ==
    ASSUME PlannerConstants, NEW small, InSlugOrder(small), NEW big, InSlugOrder(big),
           \A i \in 1..Len(small), j \in 1..Len(big) : small[i].slug # big[j].slug,
           NEW ceiling \in Nat
    PROVE  /\ Views(small, big, ceiling) \in Seq(SliceType) /\ Apart(Views(small, big, ceiling))
           /\ \A s : Contains(Views(small, big, ceiling), s) =>
                 WellNamed(s) /\ (s.Tags # <<>> \/ s.Filter # Unnamed)
           /\ \A i \in 1..Len(small) : InFull(Views(small, big, ceiling), small[i], Unnamed)
           /\ \A i \in 1..Len(big) : \A f \in ToSet(allFilters) : InFull(Views(small, big, ceiling), big[i], f)
<1> DEFINE U == Untagged(ceiling)
           W == Whole(small)
           A == AllWindows(big)
           P == AllPairs(big)
           V == Views(small, big, ceiling)
<1>1. V = ((U \o W) \o A) \o P
  BY DEF Views, AllWindows, AllPairs
<1>2. /\ U \in Seq(SliceType) /\ Apart(U)
      /\ \A s : Contains(U, s) => WellNamed(s) /\ s.Filter # Unnamed /\ s.Tags = <<>>
  BY UntaggedIs
<1>3. /\ W \in Seq(SliceType) /\ Apart(W)
      /\ \A i \in 1..Len(small) : InFull(W, small[i], Unnamed)
      /\ \A s : Contains(W, s) => WellNamed(s) /\ \E i \in 1..Len(small) : s.Tags = <<small[i].slug>>
  BY WholeIs
<1>4. /\ A \in Seq(SliceType) /\ Apart(A)
      /\ \A i \in 1..Len(big) : \A s : Contains(Windows(big[i]), s) => Contains(A, s)
      /\ \A s : Contains(A, s) => WellNamed(s) /\ \E i \in 1..Len(big) : s.Tags = <<big[i].slug>>
  BY AllWindowsAre
<1>5. /\ P \in Seq(SliceType) /\ Apart(P)
      /\ \A s : Contains(P, s) => WellNamed(s) /\ \E a, b : s.Tags = <<a, b>>
  BY AllPairsAre
<1>6. ASSUME NEW i \in 1..Len(big), NEW f \in ToSet(allFilters)
      PROVE  InFull(A, big[i], f)
  <2>1. big[i] \in Tag
    BY ElementOfSeq DEF InSlugOrder
  <2>2. InFull(Windows(big[i]), big[i], f)
    BY <2>1, WindowsAre
  <2> HIDE DEF A
  <2> QED
    BY <2>2, <1>4 DEF InFull
<1> HIDE DEF U, W, A, P, V
<1>7. Disjoint(U, W)
  <2>1. SUFFICES ASSUME NEW x, NEW y, Contains(U, x), Contains(W, y) PROVE Key(x) # Key(y)
    BY DEF Disjoint
  <2>2. PICK i \in 1..Len(small) : y.Tags = <<small[i].slug>>
    BY <2>1, <1>3
  <2>3. x.Tags = <<>> /\ <<>> # <<small[i].slug>>
    BY <2>1, <1>2, ShortTags
  <2> QED
    BY <2>2, <2>3, SameKey
<1>8. /\ U \o W \in Seq(SliceType) /\ Apart(U \o W)
      /\ \A s : Contains(U \o W, s) <=> Contains(U, s) \/ Contains(W, s)
  BY <1>2, <1>3, <1>7, ConcatIs
<1>9. Disjoint(U \o W, A)
  <2>1. SUFFICES ASSUME NEW x, NEW y, Contains(U \o W, x), Contains(A, y) PROVE Key(x) # Key(y)
    BY DEF Disjoint
  <2>2. PICK j \in 1..Len(big) : y.Tags = <<big[j].slug>>
    BY <2>1, <1>4
  <2>3. CASE Contains(U, x)
    <3>1. x.Tags # y.Tags
      BY <2>2, <2>3, <1>2, ShortTags
    <3> QED
      BY <3>1, SameKey
  <2>4. CASE Contains(W, x)
    <3>1. PICK i \in 1..Len(small) : x.Tags = <<small[i].slug>>
      BY <2>4, <1>3
    <3>2. <<small[i].slug>> # <<big[j].slug>>
      BY ShortTags
    <3> QED
      BY <2>2, <3>1, <3>2, SameKey
  <2> QED
    BY <2>1, <2>3, <2>4, <1>8
<1>10. /\ (U \o W) \o A \in Seq(SliceType) /\ Apart((U \o W) \o A)
       /\ \A s : Contains((U \o W) \o A, s) <=> Contains(U, s) \/ Contains(W, s) \/ Contains(A, s)
  <2> DEFINE UW == U \o W
  <2> HIDE DEF UW
  <2>1. UW \in Seq(SliceType) /\ Apart(UW) /\ Disjoint(UW, A)
    BY <1>8, <1>9 DEF UW
  <2>2. /\ UW \o A \in Seq(SliceType) /\ Apart(UW \o A)
        /\ \A s : Contains(UW \o A, s) <=> Contains(UW, s) \/ Contains(A, s)
    BY <2>1, <1>4, ConcatIs
  <2> QED
    BY <2>2, <1>8 DEF UW
<1> DEFINE UWA == (U \o W) \o A
<1>11. /\ UWA \in Seq(SliceType) /\ Apart(UWA) /\ V = UWA \o P
       /\ \A s : Contains(UWA, s) <=> Contains(U, s) \/ Contains(W, s) \/ Contains(A, s)
  BY <1>1, <1>10
<1> HIDE DEF UWA
<1>12. Disjoint(UWA, P)
  <2>1. SUFFICES ASSUME NEW x, NEW y, Contains(UWA, x), Contains(P, y) PROVE Key(x) # Key(y)
    BY DEF Disjoint
  <2>2. \E a, b : y.Tags = <<a, b>>
    BY <2>1, <1>5
  <2>3. x.Tags = <<>> \/ \E a : x.Tags = <<a>>
    BY <2>1, <1>11, <1>2, <1>3, <1>4
  <2>4. x.Tags # y.Tags
    BY <2>2, <2>3, ShortTags
  <2> QED
    BY <2>4, SameKey
<1>13. /\ V \in Seq(SliceType) /\ Apart(V)
       /\ \A s : Contains(V, s) <=> Contains(UWA, s) \/ Contains(P, s)
  BY <1>5, <1>11, <1>12, ConcatIs
<1>14. \A s : Contains(V, s) <=> \/ Contains(U, s) \/ Contains(W, s)
                                 \/ Contains(A, s) \/ Contains(P, s)
  BY <1>11, <1>13
<1>15. ASSUME NEW s, Contains(V, s)
       PROVE  WellNamed(s) /\ (s.Tags # <<>> \/ s.Filter # Unnamed)
  <2>1. CASE Contains(U, s)
    BY <2>1, <1>2
  <2>2. CASE Contains(W, s)
    <3>1. PICK i \in 1..Len(small) : s.Tags = <<small[i].slug>>
      BY <2>2, <1>3
    <3>2. <<>> # <<small[i].slug>>
      BY ShortTags
    <3> QED
      BY <2>2, <3>1, <3>2, <1>3
  <2>3. CASE Contains(A, s)
    <3>1. PICK i \in 1..Len(big) : s.Tags = <<big[i].slug>>
      BY <2>3, <1>4
    <3>2. <<>> # <<big[i].slug>>
      BY ShortTags
    <3> QED
      BY <2>3, <3>1, <3>2, <1>4
  <2>4. CASE Contains(P, s)
    <3>1. PICK a, b : s.Tags = <<a, b>>
      BY <2>4, <1>5
    <3>2. <<>> # <<a, b>>
      BY ShortTags
    <3> QED
      BY <2>4, <3>1, <3>2, <1>5
  <2> QED
    BY <1>14, <1>15, <2>1, <2>2, <2>3, <2>4
<1>16. /\ V \in Seq(SliceType) /\ Apart(V)
       /\ \A i \in 1..Len(small) : InFull(V, small[i], Unnamed)
       /\ \A i \in 1..Len(big) : \A f \in ToSet(allFilters) : InFull(V, big[i], f)
  BY <1>3, <1>6, <1>13, <1>14 DEF InFull
<1> QED
  BY <1>15, <1>16 DEF V
-----------------------------------------------------------------------------
(* The key under which a finished slice is kept.                           *)

\* The name of a slice that has at most one.
NameOf(s) == IF s.Sort # Unnamed THEN s.Sort ELSE s.Filter

\* The label is that name's segment, if there is one, then the tags' (Path).
LEMMA LabelIs ==
    ASSUME PlannerConstants, NEW s, WellNamed(s)
    PROVE  /\ NameOf(s) = Unnamed =>
                 /\ Len(Label(s)) = Len(s.Tags)
                 /\ \A i \in 1..Len(s.Tags) : Label(s)[i] = <<"tag-", s.Tags[i]>>
           /\ NameOf(s) # Unnamed =>
                 /\ Len(Label(s)) = Len(s.Tags) + 1
                 /\ Label(s)[1] = <<"name", NameOf(s)>>
                 /\ \A i \in 1..Len(s.Tags) : Label(s)[i + 1] = <<"tag-", s.Tags[i]>>
<1> DEFINE Names == ToSet(allSorts) \cup ToSet(allFilters) \cup {Unnamed}
           S == {<<"name", x>> : x \in Names} \cup {<<"tag-", t>> : t \in Nat}
           tags == [i \in 1..Len(s.Tags) |-> <<"tag-", s.Tags[i]>>]
<1>1. /\ s.Sort \in Names /\ s.Filter \in Names /\ (s.Sort = Unnamed \/ s.Filter = Unnamed)
      /\ s.Tags \in Seq(Nat)
  BY DEF WellNamed, SliceType
<1>2. Len(s.Tags) \in Nat /\ DOMAIN s.Tags = 1..Len(s.Tags) /\ \A i \in 1..Len(s.Tags) : s.Tags[i] \in Nat
  BY <1>1, LenProperties, ElementOfSeq
<1>3. tags \in Seq(S) /\ Len(tags) = Len(s.Tags)
  <2>1. tags \in [1..Len(s.Tags) -> S]
    BY <1>2
  <2> HIDE DEF tags, S
  <2> QED
    BY <1>2, <2>1, FunctionIsSeq
<1>4. \A i \in 1..Len(s.Tags) : tags[i] = <<"tag-", s.Tags[i]>>
  OBVIOUS
<1>5. ASSUME NEW x \in Names
      PROVE  /\ Segment(x) \in Seq(S)
             /\ x = Unnamed => Segment(x) = <<>>
             /\ x # Unnamed => Len(Segment(x)) = 1 /\ Segment(x)[1] = <<"name", x>>
  <2>1. CASE x = Unnamed
    <3>1. Segment(x) = <<>>
      BY <2>1 DEF Segment
    <3> HIDE DEF S
    <3> QED
      BY <2>1, <3>1, EmptySeq
  <2>2. CASE x # Unnamed
    <3> DEFINE e == <<"name", x>>
    <3>1. Segment(x) = <<e>> /\ e \in S
      BY <2>2 DEF Segment
    <3> HIDE DEF S, e
    <3>2. <<e>> \in Seq(S) /\ Len(<<e>>) = 1 /\ <<e>>[1] = e
      BY <3>1
    <3> QED
      BY <2>2, <3>1, <3>2 DEF e
  <2> QED
    BY <2>1, <2>2
<1>6. Label(s) = (Segment(s.Sort) \o Segment(s.Filter)) \o tags
  BY <1>2 DEF Label
<1> HIDE DEF tags, S, Names
<1>7. Segment(s.Sort) \o Segment(s.Filter) = Segment(NameOf(s)) /\ NameOf(s) \in Names
  <2>1. CASE s.Sort = Unnamed
    BY <2>1, <1>1, <1>5, ConcatEmptySeq DEF NameOf
  <2>2. CASE s.Sort # Unnamed
    <3>1. s.Filter = Unnamed /\ NameOf(s) = s.Sort
      BY <2>2, <1>1 DEF NameOf
    <3> QED
      BY <3>1, <1>1, <1>5, ConcatEmptySeq
  <2> QED
    BY <2>1, <2>2
<1>8. Label(s) = Segment(NameOf(s)) \o tags
  BY <1>6, <1>7
<1>9. CASE NameOf(s) = Unnamed
  <2>1. Label(s) = tags
    BY <1>3, <1>5, <1>7, <1>8, <1>9, ConcatEmptySeq
  <2> QED
    BY <2>1, <1>3, <1>4, <1>9
<1>10. CASE NameOf(s) # Unnamed
  <2> DEFINE first == Segment(NameOf(s))
  <2>1. first \in Seq(S) /\ Len(first) = 1 /\ first[1] = <<"name", NameOf(s)>>
    BY <1>5, <1>7, <1>10
  <2> HIDE DEF first
  <2>2. /\ Len(first \o tags) = 1 + Len(s.Tags)
        /\ \A i \in 1..1 + Len(s.Tags) : (first \o tags)[i] = IF i <= 1 THEN first[i] ELSE tags[i - 1]
    <3>1. /\ Len(first \o tags) = Len(first) + Len(tags)
          /\ \A i \in 1..Len(first) + Len(tags) :
                (first \o tags)[i] = IF i <= Len(first) THEN first[i] ELSE tags[i - Len(first)]
      BY <2>1, <1>3, ConcatProperties
    <3>2. Len(first) = 1 /\ Len(tags) = Len(s.Tags)
      BY <2>1, <1>3
    <3> QED
      BY ONLY <3>1, <3>2
  <2>3. (first \o tags)[1] = first[1]
    BY <2>2, <1>2
  <2>4. ASSUME NEW i \in 1..Len(s.Tags)
        PROVE  (first \o tags)[i + 1] = tags[i]
    <3>1. i + 1 \in 1..1 + Len(s.Tags) /\ ~(i + 1 <= 1) /\ i + 1 - 1 = i
      BY <1>2
    <3> QED
      BY <2>2, <3>1
  <2>5. Label(s) = first \o tags
    BY <1>8 DEF first
  <2> DEFINE out == first \o tags
  <2>6. /\ Len(out) = Len(s.Tags) + 1 /\ out[1] = <<"name", NameOf(s)>>
        /\ \A i \in 1..Len(s.Tags) : out[i + 1] = <<"tag-", s.Tags[i]>>
    <3>1. Len(out) = Len(s.Tags) + 1
      BY ONLY <2>2, <1>2
    <3>2. out[1] = <<"name", NameOf(s)>>
      BY ONLY <2>1, <2>3
    <3>3. \A i \in 1..Len(s.Tags) : out[i + 1] = <<"tag-", s.Tags[i]>>
      BY ONLY <2>4, <1>4
    <3> QED
      BY ONLY <3>1, <3>2, <3>3
  <2> HIDE DEF out
  <2>7. Label(s) = out
    BY <2>5 DEF out
  <2> QED
    BY <2>6, <2>7, <1>10
<1> QED
  BY <1>9, <1>10

\* So the label gives the view away.
LEMMA LabelTells ==
    ASSUME PlannerConstants, NEW s, NEW t, WellNamed(s), WellNamed(t), Label(s) = Label(t)
    PROVE  Key(s) = Key(t)
<1> DEFINE m == Len(s.Tags)
           n == Len(t.Tags)
<1>1. /\ s.Tags \in Seq(Nat) /\ t.Tags \in Seq(Nat) /\ m \in Nat /\ n \in Nat
  BY LenProperties DEF WellNamed, SliceType
<1>2. /\ s.Sort \in ToSet(allSorts) /\ s.Filter \in ToSet(allFilters) \cup {Unnamed}
      /\ t.Sort \in ToSet(allSorts) /\ t.Filter \in ToSet(allFilters) \cup {Unnamed}
      /\ s.Sort = Unnamed \/ s.Filter = Unnamed
      /\ t.Sort = Unnamed \/ t.Filter = Unnamed
  BY DEF WellNamed, SliceType
<1>3. \A a, b : <<"name", a>> # <<"tag-", b>>
  OBVIOUS
<1>4. \A a, b : <<"name", a>> = <<"name", b>> => a = b
  OBVIOUS
<1>5. \A a, b : <<"tag-", a>> = <<"tag-", b>> => a = b
  OBVIOUS
<1>6. NameOf(s) = NameOf(t)
  <2>1. CASE NameOf(s) = Unnamed /\ NameOf(t) # Unnamed
    <3>1. m = n + 1 /\ 1 \in 1..m
      BY <2>1, <1>1, LabelIs
    <3>2. Label(s)[1] = <<"tag-", s.Tags[1]>>
      BY <2>1, <3>1, LabelIs
    <3>3. Label(t)[1] = <<"name", NameOf(t)>>
      BY <2>1, LabelIs
    <3> QED
      BY <3>2, <3>3, <1>3
  <2>2. CASE NameOf(t) = Unnamed /\ NameOf(s) # Unnamed
    <3>1. n = m + 1 /\ 1 \in 1..n
      BY <2>2, <1>1, LabelIs
    <3>2. Label(t)[1] = <<"tag-", t.Tags[1]>>
      BY <2>2, <3>1, LabelIs
    <3>3. Label(s)[1] = <<"name", NameOf(s)>>
      BY <2>2, LabelIs
    <3> QED
      BY <3>2, <3>3, <1>3
  <2>3. CASE NameOf(s) # Unnamed /\ NameOf(t) # Unnamed
    <3>1. Label(s)[1] = <<"name", NameOf(s)>> /\ Label(t)[1] = <<"name", NameOf(t)>>
      BY <2>3, LabelIs
    <3> QED
      BY <3>1, <1>4
  <2> QED
    BY <2>1, <2>2, <2>3
<1>7. s.Sort = t.Sort /\ s.Filter = t.Filter
  BY <1>2, <1>6, NamesAre DEF NameOf
<1>8. m = n
  BY <1>1, <1>6, LabelIs
<1>9. \A i \in 1..m : s.Tags[i] = t.Tags[i]
  <2>1. CASE NameOf(s) = Unnamed
    BY <2>1, <1>5, <1>6, <1>8, LabelIs
  <2>2. CASE NameOf(s) # Unnamed
    <3>1. ASSUME NEW i \in 1..m
          PROVE  s.Tags[i] = t.Tags[i]
      <4>1. Label(s)[i + 1] = <<"tag-", s.Tags[i]>>
        BY <2>2, LabelIs
      <4>2. Label(t)[i + 1] = <<"tag-", t.Tags[i]>>
        BY <2>2, <1>6, <1>8, LabelIs
      <4> QED
        BY <4>1, <4>2, <1>5
    <3> QED
      BY <3>1
  <2> QED
    BY <2>1, <2>2
<1>10. s.Tags = t.Tags
  BY <1>1, <1>8, <1>9, SeqEqual
<1> QED
  BY <1>7, <1>10, SameKey
-----------------------------------------------------------------------------
(* The plan.                                                               *)

\* What the walk and the counts of the facet pages give PlanSlices.
IsTags(tags) ==
    /\ tags \subseteq Tag /\ IsFiniteSet(tags)
    /\ \A t, u \in tags : t.slug = u.slug => t = u

\* The views of a plan but the two that lead, and their order.
ViewsOf(tags, ceiling) == Views(BySlug(Small(tags, ceiling)), BySlug(Big(tags, ceiling)), ceiling)

\* Some of the tags, sorted.
LEMMA NamedInSlugOrder ==
    ASSUME NEW tags, IsTags(tags), NEW some, some \subseteq tags, \A t \in some : t.slug # 0
    PROVE  /\ InSlugOrder(BySlug(some))
           /\ \A t \in some : \E i \in 1..Len(BySlug(some)) : BySlug(some)[i] = t
           /\ \A i \in 1..Len(BySlug(some)) : BySlug(some)[i] \in some
<1>1. /\ some \subseteq Tag /\ IsFiniteSet(some)
      /\ \A t, u \in some : t.slug = u.slug => t = u
  BY FS_Subset DEF IsTags
<1>2. /\ BySlug(some) \in Seq(some)
      /\ \A t \in some : \E i \in 1..Len(BySlug(some)) : BySlug(some)[i] = t
      /\ \A i, j \in 1..Len(BySlug(some)) : i < j => BySlug(some)[i].slug < BySlug(some)[j].slug
  BY <1>1, BySlugIs
<1>3. \A i \in 1..Len(BySlug(some)) : BySlug(some)[i] \in some
  BY <1>2, ElementOfSeq
<1>4. \A t \in some : t.slug > 0
  BY <1>1 DEF Tag
<1>5. BySlug(some) \in Seq(Tag)
  BY <1>1, <1>2, SeqMonotonic
<1> QED
  BY <1>2, <1>3, <1>4, <1>5 DEF InSlugOrder

\* The views of a tag universe: each once, and every tag in full, a large one
\* through the filters.
LEMMA ViewsOfAre ==
    ASSUME PlannerConstants, NEW tags, IsTags(tags), NEW ceiling \in Nat
    PROVE  /\ ViewsOf(tags, ceiling) \in Seq(SliceType) /\ Apart(ViewsOf(tags, ceiling))
           /\ \A s : Contains(ViewsOf(tags, ceiling), s) =>
                 WellNamed(s) /\ (s.Tags # <<>> \/ s.Filter # Unnamed)
           /\ \A t \in tags :
                 t.slug # 0 /\ t.count <= ceiling => InFull(ViewsOf(tags, ceiling), t, Unnamed)
           /\ \A t \in tags : \A f \in ToSet(allFilters) :
                 t.slug # 0 /\ t.count > ceiling => InFull(ViewsOf(tags, ceiling), t, f)
<1> DEFINE few == Small(tags, ceiling)
           many == Big(tags, ceiling)
           small == BySlug(few)
           big == BySlug(many)
           V == Views(small, big, ceiling)
<1>1. /\ few \subseteq tags /\ many \subseteq tags
      /\ \A t \in few : t.slug # 0 /\ t.count <= ceiling
      /\ \A t \in many : t.slug # 0 /\ t.count > ceiling
      /\ \A t \in tags : t.slug # 0 /\ t.count <= ceiling => t \in few
      /\ \A t \in tags : t.slug # 0 /\ t.count > ceiling => t \in many
      /\ ViewsOf(tags, ceiling) = V
  BY DEF Small, Big, ViewsOf
<1> HIDE DEF few, many
<1>2. /\ InSlugOrder(small)
      /\ \A t \in few : \E i \in 1..Len(small) : small[i] = t
      /\ \A i \in 1..Len(small) : small[i] \in few
  BY <1>1, NamedInSlugOrder
<1>3. /\ InSlugOrder(big)
      /\ \A t \in many : \E i \in 1..Len(big) : big[i] = t
      /\ \A i \in 1..Len(big) : big[i] \in many
  BY <1>1, NamedInSlugOrder
<1> HIDE DEF small, big
<1>4. ASSUME NEW i \in 1..Len(small), NEW j \in 1..Len(big)
      PROVE  small[i].slug # big[j].slug
  <2>1. /\ small[i] \in few /\ big[j] \in many /\ small[i] \in tags /\ big[j] \in tags
    BY <1>1, <1>2, <1>3
  <2>2. small[i].count <= ceiling /\ big[j].count > ceiling
    BY <1>1, <2>1
  <2>3. small[i].count \in Nat /\ big[j].count \in Nat
    BY <2>1 DEF IsTags, Tag
  <2>4. small[i].count # big[j].count
    BY <2>2, <2>3
  <2> QED
    BY <2>1, <2>4 DEF IsTags
<1>5. /\ V \in Seq(SliceType) /\ Apart(V)
      /\ \A s : Contains(V, s) => WellNamed(s) /\ (s.Tags # <<>> \/ s.Filter # Unnamed)
      /\ \A i \in 1..Len(small) : InFull(V, small[i], Unnamed)
      /\ \A i \in 1..Len(big) : \A f \in ToSet(allFilters) : InFull(V, big[i], f)
  <2>1. \A i \in 1..Len(small), j \in 1..Len(big) : small[i].slug # big[j].slug
    BY <1>4
  <2>2. InSlugOrder(small) /\ InSlugOrder(big)
    BY <1>2, <1>3
  <2> QED
    BY <2>1, <2>2, ViewsAre
<1> HIDE DEF V
<1>6. ASSUME NEW t \in tags, t.slug # 0, t.count <= ceiling
      PROVE  InFull(V, t, Unnamed)
  <2>1. PICK i \in 1..Len(small) : small[i] = t
    BY <1>1, <1>2, <1>6
  <2> QED
    BY <2>1, <1>5
<1>7. ASSUME NEW t \in tags, NEW f \in ToSet(allFilters), t.slug # 0, t.count > ceiling
      PROVE  InFull(V, t, f)
  <2>1. PICK i \in 1..Len(big) : big[i] = t
    BY <1>1, <1>3, <1>7
  <2> QED
    BY <2>1, <1>5
<1> QED
  BY <1>1, <1>5, <1>6, <1>7

\* The two views that lead.
Root(ceiling) == Slice(Unnamed, Unnamed, <<>>, ceiling, FALSE)
Newest(ceiling) == Slice("newest", Unnamed, <<>>, ceiling, TRUE)

\* Both are of the whole catalog and paged to the cap.
LEMMA LeadIs ==
    ASSUME PlannerConstants, NEW ceiling \in Nat
    PROVE  /\ Root(ceiling).Sort = Unnamed /\ Newest(ceiling).Sort = "newest"
           /\ \A s \in {Root(ceiling), Newest(ceiling)} :
                 WellNamed(s) /\ s.Filter = Unnamed /\ s.Tags = <<>> /\ s.Count = ceiling
<1> DEFINE yes == TRUE
           no == FALSE
           none == <<>>
           root == Root(ceiling)
           newest == Newest(ceiling)
<1>1. yes \in BOOLEAN /\ no \in BOOLEAN
  OBVIOUS
<1>2. none \in Seq(Nat)
  BY EmptySeq
<1>3. none = <<>>
  OBVIOUS
<1>4. /\ root = Slice(Unnamed, Unnamed, none, ceiling, no)
      /\ newest = Slice("newest", Unnamed, none, ceiling, yes)
  BY DEF Root, Newest
<1> HIDE DEF yes, no, none, root, newest
<1>5. /\ Unnamed \in ToSet(allSorts) /\ "newest" \in ToSet(allSorts)
      /\ Unnamed \in ToSet(allFilters) \cup {Unnamed}
  BY NamesAre
<1>6. /\ root \in SliceType /\ root.Sort = Unnamed
      /\ root.Filter = Unnamed /\ root.Tags = none /\ root.Count = ceiling
  BY <1>1, <1>2, <1>4, <1>5 DEF Slice, SliceType
<1>7. /\ newest \in SliceType /\ newest.Sort = "newest"
      /\ newest.Filter = Unnamed /\ newest.Tags = none /\ newest.Count = ceiling
  BY <1>1, <1>2, <1>4, <1>5 DEF Slice, SliceType
<1>8. WellNamed(root) /\ WellNamed(newest)
  BY <1>3, <1>6, <1>7 DEF WellNamed
<1> QED
  BY <1>3, <1>6, <1>7, <1>8 DEF root, newest

\* The plan: the two that lead, then each of the others once, by falling count.
LEMMA PlanIs ==
    ASSUME PlannerConstants, NEW tags, IsTags(tags), NEW itemsPerPage \in Nat \ {0}
    PROVE  \E rest \in Seq(SliceType) :
              /\ PlanSlices(tags, itemsPerPage) =
                    <<Root(MaxPagesPerView * itemsPerPage), Newest(MaxPagesPerView * itemsPerPage)>> \o rest
              /\ Apart(rest)
              /\ \A s : Contains(rest, s) <=>
                    Contains(ViewsOf(tags, MaxPagesPerView * itemsPerPage), s)
              /\ \A k, l \in 1..Len(rest) : k < l => rest[k].Count >= rest[l].Count
<1> DEFINE ceiling == MaxPagesPerView * itemsPerPage
           V == ViewsOf(tags, ceiling)
           n == Len(V)
           rest == LargestFirst(V)
<1>1. ceiling \in Nat
  BY DEF PlannerConstants
<1>2. PlanSlices(tags, itemsPerPage) = <<Root(ceiling), Newest(ceiling)>> \o rest
  BY DEF PlanSlices, ViewsOf, Root, Newest
<1>3. V \in Seq(SliceType) /\ Apart(V)
  <2> HIDE DEF ceiling
  <2> QED
    BY <1>1, ViewsOfAre
<1> HIDE DEF V
<1>4. PICK place \in [1..n -> 1..n] :
         /\ rest = [k \in 1..n |-> V[place[k]]]
         /\ \A i \in 1..n : \E k \in 1..n : place[k] = i
         /\ \A k, l \in 1..n : k < l =>
               place[k] # place[l] /\ V[place[k]].Count >= V[place[l]].Count
  BY <1>3, LargestFirstIs
<1> HIDE DEF rest
<1>5. n \in Nat /\ \A i \in 1..n : V[i] \in SliceType
  BY <1>3, LenProperties, ElementOfSeq
<1>6. rest \in Seq(SliceType) /\ Len(rest) = n
  <2>1. rest \in [1..n -> SliceType]
    BY <1>4, <1>5
  <2> QED
    BY <1>5, <2>1, FunctionIsSeq
<1>7. \A k \in 1..n : place[k] \in 1..n /\ rest[k] = V[place[k]]
  BY <1>4
<1>8. Apart(rest)
  <2>1. SUFFICES ASSUME NEW k \in 1..n, NEW l \in 1..n, k # l
                 PROVE  Key(rest[k]) # Key(rest[l])
    BY <1>6 DEF Apart
  <2>2. k < l \/ l < k
    BY <2>1, <1>5
  <2>3. place[k] # place[l]
    BY <2>2, <1>4
  <2> QED
    BY <2>3, <1>3, <1>7 DEF Apart
<1>9. ASSUME NEW s
      PROVE  Contains(rest, s) <=> Contains(V, s)
  <2>1. Contains(rest, s) <=> \E k \in 1..n : rest[k] = s
    BY <1>6 DEF Contains
  <2>2. Contains(V, s) <=> \E k \in 1..n : V[k] = s
    BY DEF Contains
  <2>3. ASSUME NEW i \in 1..n
        PROVE  \E k \in 1..n : rest[k] = V[i]
    <3>1. PICK k \in 1..n : place[k] = i
      BY <1>4
    <3> QED
      BY ONLY <1>7, <3>1
  <2>4. ASSUME NEW k \in 1..n, rest[k] = s
        PROVE  \E i \in 1..n : V[i] = s
    BY ONLY <2>4, <1>7
  <2>5. ASSUME NEW i \in 1..n, V[i] = s
        PROVE  \E k \in 1..n : rest[k] = s
    BY ONLY <2>3, <2>5
  <2> QED
    BY ONLY <2>1, <2>2, <2>4, <2>5
<1>10. \A k, l \in 1..n : k < l => rest[k].Count >= rest[l].Count
  BY <1>4, <1>7
<1> QED
  BY <1>2, <1>6, <1>8, <1>9, <1>10 DEF V

\* A slice so named satisfies itch.io's grammar.
LEMMA NamedIsValid ==
    ASSUME PlannerConstants, NEW s, WellNamed(s)
    PROVE  Valid(s)
<1>1. /\ s.Sort \in ToSet(allSorts) /\ s.Filter \in ToSet(allFilters) \cup {Unnamed}
      /\ s.Sort = Unnamed \/ s.Filter = Unnamed
  BY DEF WellNamed, SliceType
<1>2. Contains(allSorts, s.Sort) /\ (s.Filter # Unnamed => Contains(allFilters, s.Filter))
  BY <1>1, NamesAre DEF Contains, ToSet
<1>3. CASE s.Tags = <<>>
  <2>1. Len(s.Tags) = 0
    BY <1>3, ShortTags
  <2> QED
    BY <2>1, <1>1, <1>2 DEF Valid
<1>4. CASE \E t \in Nat : s.Tags = <<t>>
  <2>1. Len(s.Tags) = 1
    BY <1>4, ShortTags
  <2> QED
    BY <2>1, <1>1, <1>2 DEF Valid
<1>5. CASE \E t, u \in Nat : t < u /\ s.Tags = <<t, u>> /\ s.Sort = Unnamed /\ s.Filter = Unnamed
  <2>1. Len(s.Tags) = 2 /\ s.Tags[1] < s.Tags[2] /\ s.Sort = Unnamed /\ s.Filter = Unnamed
    BY <1>5
  <2> QED
    BY <2>1, <1>2 DEF Valid
<1> QED
  BY <1>3, <1>4, <1>5 DEF WellNamed

\* What the plan's slices are, place by place.
IsPlan(plan, ceiling) ==
    /\ plan \in Seq(SliceType) /\ Len(plan) >= 2 /\ Apart(plan)
    /\ \A i \in 1..2 : plan[i].Filter = Unnamed /\ plan[i].Tags = <<>> /\ plan[i].Count = ceiling
    /\ plan[1].Sort = Unnamed /\ plan[2].Sort = "newest"
    /\ \A i \in 3..Len(plan) : plan[i].Tags # <<>> \/ plan[i].Filter # Unnamed
    /\ \A i \in 1..Len(plan) : WellNamed(plan[i])
    /\ \A i \in 4..Len(plan) : plan[i].Count <= plan[i - 1].Count

\* PlanSlices makes such a plan.
LEMMA PlanHas ==
    ASSUME PlannerConstants, NEW tags, IsTags(tags), NEW itemsPerPage \in Nat \ {0},
           NEW plan, plan = PlanSlices(tags, itemsPerPage),
           NEW ceiling, ceiling = MaxPagesPerView * itemsPerPage
    PROVE  /\ IsPlan(plan, ceiling)
           /\ \A s : Contains(ViewsOf(tags, ceiling), s) => Contains(plan, s)
<1>1. PICK rest \in Seq(SliceType) :
         /\ plan = <<Root(ceiling), Newest(ceiling)>> \o rest
         /\ Apart(rest)
         /\ \A s : Contains(rest, s) <=> Contains(ViewsOf(tags, ceiling), s)
         /\ \A k, l \in 1..Len(rest) : k < l => rest[k].Count >= rest[l].Count
  BY PlanIs
<1> DEFINE n == Len(rest)
           root == Root(ceiling)
           newest == Newest(ceiling)
           lead == <<root, newest>>
<1>2. ceiling \in Nat /\ n \in Nat
  BY LenProperties DEF PlannerConstants
<1>3. plan = lead \o rest
  BY <1>1
<1>4. /\ root.Sort = Unnamed /\ newest.Sort = "newest"
      /\ \A s \in {root, newest} :
            WellNamed(s) /\ s.Filter = Unnamed /\ s.Tags = <<>> /\ s.Count = ceiling
  BY <1>2, LeadIs
<1> HIDE DEF root, newest
<1>5. root \in SliceType /\ newest \in SliceType
  BY <1>4 DEF WellNamed
<1>6. lead \in Seq(SliceType) /\ Len(lead) = 2 /\ lead[1] = root /\ lead[2] = newest
  BY <1>5
<1> HIDE DEF lead
<1>7. /\ plan \in Seq(SliceType) /\ Len(plan) = n + 2
      /\ \A i \in 1..n + 2 : plan[i] = IF i <= 2 THEN lead[i] ELSE rest[i - 2]
      /\ \A s : Contains(plan, s) <=> Contains(lead, s) \/ Contains(rest, s)
  <2>1. /\ Len(lead \o rest) = Len(lead) + Len(rest)
        /\ \A i \in 1..Len(lead) + Len(rest) :
              (lead \o rest)[i] = IF i <= Len(lead) THEN lead[i] ELSE rest[i - Len(lead)]
    BY <1>6, ConcatProperties
  <2>2. /\ lead \o rest \in Seq(SliceType)
        /\ \A s : Contains(lead \o rest, s) <=> Contains(lead, s) \/ Contains(rest, s)
    BY <1>6, ConcatIs
  <2>3. Len(lead) + Len(rest) = n + 2
    BY <1>2, <1>6
  <2> QED
    BY <2>1, <2>2, <2>3, <1>3, <1>6
<1>8. plan[1] = root /\ plan[2] = newest
  BY <1>2, <1>6, <1>7
<1>9. ASSUME NEW i \in 3..n + 2
      PROVE  i - 2 \in 1..n /\ plan[i] = rest[i - 2]
  BY <1>2, <1>7
<1>10. ASSUME NEW k \in 1..n
       PROVE  WellNamed(rest[k]) /\ (rest[k].Tags # <<>> \/ rest[k].Filter # Unnamed)
  <2>1. Contains(rest, rest[k])
    BY DEF Contains
  <2>2. Contains(ViewsOf(tags, ceiling), rest[k])
    BY <2>1, <1>1
  <2> QED
    BY <2>2, <1>2, ViewsOfAre
<1>11. WellNamed(root) /\ WellNamed(newest)
  BY <1>4
<1>12. ASSUME NEW i \in 1..n + 2
       PROVE  i = 1 \/ i = 2 \/ i \in 3..n + 2
  BY <1>2
<1>13. \A i \in 1..n + 2 : WellNamed(plan[i])
  BY <1>8, <1>9, <1>10, <1>11, <1>12
<1>14. \A i \in 3..n + 2 : plan[i].Tags # <<>> \/ plan[i].Filter # Unnamed
  BY <1>9, <1>10
<1>15. ASSUME NEW i \in 4..n + 2
       PROVE  plan[i].Count <= plan[i - 1].Count
  <2> DEFINE k == i - 3
             l == i - 2
  <2>1. k \in 1..n /\ l \in 1..n /\ k < l /\ i - 1 \in 3..n + 2 /\ i \in 3..n + 2 /\ i - 1 - 2 = k
    BY <1>2
  <2>2. plan[i] = rest[l] /\ plan[i - 1] = rest[k]
    <3>1. plan[i] = rest[l]
      BY <2>1, <1>9
    <3>2. plan[i - 1] = rest[i - 1 - 2]
      BY <2>1, <1>9
    <3> QED
      BY <3>1, <3>2, <2>1
  <2> HIDE DEF k, l
  <2>3. rest[k].Count >= rest[l].Count
    BY <2>1, <1>1
  <2>4. rest[k].Count \in Nat /\ rest[l].Count \in Nat
    BY <2>1, <1>10 DEF WellNamed, SliceType
  <2> QED
    BY <2>2, <2>3, <2>4
<1>16. Apart(plan)
  <2>1. "newest" # Unnamed
    BY Zenon DEF Unnamed
  <2>2. Key(root) # Key(newest)
    BY <2>1, <1>4, SameKey
  <2>3. ASSUME NEW i \in 3..n + 2
        PROVE  Key(plan[i]) # Key(root) /\ Key(plan[i]) # Key(newest)
    BY <1>4, <1>14, SameKey
  <2>4. ASSUME NEW i \in 3..n + 2, NEW j \in 3..n + 2, i # j
        PROVE  Key(plan[i]) # Key(plan[j])
    <3>1. /\ i - 2 \in 1..n /\ j - 2 \in 1..n /\ i - 2 # j - 2
          /\ plan[i] = rest[i - 2] /\ plan[j] = rest[j - 2]
      <4>1. i \in Int /\ j \in Int
        BY <1>2
      <4> QED
        BY <4>1, <2>4, <1>9
    <3> DEFINE k == i - 2
               l == j - 2
    <3>2. k \in 1..n /\ l \in 1..n /\ k # l /\ plan[i] = rest[k] /\ plan[j] = rest[l]
      BY <3>1
    <3> HIDE DEF k, l
    <3> QED
      BY <3>2, <1>1 DEF Apart
  <2> QED
    BY <2>2, <2>3, <2>4, <1>7, <1>8, <1>12 DEF Apart
<1>17. \A i \in 1..2 : plan[i].Filter = Unnamed /\ plan[i].Tags = <<>> /\ plan[i].Count = ceiling
  <2>1. \A i \in 1..2 : i = 1 \/ i = 2
    OBVIOUS
  <2> QED
    BY <2>1, <1>4, <1>8
<1>19. \A s : Contains(ViewsOf(tags, ceiling), s) => Contains(plan, s)
  BY <1>1, <1>7
<1>20. Len(plan) = n + 2 /\ Len(plan) \in Nat /\ Len(plan) >= 2 /\ plan \in Seq(SliceType)
  BY <1>2, <1>7
<1>21. plan[1].Sort = Unnamed /\ plan[2].Sort = "newest"
  BY <1>4, <1>8
<1> QED
  BY <1>13, <1>14, <1>15, <1>16, <1>17, <1>19, <1>20, <1>21 DEF IsPlan
-----------------------------------------------------------------------------
(* Pages.                                                                  *)

\* The pages worth fetching hold what a view's count says, or are as many as
\* itch.io serves.
LEMMA PagesAre ==
    ASSUME MaxPagesPerView \in Nat \ {0}, NEW itemsPerPage \in Nat \ {0}, NEW s, s.Count \in Nat
    PROVE  /\ PagesToFetch(s, itemsPerPage) \in Nat
           /\ s.Count <= MaxPagesPerView * itemsPerPage =>
                 s.Count <= PagesToFetch(s, itemsPerPage) * itemsPerPage
           /\ s.Count >= MaxPagesPerView * itemsPerPage =>
                 PagesToFetch(s, itemsPerPage) = MaxPagesPerView
<1> DEFINE top == MaxPagesPerView
           b == itemsPerPage
           pages == (s.Count + b - 1) \div b
<1>1. s.Count + b - 1 \in Nat
  OBVIOUS
<1>2. pages \in Nat /\ pages * b <= s.Count + b - 1 /\ s.Count + b - 1 < pages * b + b
  <2> DEFINE a == s.Count + b - 1
  <2> HIDE DEF a
  <2>1. a \div b \in Nat /\ (a \div b) * b <= a /\ a < (a \div b) * b + b
    BY <1>1, Quotient DEF a
  <2> QED
    BY <2>1 DEF a
<1>3. PagesToFetch(s, b) = IF pages > top THEN top ELSE IF pages < 1 THEN 1 ELSE pages
  BY DEF PagesToFetch
<1> HIDE DEF pages
<1>4. /\ pages <= top => pages * b <= top * b
      /\ pages < top => pages * b + b <= top * b
      /\ pages * b \in Nat /\ top * b \in Nat
  BY <1>2, Multiples
<1>5. 1 * b = b /\ 0 * b = 0
  OBVIOUS
<1> DEFINE pb == pages * b
           tb == top * b
<1>6. /\ pb \in Nat /\ tb \in Nat /\ s.Count + b - 1 < pb + b
      /\ pages < top => pb + b <= tb
  BY <1>2, <1>4
<1>7. pages = 0 => pb = 0
  BY <1>5
<1>8. ASSUME s.Count <= tb
      PROVE  s.Count <= PagesToFetch(s, b) * b
  <2>1. CASE pages > top
    BY <2>1, <1>3, <1>8
  <2>2. CASE pages < 1
    <3>1. PagesToFetch(s, b) = 1 /\ pb = 0
      BY <2>2, <1>2, <1>3, <1>7
    <3> HIDE DEF pb
    <3> QED
      BY <3>1, <1>5, <1>6
  <2>3. CASE ~(pages > top) /\ ~(pages < 1)
    <3>1. PagesToFetch(s, b) * b = pb
      BY <2>3, <1>3
    <3> HIDE DEF pb
    <3> QED
      BY <3>1, <1>6
  <2> QED
    BY <2>1, <2>2, <2>3
<1>9. ASSUME s.Count >= tb
      PROVE  PagesToFetch(s, b) = top
  <2> HIDE DEF pb, tb
  <2>1. ~(pages < top)
    BY <1>6, <1>9
  <2> QED
    BY <2>1, <1>2, <1>3
<1>10. PagesToFetch(s, b) \in Nat
  BY <1>2, <1>3
<1> QED
  BY <1>8, <1>9, <1>10
-----------------------------------------------------------------------------
(* What the plan promises.                                                 *)

\* For every tag universe, page size and set of orderings and filters: the plan
\* is made of valid slices whose checkpoint keys all differ, led by the two views
\* of the whole catalog, paged to the cap, the rest largest first (PlanSlices,
\* Slice.Valid, Slice.Label).
THEOREM PlanIsWellFormed ==
    ASSUME PlannerConstants, NEW tags, IsTags(tags), NEW itemsPerPage \in Nat \ {0}
    PROVE  WellFormed(PlanSlices(tags, itemsPerPage), itemsPerPage)
<1> DEFINE plan == PlanSlices(tags, itemsPerPage)
           ceiling == MaxPagesPerView * itemsPerPage
           n == Len(plan)
<1>0. plan = PlanSlices(tags, itemsPerPage) /\ ceiling = MaxPagesPerView * itemsPerPage
  OBVIOUS
<1>3. ceiling \in Nat /\ MaxPagesPerView \in Nat \ {0}
  BY DEF PlannerConstants
<1> HIDE DEF plan, ceiling
<1>1. /\ plan \in Seq(SliceType) /\ n \in Nat /\ n >= 2
      /\ \A i \in 1..2 : plan[i].Filter = Unnamed /\ plan[i].Tags = <<>> /\ plan[i].Count = ceiling
      /\ plan[1].Sort = Unnamed /\ plan[2].Sort = "newest"
      /\ \A i \in 3..n : plan[i].Tags # <<>> \/ plan[i].Filter # Unnamed
      /\ \A i \in 1..n : WellNamed(plan[i])
      /\ \A i \in 4..n : plan[i].Count <= plan[i - 1].Count
      /\ Apart(plan)
  <2>1. IsPlan(plan, ceiling)
    BY <1>0, PlanHas
  <2>2. n \in Nat
    BY <2>1, LenProperties DEF IsPlan
  <2> QED
    BY <2>1, <2>2 DEF IsPlan
<1>2. DOMAIN plan = 1..n
  BY <1>1, LenProperties
<1>4. ASSUME NEW i \in 1..2
      PROVE  PagesToFetch(plan[i], itemsPerPage) = MaxPagesPerView
  <2>1. plan[i].Count = ceiling
    BY <1>1
  <2>2. plan[i].Count \in Nat /\ plan[i].Count >= MaxPagesPerView * itemsPerPage
    BY <2>1, <1>0, <1>3
  <2> QED
    BY <2>2, <1>3, PagesAre
<1>5. ASSUME NEW i \in 1..n
      PROVE  /\ i = 1 \/ i = 2 \/ i \in 3..n
             /\ ~(1 \in 3..n) /\ ~(2 \in 3..n)
  BY <1>1
<1>6. "newest" # Unnamed
  BY Zenon DEF Unnamed
<1>7. ASSUME NEW i \in 1..n
      PROVE  (IsRoot(plan[i]) <=> i = 1) /\ (IsNewestRoot(plan[i]) <=> i = 2)
  <2>1. CASE i = 1
    BY <2>1, <1>1, <1>6 DEF IsRoot, IsNewestRoot
  <2>2. CASE i = 2
    BY <2>2, <1>1, <1>6 DEF IsRoot, IsNewestRoot
  <2>3. CASE i \in 3..n
    <3>1. i # 1 /\ i # 2
      BY <2>3, <1>5
    <3> QED
      BY <2>3, <3>1, <1>1 DEF IsRoot, IsNewestRoot
  <2> QED
    BY <1>5, <2>1, <2>2, <2>3
<1>8. ASSUME NEW i \in 1..n, NEW j \in 1..i - 1
      PROVE  Label(plan[j]) # Label(plan[i])
  <2>1. j \in 1..n /\ j # i
    BY <1>1
  <2>2. Key(plan[j]) # Key(plan[i])
    BY <2>1, <1>1 DEF Apart
  <2>3. WellNamed(plan[j]) /\ WellNamed(plan[i])
    BY <2>1, <1>1
  <2> QED
    BY <2>2, <2>3, LabelTells
<1>9. \A i \in 1..n : Valid(plan[i])
  BY <1>1, NamedIsValid
<1>10. WellFormed(plan, itemsPerPage)
  BY <1>1, <1>2, <1>4, <1>7, <1>8, <1>9 DEF WellFormed
<1> QED
  BY <1>10 DEF plan

\* A catalog whose assets carry some of these tags and pass some of the filters.
IsCatalog(catalog, tags) ==
    /\ DOMAIN catalog \subseteq Nat /\ IsFiniteSet(DOMAIN catalog)
    /\ \A a \in DOMAIN catalog :
          catalog[a].tags \subseteq tags /\ catalog[a].filters \subseteq ToSet(allFilters)

\* An asset is shown by a slice paged in full whose pages hold its whole view.
LEMMA PagedInFull ==
    ASSUME NEW catalog, DOMAIN catalog \subseteq Nat, IsFiniteSet(DOMAIN catalog),
           NEW itemsPerPage, NEW plan \in Seq(SliceType), NEW s, Contains(plan, s), s.PageInFull, s.Tags # <<>>,
           NEW a \in View(s, catalog), NEW room \in Nat,
           room = PagesToFetch(s, itemsPerPage) * itemsPerPage,
           Cardinality(View(s, catalog)) <= room
    PROVE  a \in Shown(plan, catalog, itemsPerPage)
<1> DEFINE view == View(s, catalog)
           before == Before(a, s, view)
<1>1. view \subseteq DOMAIN catalog /\ a \in view
  BY DEF View
<1> HIDE DEF view
<1>2. IsFiniteSet(view) /\ a \in Nat
  BY <1>1, FS_Subset
<1>3. before \subseteq view \ {a}
  BY <1>1, <1>2 DEF Before
<1> HIDE DEF before
<1>4. IsFiniteSet(view \ {a}) /\ Cardinality(view \ {a}) = Cardinality(view) - 1
  BY <1>1, <1>2, FS_RemoveElement
<1>5. Cardinality(before) <= Cardinality(view \ {a}) /\ Cardinality(before) \in Nat
  BY <1>3, <1>4, FS_Subset, FS_CardinalityType
<1>6. Cardinality(view) \in Nat /\ Cardinality(view) <= room
  BY <1>2, FS_CardinalityType DEF view
<1>7. Cardinality(before) < room
  BY <1>4, <1>5, <1>6
<1>8. a \in Paged(s, catalog, itemsPerPage)
  BY <1>1, <1>7 DEF Paged, view, before
<1>9. PICK i \in DOMAIN plan : plan[i] = s
  BY LenProperties DEF Contains
<1> QED
  BY <1>8, <1>9 DEF Shown

\* Tag counts of a catalog are a tag universe.
LEMMA TagsOfAre ==
    ASSUME NEW tags \in SUBSET Nat, IsFiniteSet(tags), NEW catalog, IsCatalog(catalog, tags)
    PROVE  /\ IsTags(TagsOf(catalog, tags))
           /\ \A t \in tags : IsFiniteSet(Carriers(catalog, t)) /\ Cardinality(Carriers(catalog, t)) \in Nat
<1> DEFINE u == [t \in tags |-> [slug |-> t, count |-> Cardinality(Carriers(catalog, t))]]
<1>1. ASSUME NEW t \in tags
      PROVE  IsFiniteSet(Carriers(catalog, t)) /\ Cardinality(Carriers(catalog, t)) \in Nat
  <2>1. Carriers(catalog, t) \subseteq DOMAIN catalog
    BY DEF Carriers
  <2> QED
    BY <2>1, FS_Subset, FS_CardinalityType DEF IsCatalog
<1>2. TagsOf(catalog, tags) = {u[t] : t \in tags}
  BY DEF TagsOf
<1>3. \A t \in tags : u[t].slug = t /\ u[t] \in Tag
  BY <1>1 DEF Tag
<1>4. IsFiniteSet({u[t] : t \in tags})
  <2> HIDE DEF u
  <2> DEFINE image == {u[t] : t \in tags}
             v == [t \in tags |-> u[t]]
  <2>1. v \in Surjection(tags, image)
    BY DEF Surjection
  <2> QED
    BY <2>1, FS_Surjection
<1> HIDE DEF u
<1> QED
  BY <1>1, <1>2, <1>3, <1>4 DEF IsTags

\* A view of one tag holds its carriers, under a filter those that pass it.
LEMMA ViewIs ==
    ASSUME NEW catalog, NEW t, NEW s, s.Tags = <<t>>
    PROVE  /\ s.Filter = Unnamed => View(s, catalog) = Carriers(catalog, t)
           /\ s.Filter # Unnamed => View(s, catalog) = Narrowed(catalog, t, s.Filter)
<1>1. \A S : ToSet(s.Tags) \subseteq S <=> t \in S
  <2> DEFINE one == <<t>>
  <2>1. DOMAIN one = {1} /\ one[1] = t
    OBVIOUS
  <2> HIDE DEF one
  <2>2. ToSet(one) = {t}
    BY <2>1 DEF ToSet
  <2> QED
    BY <2>2 DEF one
<1>2. \A b \in DOMAIN catalog : ToSet(s.Tags) \subseteq catalog[b].tags <=> t \in catalog[b].tags
  BY <1>1
<1> QED
  BY <1>2 DEF View, Carriers, Narrowed

\* For every catalog, page size and set of orderings and filters: the plan for the
\* catalog's tags shows every asset that carries a tag that fits a view, or fits
\* one when narrowed by a filter the asset passes - whatever the yield heuristic
\* abandons (PlanSlices, PagesToFetch).
THEOREM PlanReachesAll ==
    ASSUME PlannerConstants, NEW tags \in SUBSET (Nat \ {0}), IsFiniteSet(tags),
           NEW catalog, IsCatalog(catalog, tags), NEW itemsPerPage \in Nat \ {0}
    PROVE  ReachesAll(PlanSlices(TagsOf(catalog, tags), itemsPerPage), catalog, itemsPerPage)
<1> DEFINE universe == TagsOf(catalog, tags)
           plan == PlanSlices(universe, itemsPerPage)
           ceiling == MaxPagesPerView * itemsPerPage
<1>1. /\ IsTags(universe)
      /\ \A t \in tags : IsFiniteSet(Carriers(catalog, t)) /\ Cardinality(Carriers(catalog, t)) \in Nat
  <2>1. tags \in SUBSET Nat
    OBVIOUS
  <2> QED
    BY <2>1, TagsOfAre
<1>2. ceiling \in Nat /\ MaxPagesPerView \in Nat \ {0}
  BY DEF PlannerConstants
<1>3. SUFFICES ASSUME NEW a \in DOMAIN catalog, NEW t \in catalog[a].tags,
                      FitsAView(catalog, a, t, ceiling)
               PROVE  a \in Shown(plan, catalog, itemsPerPage)
  BY DEF ReachesAll
<1> DEFINE carriers == Carriers(catalog, t)
           u == [slug |-> t, count |-> Cardinality(carriers)]
           room(s) == PagesToFetch(s, itemsPerPage) * itemsPerPage
<1>4. /\ DOMAIN catalog \subseteq Nat /\ IsFiniteSet(DOMAIN catalog)
      /\ t \in tags /\ t # 0 /\ a \in carriers
      /\ \A f \in catalog[a].filters : f \in ToSet(allFilters) /\ f # Unnamed
  BY <1>3, NamesAre DEF IsCatalog, Carriers
<1>5. u \in universe /\ u.slug = t /\ u.count = Cardinality(carriers) /\ u.count \in Nat
  BY <1>1, <1>4 DEF TagsOf
<1> HIDE DEF universe, u, ceiling
<1>6. /\ plan \in Seq(SliceType)
      /\ \A s : Contains(ViewsOf(universe, ceiling), s) => Contains(plan, s)
  <2>1. ceiling = MaxPagesPerView * itemsPerPage /\ plan = PlanSlices(universe, itemsPerPage)
    BY DEF ceiling
  <2> HIDE DEF plan
  <2>2. IsPlan(plan, ceiling) /\ \A s : Contains(ViewsOf(universe, ceiling), s) => Contains(plan, s)
    BY <1>1, <2>1, PlanHas
  <2> QED
    BY <2>2 DEF IsPlan
<1>7. /\ u.count <= ceiling => InFull(ViewsOf(universe, ceiling), u, Unnamed)
      /\ \A f \in catalog[a].filters : u.count > ceiling => InFull(ViewsOf(universe, ceiling), u, f)
  BY <1>1, <1>2, <1>4, <1>5, ViewsOfAre
<1> HIDE DEF plan
<1>8. ASSUME NEW s, s.Count \in Nat
      PROVE  /\ room(s) \in Nat
             /\ s.Count <= ceiling => s.Count <= room(s)
             /\ s.Count >= ceiling => room(s) = ceiling
  <2>1. /\ PagesToFetch(s, itemsPerPage) \in Nat
        /\ s.Count <= ceiling => s.Count <= room(s)
        /\ s.Count >= ceiling => PagesToFetch(s, itemsPerPage) = MaxPagesPerView
    BY <1>2, <1>8, PagesAre DEF ceiling
  <2> QED
    BY <2>1 DEF ceiling
<1> HIDE DEF room, carriers
<1>9. <<>> # <<t>>
  BY ShortTags
<1>10. CASE u.count <= ceiling
  <2>1. PICK s : /\ Contains(ViewsOf(universe, ceiling), s) /\ s.Filter = Unnamed
                 /\ s.Tags = <<t>> /\ s.Count = u.count /\ s.PageInFull
    BY <1>5, <1>7, <1>10 DEF InFull
  <2>2. View(s, catalog) = carriers
    BY <2>1, ViewIs DEF carriers
  <2>3. room(s) \in Nat /\ Cardinality(View(s, catalog)) <= room(s)
    BY <2>1, <2>2, <1>5, <1>8, <1>10
  <2>4. Contains(plan, s) /\ s.Tags # <<>>
    BY <2>1, <1>6, <1>9
  <2> QED
    BY <2>1, <2>2, <2>3, <2>4, <1>4, <1>6, PagedInFull DEF room
<1>11. CASE u.count > ceiling
  <2>1. PICK f \in catalog[a].filters : Cardinality(Narrowed(catalog, t, f)) <= ceiling
    BY <1>2, <1>3, <1>5, <1>11 DEF FitsAView, carriers
  <2>2. PICK s : /\ Contains(ViewsOf(universe, ceiling), s) /\ s.Filter = f
                 /\ s.Tags = <<t>> /\ s.Count = u.count /\ s.PageInFull
    BY <1>5, <1>7, <1>11 DEF InFull
  <2>3. View(s, catalog) = Narrowed(catalog, t, f) /\ a \in View(s, catalog)
    BY <2>1, <2>2, <1>4, ViewIs DEF Narrowed, carriers
  <2>4. room(s) = ceiling
    BY <2>2, <1>2, <1>5, <1>8, <1>11
  <2>5. Contains(plan, s) /\ s.Tags # <<>>
    BY <2>2, <1>6, <1>9
  <2>6. room(s) \in Nat /\ Cardinality(View(s, catalog)) <= room(s)
    BY <2>1, <2>3, <2>4, <1>2
  <2> QED
    BY <2>2, <2>3, <2>5, <2>6, <1>4, <1>6, PagedInFull DEF room
<1> QED
  BY <1>2, <1>5, <1>10, <1>11
==============================================================================
