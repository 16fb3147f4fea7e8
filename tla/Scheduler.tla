------------------------------ MODULE Scheduler ------------------------------
(***************************************************************************)
(* When the data service crawls (cmd/dataservice/main.go): scheduleCrawls, *)
(* which wakes up, looks at the age of what is published and starts a      *)
(* crawl or not; /trigger-fetch, which starts one at any time; the flag    *)
(* that keeps crawls apart; the backoff after failures; and restarts of    *)
(* the container, which end the crawl and the loop and begin a new loop.   *)
(*                                                                         *)
(* Time is counted in quarter-hours, the period of the loop's check.  Only *)
(* whether the data is as old as the interval matters, so its age stops    *)
(* counting there, and so does the failure counter past the last step of   *)
(* the backoff: the state space is finite with no bound on restarts,       *)
(* triggers, crawls or failures.                                           *)
(***************************************************************************)
EXTENDS Integers

CONSTANT Interval  \* CRAWL_INTERVAL in quarter-hours

ASSUME IntervalIsSet == Interval \in Nat \ {0}

VARIABLES
    age,        \* how old assets.json is, at most Interval
    published,  \* there is an assets.json
    loop,       \* where scheduleCrawls is
    sleep,      \* what is left of its time.Sleep
    consecutiveFailures,  \* local of the same name, at most Steps + 1
    scrapeInProgress,     \* the flag of that name
    running,    \* crawls of each origin that are running
    outcome,    \* what the channel done holds
    sinceFailure,  \* time since the loop last heard of a failure
    idleOverdue    \* time for which a due crawl has not been started

vars == <<age, published, loop, sleep, consecutiveFailures, scrapeInProgress,
          running, outcome, sinceFailure, idleOverdue>>

Origins == {"scheduled", "triggered"}
Steps == 3
CheckEvery == 1

AtMost(n, bound) == IF n > bound THEN bound ELSE n

Overdue == ~published \/ age >= Interval

TypeOK ==
    /\ age \in 0..Interval /\ published \in BOOLEAN
    /\ loop \in {"check", "waiting", "asleep", "backoff"}
    /\ sleep \in 0..(Interval + CheckEvery)
    /\ consecutiveFailures \in 0..(Steps + 1)
    /\ scrapeInProgress \in BOOLEAN
    /\ running \in [Origins -> Nat]
    /\ outcome \in {"none", "nil", "error"}
    /\ sinceFailure \in 0..Interval /\ idleOverdue \in 0..(Interval + 1)

Init ==
    /\ age = 0 /\ published = FALSE
    /\ loop = "check" /\ sleep = 0 /\ consecutiveFailures = 0
    /\ scrapeInProgress = FALSE
    /\ running = [o \in Origins |-> 0]
    /\ outcome = "none"
    /\ sinceFailure = Interval /\ idleOverdue = 0
-----------------------------------------------------------------------------
\* Mutant: two callers may both find the flag clear.
StartUnguarded(origin) ==
    /\ scrapeInProgress' = TRUE
    /\ running' = [running EXCEPT ![origin] = @ + 1]

(* startScrape: claims the flag and starts the crawl's goroutine, or fails. *)
StartScrape(origin) ==
    /\ ~scrapeInProgress
    /\ scrapeInProgress' = TRUE
    /\ running' = [running EXCEPT ![origin] = @ + 1]

(* A POST to /trigger-fetch; one that finds a crawl running gets a 409 and
   changes nothing.                                                        *)
Trigger ==
    /\ StartScrape("triggered")
    /\ idleOverdue' = 0
    /\ UNCHANGED <<age, published, loop, sleep, consecutiveFailures, outcome,
                   sinceFailure>>

(* backoffDelay: 15 minutes, 1 hour, 6 hours, the interval; never more.    *)
BackoffDelay(failures) ==
    IF failures \in 1..Steps THEN AtMost(<<1, 4, 24>>[failures], Interval)
                             ELSE Interval

\* Mutant: a busy flag is taken for a failure and backed off from.
WaitOutTheOther ==
    /\ loop = "check"
    /\ IF Overdue
         THEN \/ StartScrape("scheduled") /\ loop' = "waiting" /\ sleep' = 0
                 /\ idleOverdue' = 0
              \/ scrapeInProgress /\ loop' = "asleep" /\ sleep' = Interval
                 /\ UNCHANGED <<scrapeInProgress, running, idleOverdue>>
         ELSE /\ loop' = "asleep" /\ sleep' = CheckEvery
              /\ UNCHANGED <<scrapeInProgress, running, idleOverdue>>
    /\ UNCHANGED <<age, published, consecutiveFailures, outcome, sinceFailure>>

(* One turn of scheduleCrawls: publishedAge, decideCrawlAction and, if a
   crawl is due, startScrape.  Beaten to the flag by a trigger, or with
   nothing due, it sleeps until the next check.                            *)
Check ==
    /\ loop = "check"
    /\ \/ /\ Overdue
          /\ StartScrape("scheduled")
          /\ loop' = "waiting" /\ sleep' = 0 /\ idleOverdue' = 0
       \/ /\ ~Overdue \/ scrapeInProgress
          /\ loop' = "asleep" /\ sleep' = CheckEvery
          /\ UNCHANGED <<scrapeInProgress, running, idleOverdue>>
    /\ UNCHANGED <<age, published, consecutiveFailures, outcome, sinceFailure>>

\* Mutant: a failed crawl is retried at the normal cadence.
HearWithoutBackoff ==
    /\ loop = "waiting" /\ outcome # "none"
    /\ outcome' = "none"
    /\ loop' = "asleep" /\ sleep' = CheckEvery
    /\ consecutiveFailures' = IF outcome = "nil" THEN 0
                              ELSE AtMost(consecutiveFailures + 1, Steps + 1)
    /\ sinceFailure' = IF outcome = "error" THEN 0 ELSE sinceFailure
    /\ UNCHANGED <<age, published, scrapeInProgress, running, idleOverdue>>

(* The loop receives from done: it backs off from a failure and forgets
   earlier ones at a success.                                              *)
Hear ==
    /\ loop = "waiting" /\ outcome # "none"
    /\ outcome' = "none"
    /\ \/ /\ outcome = "error"
          /\ consecutiveFailures' = AtMost(consecutiveFailures + 1, Steps + 1)
          /\ loop' = "backoff" /\ sleep' = BackoffDelay(consecutiveFailures')
          /\ sinceFailure' = 0
       \/ /\ outcome = "nil"
          /\ consecutiveFailures' = 0
          /\ loop' = "asleep" /\ sleep' = CheckEvery
          /\ UNCHANGED sinceFailure
    /\ UNCHANGED <<age, published, scrapeInProgress, running, idleOverdue>>

Wake ==
    /\ loop \in {"asleep", "backoff"} /\ sleep = 0
    /\ loop' = "check"
    /\ UNCHANGED <<age, published, sleep, consecutiveFailures,
                   scrapeInProgress, running, outcome, sinceFailure, idleOverdue>>

(* fetchAndStoreAssets returns: nil only after assets.json was written.  A
   scheduled crawl reports through onDone before the flag is released, and
   the channel has room for the report.                                    *)
CrawlReturns(origin) ==
    /\ running[origin] > 0
    /\ \E result \in {"nil", "error"} :
         /\ outcome' = IF origin = "scheduled" THEN result ELSE outcome
         /\ published' = (published \/ result = "nil")
         /\ age' = IF result = "nil" THEN 0 ELSE age
    /\ running' = [running EXCEPT ![origin] = @ - 1]
    /\ UNCHANGED <<loop, sleep, consecutiveFailures, scrapeInProgress,
                   sinceFailure, idleOverdue>>

(* The deferred Store(false) of startScrape's goroutine.                   *)
Release ==
    /\ scrapeInProgress /\ \A o \in Origins : running[o] = 0
    /\ scrapeInProgress' = FALSE
    /\ UNCHANGED <<age, published, loop, sleep, consecutiveFailures, running,
                   outcome, sinceFailure, idleOverdue>>

\* Mutant: a restarted loop first waits for one period.
SleepFirst ==
    /\ loop' = "asleep" /\ sleep' = CheckEvery
    /\ consecutiveFailures' = 0
    /\ scrapeInProgress' = FALSE
    /\ running' = [o \in Origins |-> 0] /\ outcome' = "none"
    /\ sinceFailure' = Interval /\ idleOverdue' = 0
    /\ UNCHANGED <<age, published>>

(* The container is restarted: the flag, the crawl and the loop's counter
   are gone, and a new loop starts with its check.                         *)
Restart ==
    /\ loop' = "check" /\ sleep' = 0 /\ consecutiveFailures' = 0
    /\ scrapeInProgress' = FALSE
    /\ running' = [o \in Origins |-> 0] /\ outcome' = "none"
    /\ sinceFailure' = Interval /\ idleOverdue' = 0
    /\ UNCHANGED <<age, published>>

(* A quarter of an hour passes; what takes no time has been done.          *)
Tick ==
    /\ loop \in {"asleep", "backoff"} => sleep > 0
    /\ loop # "check" /\ outcome = "none"
    /\ scrapeInProgress => \E o \in Origins : running[o] > 0
    /\ age' = AtMost(age + 1, Interval)
    /\ sleep' = IF sleep > 0 THEN sleep - 1 ELSE 0
    /\ sinceFailure' = AtMost(sinceFailure + 1, Interval)
    /\ idleOverdue' = IF Overdue /\ ~scrapeInProgress
                        THEN AtMost(idleOverdue + 1, Interval + 1) ELSE 0
    /\ UNCHANGED <<published, loop, consecutiveFailures, scrapeInProgress,
                   running, outcome>>

Next ==
    \/ Trigger \/ Check \/ Hear \/ Wake \/ Release \/ Restart \/ Tick
    \/ \E o \in Origins : CrawlReturns(o)

Spec == Init /\ [][Next]_vars

(* The loop is one goroutine and time passes.  Nothing is assumed of
   crawls, which may fail for ever or never return, of triggers or of
   restarts, which may come as often as they like.                         *)
Fairness == WF_vars(Check) /\ WF_vars(Hear) /\ WF_vars(Wake)
            /\ WF_vars(Release) /\ WF_vars(Tick)

FairSpec == Spec /\ Fairness
-----------------------------------------------------------------------------
(* Two crawls never run at once, whoever started them, and while one runs
   the flag is up (scrapeInProgress: two would both write the staging
   index).                                                                 *)
OneCrawl ==
    /\ running["scheduled"] + running["triggered"] <= 1
    /\ running["scheduled"] + running["triggered"] > 0 => scrapeInProgress

(* A failing crawl is not retried by the loop before its backoff is over:
   within one life of the process, the loop never starts a crawl sooner
   after a failure than the delay that the number of failures in a row
   calls for (scheduleCrawls and backoffDelay).                            *)
BackoffHeld ==
    [][running'["scheduled"] > running["scheduled"]
         => sinceFailure >= BackoffDelay(consecutiveFailures)]_vars

(* However triggers and failures fall, the loop never sleeps on a crawl that
   is due, with none running, for longer than one check, or than the
   interval if it backs off (backoffDelay's cap, and the fall through to the
   normal check when a trigger was first).                                 *)
PromptStart ==
    /\ loop = "asleep"  => idleOverdue + sleep <= CheckEvery
    /\ loop = "backoff" => idleOverdue + sleep <= Interval

(* Whenever the data is overdue a crawl is running sooner or later, even if
   the container is restarted more often than the interval, for ever: the
   decision depends on the age of the data and not on a ticker
   (scheduleCrawls).                                                       *)
OverdueIsCrawled == Overdue ~> (scrapeInProgress \/ ~Overdue)
=============================================================================
