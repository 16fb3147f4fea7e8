-------------------------------- MODULE Fetcher --------------------------------
(***************************************************************************)
(* One batch of concurrent page fetches (fetchPages in the dataservice,    *)
(* FetchAssetPage in internal/fetcher) sharing the process-wide rate       *)
(* limiter: reserving a slot, waiting out a pause, a fleet-wide pause on a *)
(* 429, retries.  Every fetch is a goroutine of its own.                   *)
(*                                                                         *)
(* The limiter's wall-clock times are kept as the time left until them:    *)
(* the code only ever compares them with time.Now(), a time in the past    *)
(* counting as now.  Sleeps may overrun.                                   *)
(***************************************************************************)
EXTENDS Integers, FiniteSets

CONSTANTS
    Pages,         \* the pages of the batch
    MaxAttempts,   \* maxFetchAttempts
    Interval,      \* the spacing of requests, in ticks
    Waits,         \* pauses a 429 can ask for: Retry-After or backoff
    Backoffs       \* delays after a network error

ASSUME FetcherAssumption ==
    /\ MaxAttempts \in Nat \ {0} /\ Interval \in Nat \ {0}
    /\ Waits \subseteq Nat \ {0} /\ Backoffs \subseteq Nat \ {0}
    /\ IsFiniteSet(Pages)

VARIABLES
    nextIn,      \* time until limiter.next
    pauseLeft,   \* time until limiter.pausedUntil
    epoch,       \* limiter.epoch: the current refusal episode
    pc,          \* where each page's fetch is
    sleepLeft,   \* time left of the page's current sleep
    issued,      \* the epoch its request went out under
    attempt,     \* loop counter of FetchAssetPage
    outcome      \* FetchOutcome, "none" while fetching

limiterVars == <<nextIn, pauseLeft, epoch>>
fetcherVars == <<nextIn, pauseLeft, epoch, pc, sleepLeft, issued, attempt, outcome>>

Outcomes == {"none", "ok", "exhausted", "failed"}

FetcherTypeOK ==
    /\ nextIn \in Nat /\ pauseLeft \in Nat /\ epoch \in Nat
    /\ pc \in [Pages -> {"request", "slot", "flight", "backoff", "done"}]
    /\ sleepLeft \in [Pages -> Nat]
    /\ issued \in [Pages -> Nat]
    /\ attempt \in [Pages -> 0..MaxAttempts]
    /\ outcome \in [Pages -> Outcomes]

Later(a, b) == IF a < b THEN b ELSE a

\* Earlier batches used the same limiter: they may have left a slot reserved
\* and a pause running, but no request in flight
\* and no reservation waiting.
FetcherInit ==
    /\ pauseLeft \in {0} \cup Waits
    /\ \E slot \in 0..Interval : nextIn = Later(pauseLeft, slot)
    /\ epoch = 0
    /\ pc = [p \in Pages |-> "request"]
    /\ sleepLeft = [p \in Pages |-> 0]
    /\ issued = [p \in Pages |-> 0]
    /\ attempt = [p \in Pages |-> 0]
    /\ outcome = [p \in Pages |-> "none"]
-----------------------------------------------------------------------------
\* acquire, first part: reserve the next slot and sleep until it comes.
Reserve(p) ==
    /\ pc[p] = "request"
    /\ pc' = [pc EXCEPT ![p] = "slot"]
    /\ sleepLeft' = [sleepLeft EXCEPT ![p] = nextIn]
    /\ nextIn' = nextIn + Interval
    /\ UNCHANGED <<pauseLeft, epoch, issued, attempt, outcome>>

\* Mutant: fire on the strength of the reservation, however old it is.
SendOnReservation(p) ==
    /\ pc[p] = "slot" /\ sleepLeft[p] = 0
    /\ pc' = [pc EXCEPT ![p] = "flight"]
    /\ issued' = [issued EXCEPT ![p] = epoch]
    /\ UNCHANGED <<limiterVars, sleepLeft, attempt, outcome>>

\* Mutant: a slot reserved in another episode than the last request's is void.
SendInSameEpisode(p) ==
    /\ pc[p] = "slot" /\ sleepLeft[p] = 0
    /\ pauseLeft = 0 /\ issued[p] = epoch
    /\ pc' = [pc EXCEPT ![p] = "flight"]
    /\ UNCHANGED <<limiterVars, sleepLeft, issued, attempt, outcome>>

\* acquire, the loop after the slot: no pause is running, so the request goes
\* out under the epoch read here.
Send(p) ==
    /\ pc[p] = "slot" /\ sleepLeft[p] = 0
    /\ pauseLeft = 0
    /\ pc' = [pc EXCEPT ![p] = "flight"]
    /\ issued' = [issued EXCEPT ![p] = epoch]
    /\ UNCHANGED <<limiterVars, sleepLeft, attempt, outcome>>

\* A pause began after the slot was reserved: sleep it out and look again.
WaitOutPause(p) ==
    /\ pc[p] = "slot" /\ sleepLeft[p] = 0
    /\ pauseLeft > 0
    /\ sleepLeft' = [sleepLeft EXCEPT ![p] = pauseLeft]
    /\ UNCHANGED <<limiterVars, pc, issued, attempt, outcome>>
-----------------------------------------------------------------------------
\* Mutant: every refusal adds its wait to the queue.
PauseAddsUp(p, wait) ==
    /\ UNCHANGED <<pauseLeft, epoch>>
    /\ nextIn' = nextIn + wait

\* Mutant: every 429 pauses the fleet, echoes of an old episode too.
PauseOnEveryRefusal(p, wait) ==
    /\ epoch' = epoch + 1
    /\ pauseLeft' = Later(pauseLeft, wait)
    /\ nextIn' = Later(nextIn, pauseLeft')

\* pause: only the first 429 of an episode opens one, and pushes the queue of
\* slots out with it.
Pause(p, wait) ==
    IF issued[p] = epoch
      THEN /\ epoch' = epoch + 1
           /\ pauseLeft' = Later(pauseLeft, wait)
           /\ nextIn' = IF pauseLeft < wait THEN Later(nextIn, wait) ELSE nextIn
      ELSE UNCHANGED limiterVars

LastAttempt(p) == attempt[p] + 1 = MaxAttempts

\* The loop's continue: the next attempt begins at step, or there is none.
NextAttempt(p, step) ==
    /\ attempt' = [attempt EXCEPT ![p] = @ + 1]
    /\ pc' = [pc EXCEPT ![p] = IF LastAttempt(p) THEN "done" ELSE step]
    /\ outcome' = [outcome EXCEPT ![p] = IF LastAttempt(p) THEN "failed" ELSE "none"]

\* 429: handleTooManyRequests pauses the fleet and sleeps nowhere itself.
Refused(p) ==
    /\ pc[p] = "flight"
    /\ \E wait \in Waits : Pause(p, wait)
    /\ NextAttempt(p, "request")
    /\ UNCHANGED <<sleepLeft, issued>>

\* Network error or timeout: only this fetch backs off, and not on its last
\* attempt.
NetworkError(p) ==
    /\ pc[p] = "flight"
    /\ NextAttempt(p, "backoff")
    /\ \E d \in Backoffs :
          sleepLeft' = [sleepLeft EXCEPT ![p] = IF LastAttempt(p) THEN 0 ELSE d]
    /\ UNCHANGED <<limiterVars, issued>>

BackoffElapses(p) ==
    /\ pc[p] = "backoff" /\ sleepLeft[p] = 0
    /\ pc' = [pc EXCEPT ![p] = "request"]
    /\ UNCHANGED <<limiterVars, sleepLeft, issued, attempt, outcome>>

\* 200 with a body that decodes, 404, or anything else.
Answered(p) ==
    /\ pc[p] = "flight"
    /\ pc' = [pc EXCEPT ![p] = "done"]
    /\ \E o \in {"ok", "exhausted", "failed"} : outcome' = [outcome EXCEPT ![p] = o]
    /\ UNCHANGED <<limiterVars, sleepLeft, issued, attempt>>

Less(t) == IF t = 0 THEN 0 ELSE t - 1

\* A unit of time passes, for as long as something waits for one.
Tick ==
    /\ pauseLeft > 0 \/ nextIn > 0 \/ \E p \in Pages : sleepLeft[p] > 0
    /\ nextIn' = Less(nextIn) /\ pauseLeft' = Less(pauseLeft)
    /\ sleepLeft' = [p \in Pages |-> Less(sleepLeft[p])]
    /\ UNCHANGED <<epoch, pc, issued, attempt, outcome>>

FetchStep(p) ==
    \/ Reserve(p) \/ Send(p) \/ WaitOutPause(p) \/ BackoffElapses(p)
    \/ Refused(p) \/ NetworkError(p) \/ Answered(p)

\* fetchPages' wg.Wait returns.
BatchDone == \A p \in Pages : pc[p] = "done"

FetcherNext == Tick \/ \E p \in Pages : FetchStep(p)

FetcherSpec == FetcherInit /\ [][FetcherNext]_fetcherVars

\* Time passes, every goroutine goes on, and the HTTP client's timeout turns a
\* request without an answer into a network error.
FetcherFairSpec == FetcherSpec /\ WF_fetcherVars(Tick) /\ \A p \in Pages : WF_fetcherVars(FetchStep(p))
-----------------------------------------------------------------------------
(* Properties.                                                             *)

\* While a pause runs every request still in flight belongs to an earlier
\* episode: acquire reads the epoch after its waits, pause advances it.
PausedMeansStale ==
    \A p \in Pages : pc[p] = "flight" =>
        issued[p] <= epoch /\ (pauseLeft > 0 => issued[p] < epoch)

\* A slot reserved during a pause is never before the pause lifts.
QueueBehindPause == pauseLeft <= nextIn

\* A fetch that has used up its attempts is over.
AttemptsLeft == \A p \in Pages : pc[p] # "done" => attempt[p] < MaxAttempts

\* The inductive invariant of the limiter and the retry loops.
FetcherInv == FetcherTypeOK /\ PausedMeansStale /\ QueueBehindPause /\ AttemptsLeft

\* The echoes of an episode, and a page retrying with a growing backoff, never
\* push a running pause out: it ends when the first 429 said.
PauseNotProlonged == [][pauseLeft > 0 => pauseLeft' <= pauseLeft]_fetcherVars

\* Refusals do not ratchet the rate down: however many 429s come back, the
\* next slot is never further off than one pause, or one slot if that is
\* longer, and one slot per page.
QueueBounded ==
    \A longest \in Waits : (\A w \in Waits : w <= longest) =>
        nextIn <= Later(longest, Interval) + Interval * Cardinality(Pages)

\* Every fetch of the batch ends, whatever the answers: retries are bounded and
\* no pause or reservation keeps a worker waiting for good.
BatchEnds == <>BatchDone

\* fetcher.go:172-173: the queue is pushed out "so the fleet does not all fire
\* the instant the pause lifts".
PauseLiftsSpaced ==
    \A p, q \in Pages :
        pc[p] = "slot" /\ pc[q] = "slot" /\ sleepLeft[p] > 0 /\ sleepLeft[p] = sleepLeft[q]
            => p = q
==============================================================================
