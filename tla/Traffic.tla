------------------------------- MODULE Traffic -------------------------------
(***************************************************************************)
(* The webserver's traffic tally (internal/metrics/metrics.go), kept by    *)
(* atomic counters and a mutex for the ring of days, written to            *)
(* traffic.json every five minutes and once more on a clean stop           *)
(* (cmd/webserver/main.go), and restored from there at startup.            *)
(*                                                                         *)
(* The breakdown of the total by route, and the count of probes, which     *)
(* feeds a log line, are left out.                                         *)
(***************************************************************************)
EXTENDS Integers, Sequences, FiniteSets, Functions

CONSTANTS
    Requests,    \* requests in flight at a time
    DaysKept,    \* width of the ring
    MaxArrivals, \* bound: requests in all
    MaxDay,      \* bound: days
    MaxLives,    \* bound: times the process starts
    MaxMishaps   \* bound: failed writes, files found unreadable

ASSUME TrafficConstants ==
    /\ IsFiniteSet(Requests)
    /\ DaysKept \in Nat /\ DaysKept > 1
    /\ {MaxArrivals, MaxDay, MaxLives, MaxMishaps} \subseteq Nat /\ MaxDay > 0

Fields == {"total", "searches"}
Slots == 0..DaysKept-1
Persisters == {"ticker", "stop"}

NoDay == [epochDay |-> 0, n |-> 0]

\* The two totals and the ring.
Tally(totals, ring) == [f \in Fields \cup {"days"} |-> IF f = "days" THEN ring ELSE totals[f]]

NoTraffic == Tally([f \in Fields |-> 0], [s \in Slots |-> NoDay])

VARIABLES
    day,      \* the UTC day
    phase,    \* "serving", "draining", "persisting", "exiting" or "down"
    drained,  \* whether Shutdown returned before its deadline
    req,      \* each request: the next step of RecordRequest, whether it is a
              \* search answered with 200, the day it read
    base,     \* the totals restored at startup
    count,    \* the atomics
    days,     \* the ring
    snap,     \* each persister: the counter it reads next, what it has read,
              \* whether it began after Shutdown returned
    file,     \* traffic.json, NoTraffic when there is none
    written,  \* whether the file's snapshot began after Shutdown returned
    arrivals, lives, mishaps,
    ever      \* for the properties: everything that was ever counted

trafficVars == <<day, phase, drained, req, base, count, days, snap, file, written,
          arrivals, lives, mishaps, ever>>
-----------------------------------------------------------------------------
Idle == [step |-> "idle", search |-> FALSE, day |-> 0]
NotWriting == [next |-> 1, read |-> NoTraffic, late |-> FALSE]

\* What /stats shows.
InMemory == Tally([f \in Fields |-> base[f] + count[f]], days)

TrafficInit ==
    /\ day = 1 /\ phase = "serving" /\ drained = FALSE
    /\ req = [r \in Requests |-> Idle]
    /\ base = [f \in Fields |-> 0] /\ count = [f \in Fields |-> 0]
    /\ days = [s \in Slots |-> NoDay]
    /\ snap = [t \in Persisters |-> NotWriting]
    /\ file = NoTraffic /\ written = FALSE
    /\ arrivals = 0 /\ lives = 1 /\ mishaps = 0
    /\ ever = Tally([f \in Fields |-> 0], [d \in 1..MaxDay |-> 0])

Up == phase # "down"

Midnight ==
    /\ day < MaxDay
    /\ \A r \in Requests : req[r].step = "bump" => day < req[r].day + DaysKept - 1
    /\ day' = day + 1
    /\ UNCHANGED <<phase, drained, req, base, count, days, snap, file, written, arrivals, lives, mishaps, ever>>

\* A request whose handler runs; the listener is closed once a stop is asked for.
Arrive(r) ==
    /\ phase = "serving" /\ req[r] = Idle /\ arrivals < MaxArrivals
    /\ \E search \in BOOLEAN : req' = [req EXCEPT ![r] = [Idle EXCEPT !.step = "total", !.search = search]]
    /\ arrivals' = arrivals + 1
    /\ UNCHANGED <<day, phase, drained, base, count, days, snap, file, written, lives, mishaps, ever>>

\* RecordRequest's additions, and bumpDay's reading of the clock after the last.
AddTo(r) ==
    LET f == req[r].step
    IN  /\ Up /\ f \in Fields
        /\ count' = [count EXCEPT ![f] = @ + 1]
        /\ ever' = [ever EXCEPT ![f] = @ + 1]
        /\ req' = [req EXCEPT ![r] = CASE f = "searches" -> [@ EXCEPT !.step = "bump", !.day = day]
                                       [] @.search /\ f = "total" -> [@ EXCEPT !.step = "searches"]
                                       [] OTHER -> Idle]
        /\ UNCHANGED <<day, phase, drained, base, days, snap, file, written, arrivals, lives, mishaps>>

\* The slot belongs to whichever day wrote it last.
Bumped(b, d) == IF b.epochDay = d THEN [b EXCEPT !.n = @ + 1] ELSE [epochDay |-> d, n |-> 1]

\* bumpDay under the mutex.
bumpDay(r) ==
    LET d == req[r].day
    IN  /\ Up /\ req[r].step = "bump"
        /\ days' = [days EXCEPT ![d % DaysKept] = Bumped(@, d)]
        /\ ever' = [ever EXCEPT !.days[d] = @ + 1]
        /\ req' = [req EXCEPT ![r] = Idle]
        /\ UNCHANGED <<day, phase, drained, base, count, snap, file, written, arrivals, lives, mishaps>>
-----------------------------------------------------------------------------
\* Mutant: the ring is copied last.
DaysLast == <<"total", "searches", "days">>

\* The order in which Snapshot reads.
ReadOrder == <<"days", "total", "searches">>

\* A step of Snapshot.  The ticker's may begin at any time, the stop's once
\* Shutdown has returned.
Read(t) ==
    /\ Up /\ snap[t].next <= Len(ReadOrder)
    /\ t = "stop" => phase = "persisting"
    /\ LET f == ReadOrder[snap[t].next]
       IN  snap' = [snap EXCEPT ![t] = [next |-> @.next + 1,
                                        read |-> [@.read EXCEPT ![f] = InMemory[f]],
                                        late |-> IF @.next = 1 THEN phase \in {"persisting", "exiting"} ELSE @.late]]
    /\ UNCHANGED <<day, phase, drained, req, base, count, days, file, written, arrivals, lives, mishaps, ever>>

\* PutTraffic, whose error is only logged.  main goes on to return.
Write(t) ==
    /\ Up /\ snap[t].next > Len(ReadOrder)
    /\ \/ file' = snap[t].read /\ written' = snap[t].late /\ UNCHANGED mishaps
       \/ mishaps < MaxMishaps /\ mishaps' = mishaps + 1 /\ UNCHANGED <<file, written>>
    /\ snap' = [snap EXCEPT ![t] = NotWriting]
    /\ phase' = IF t = "stop" THEN "exiting" ELSE phase
    /\ UNCHANGED <<day, drained, req, base, count, days, arrivals, lives, ever>>
-----------------------------------------------------------------------------
Signal ==
    /\ phase = "serving"
    /\ phase' = "draining"
    /\ UNCHANGED <<day, drained, req, base, count, days, snap, file, written, arrivals, lives, mishaps, ever>>

\* Mutant: the counters are written on the signal.
AtOnce == TRUE

NothingInFlight == \A r \in Requests : req[r] = Idle

\* srv.Shutdown returns: every request has been answered, or its ten seconds
\* are over.
ShutdownReturns ==
    /\ phase = "draining"
    /\ phase' = "persisting"
    /\ drained' \in {NothingInFlight, FALSE}
    /\ UNCHANGED <<day, req, base, count, days, snap, file, written, arrivals, lives, mishaps, ever>>

\* main returns after a clean stop, or the process is killed: whatever it held
\* in memory is gone, a half-written snapshot too.
Down ==
    /\ Up
    /\ phase' = "down" /\ drained' = FALSE /\ written' = FALSE
    /\ req' = [r \in Requests |-> Idle]
    /\ base' = [f \in Fields |-> 0] /\ count' = [f \in Fields |-> 0]
    /\ days' = [s \in Slots |-> NoDay]
    /\ snap' = [t \in Persisters |-> NotWriting]
    /\ UNCHANGED <<day, file, arrivals, lives, mishaps, ever>>

\* restoreDays.
restoreDays(ring) ==
    [s \in Slots |-> IF ring[s].epochDay < day - DaysKept + 1 THEN NoDay ELSE ring[s]]

\* Restore.  A file that does not read is moved aside, and counting begins anew.
Restore ==
    /\ phase = "down" /\ lives < MaxLives
    /\ phase' = "serving" /\ lives' = lives + 1
    /\ \/ UNCHANGED <<file, mishaps>>
       \/ mishaps < MaxMishaps /\ mishaps' = mishaps + 1 /\ file' = NoTraffic
    /\ base' = [f \in Fields |-> file'[f]]
    /\ days' = restoreDays(file'.days)
    /\ UNCHANGED <<day, drained, req, count, snap, written, arrivals, ever>>

TrafficNext ==
    \/ Midnight \/ Signal \/ ShutdownReturns \/ Down \/ Restore
    \/ \E r \in Requests : Arrive(r) \/ AddTo(r) \/ bumpDay(r)
    \/ \E t \in Persisters : Read(t) \/ Write(t)

TrafficSpec == TrafficInit /\ [][TrafficNext]_trafficVars
-----------------------------------------------------------------------------
(* Properties.                                                             *)

InRing(ring) == FoldFunction(+, 0, [s \in Slots |-> ring[s].n])

Honest(t) ==
    /\ InRing(t.days) <= t.searches
    /\ \A f \in Fields : t[f] <= ever[f]
    /\ \A s \in Slots : t.days[s].n > 0 =>
          /\ t.days[s].epochDay % DaysKept = s
          /\ t.days[s].n <= ever.days[t.days[s].epochDay]

\* Nothing is counted twice over any number of restarts, no search is put to
\* another day's account, and the daily grid never shows more searches than the
\* total beside it - not in memory, and not in the file, though it is put
\* together from counters that move while they are read ("so they share one
\* definition", RecordRequest; the order in Snapshot).
TallyHonest == Honest(InMemory) /\ Honest(file)

\* "a clean stop never loses a count" (PersistNow): when Shutdown has waited for
\* the last request, and the file is one that was put together after that, it
\* holds everything.  What the ticker began before can still be renamed over it.
CleanStopKeeps ==
    phase = "exiting" /\ drained /\ written => file = InMemory

\* The comment without its exception.
CleanStopKeepsAll == phase = "exiting" /\ drained /\ mishaps = 0 => file = InMemory
==============================================================================
