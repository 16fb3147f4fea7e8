----------------------------- MODULE SingleFlight -----------------------------
(***************************************************************************)
(* RefreshDataCache's single flight and Close (internal/cache): callers    *)
(* that arrive while a refresh runs wait on its channel and read the       *)
(* shared refreshErr under a lock of its own afterwards; Close may come at *)
(* any moment.  Each action is one critical section, or one stretch        *)
(* between two.  Refreshes are numbered from 1, and a refresh's number     *)
(* also names its channel and the index it opens.                          *)
(*                                                                         *)
(* The refresh itself is module CacheRefresh; here it opens an index or    *)
(* keeps the live one, and succeeds, fails or panics.                      *)
(***************************************************************************)
EXTENDS Naturals

CONSTANTS
    Callers,       \* goroutines that call RefreshDataCache, again and again
    Closers,       \* goroutines that call Close once
    MaxRefreshes,  \* bound: refreshes in all
    MaxPanics      \* bound: refreshes that panic

ASSUME SingleFlightBounds ==
    /\ MaxRefreshes \in Nat /\ MaxPanics \in Nat
    /\ Callers \cap Closers = {}

VARIABLES
    refreshing, closed,   \* the flags of those names
    refreshDone,   \* the channel of the latest refresh
    refreshErr,    \* what it last left: whose result, and which
    signalled,     \* channels that have been closed
    index,         \* the index being served, None before and after
    loaded,        \* an asset list is being served
    handles,       \* indexes open in this process
    newIndex,      \* the running refresh's local
    outcome,       \* how each refresh ended
    place,            \* where each caller and closer is
    waits,         \* the channel it waits on, None if it does not
    answer         \* what a caller's last call returned to it

flightVars == <<refreshing, closed, refreshDone, refreshErr, signalled, index,
          loaded, handles, newIndex, outcome, place, waits, answer>>

None == 0
Refreshes == 1..MaxRefreshes
Results == {"nil", "error", "panic"}

CallerPC == {"idle", "wait", "read", "load", "swap", "leave", "signal"}
CloserPC == {"open", "closing", "closed"}

FlightTypeOK ==
    /\ refreshing \in BOOLEAN /\ closed \in BOOLEAN /\ loaded \in BOOLEAN
    /\ refreshDone \in {None} \cup Refreshes
    /\ refreshErr \in [of: {None} \cup Refreshes, result: Results]
    /\ signalled \subseteq Refreshes /\ handles \subseteq Refreshes
    /\ index \in {None} \cup Refreshes /\ newIndex \in {None} \cup Refreshes
    /\ outcome \in [Refreshes -> {"none"} \cup Results]
    /\ place \in [Callers \cup Closers -> CallerPC \cup CloserPC]
    /\ waits \in [Callers \cup Closers -> {None} \cup Refreshes]
    /\ answer \in [Callers -> [asked: {None} \cup Refreshes,
                               of: {None} \cup Refreshes, result: Results]]

FlightInit ==
    /\ refreshing = FALSE /\ closed = FALSE /\ loaded = FALSE
    /\ refreshDone = None
    /\ refreshErr = [of |-> None, result |-> "nil"]
    /\ signalled = {} /\ handles = {}
    /\ index = None /\ newIndex = None
    /\ outcome = [n \in Refreshes |-> "none"]
    /\ place = [p \in Callers \cup Closers |-> IF p \in Callers THEN "idle" ELSE "open"]
    /\ waits = [p \in Callers \cup Closers |-> None]
    /\ answer = [c \in Callers |-> [asked |-> None, of |-> None, result |-> "nil"]]

At(p, from, to) == place[p] = from /\ place' = [place EXCEPT ![p] = to]
-----------------------------------------------------------------------------
(* RefreshDataCache.  A call on a closed cache returns ErrClosed at once.  *)

\* Join the refresh in flight.
Join(c) ==
    /\ ~closed /\ refreshing
    /\ At(c, "idle", "wait")
    /\ waits' = [waits EXCEPT ![c] = refreshDone]
    /\ UNCHANGED <<refreshing, closed, refreshDone, refreshErr, signalled,
                   index, loaded, handles, newIndex, outcome, answer>>

\* Mutant: the flag was looked at before the lock was taken.
LeadRegardless(c) ==
    /\ ~closed
    /\ refreshDone < MaxRefreshes
    /\ At(c, "idle", "load")
    /\ refreshing' = TRUE /\ refreshDone' = refreshDone + 1
    /\ UNCHANGED <<closed, refreshErr, signalled, index, loaded, handles,
                   newIndex, outcome, waits, answer>>

\* Become the one that refreshes.
Lead(c) ==
    /\ ~closed /\ ~refreshing
    /\ refreshDone < MaxRefreshes
    /\ At(c, "idle", "load")
    /\ refreshing' = TRUE /\ refreshDone' = refreshDone + 1
    /\ UNCHANGED <<closed, refreshErr, signalled, index, loaded, handles,
                   newIndex, outcome, waits, answer>>

Panicked == {n \in Refreshes : outcome[n] = "panic"}

\* doRefresh up to the swap: an error, a panic with or without the new index
\* open, the live index kept, or a new one.
Load(c) ==
    /\ \/ /\ At(c, "load", "leave")
          /\ outcome' = [outcome EXCEPT ![refreshDone] = "error"]
          /\ UNCHANGED <<handles, newIndex>>
       \/ /\ Panicked = {} /\ MaxPanics > 0
          /\ At(c, "load", "leave")
          /\ outcome' = [outcome EXCEPT ![refreshDone] = "panic"]
          /\ handles' \in {handles, handles \cup {refreshDone}}
          /\ UNCHANGED newIndex
       \/ /\ index # None
          /\ At(c, "load", "swap")
          /\ newIndex' = index
          /\ UNCHANGED <<outcome, handles>>
       \/ /\ At(c, "load", "swap")
          /\ newIndex' = refreshDone
          /\ handles' = handles \cup {refreshDone}
          /\ UNCHANGED outcome
    /\ UNCHANGED <<refreshing, closed, refreshDone, refreshErr, signalled,
                   index, loaded, waits, answer>>

\* Mutant: the replaced index is left for the garbage collector.
SwapKeepsOldOpen(c) ==
    /\ At(c, "swap", "leave")
    /\ index' = newIndex /\ loaded' = TRUE /\ newIndex' = None
    /\ outcome' = [outcome EXCEPT ![refreshDone] = "nil"]
    /\ UNCHANGED <<refreshing, closed, refreshDone, refreshErr, signalled, handles, waits, answer>>

\* The swap, and the close of the index it replaced.
SwapIndex(c) ==
    /\ At(c, "swap", "leave")
    /\ index' = newIndex /\ loaded' = TRUE /\ newIndex' = None
    /\ handles' = IF newIndex = index THEN handles ELSE handles \ {index}
    /\ outcome' = [outcome EXCEPT ![refreshDone] = "nil"]
    /\ UNCHANGED <<refreshing, closed, refreshDone, refreshErr, signalled, waits, answer>>

\* Mutant: the channel is closed before the result is stored.
SignalThenStore(c) ==
    /\ At(c, "leave", "signal")
    /\ signalled' = signalled \cup {refreshDone}
    /\ refreshing' = FALSE
    /\ waits' = [waits EXCEPT ![c] = refreshDone]
    /\ answer' = [answer EXCEPT ![c] = [asked |-> refreshDone, of |-> refreshDone,
                                        result |-> outcome[refreshDone]]]
    /\ UNCHANGED <<closed, refreshDone, refreshErr, index, loaded, handles, newIndex, outcome>>

\* The deferred critical section.  err is still nil if doRefresh panicked.
Store(c) ==
    /\ At(c, "leave", "signal")
    /\ refreshErr' = [of |-> refreshDone,
                      result |-> IF outcome[refreshDone] = "error" THEN "error" ELSE "nil"]
    /\ refreshing' = FALSE
    /\ waits' = [waits EXCEPT ![c] = refreshDone]
    /\ answer' = [answer EXCEPT ![c] = [asked |-> refreshDone, of |-> refreshDone,
                                        result |-> outcome[refreshDone]]]
    /\ UNCHANGED <<closed, refreshDone, signalled, index, loaded, handles, newIndex, outcome>>

\* Mutant: the channel is closed by an ordinary statement, not a deferred one.
SignalUnlessPanic(c) ==
    /\ At(c, "signal", "idle")
    /\ signalled' = IF outcome[waits[c]] = "panic" THEN signalled ELSE signalled \cup {waits[c]}
    /\ waits' = [waits EXCEPT ![c] = None]
    /\ UNCHANGED <<refreshing, closed, refreshDone, refreshErr, index, loaded,
                   handles, newIndex, outcome, answer>>

\* close(done), outside the lock: another refresh may have begun.
Signal(c) ==
    /\ At(c, "signal", "idle")
    /\ signalled' = signalled \cup {waits[c]}
    /\ waits' = [waits EXCEPT ![c] = None]
    /\ UNCHANGED <<refreshing, closed, refreshDone, refreshErr, index, loaded,
                   handles, newIndex, outcome, answer>>

\* <-done returns.
Wake(c) ==
    /\ waits[c] \in signalled
    /\ At(c, "wait", "read")
    /\ UNCHANGED <<refreshing, closed, refreshDone, refreshErr, signalled,
                   index, loaded, handles, newIndex, outcome, waits, answer>>

\* The waiter takes the lock again and returns whatever is stored now.
ReadErr(c) ==
    /\ At(c, "read", "idle")
    /\ answer' = [answer EXCEPT ![c] = [asked |-> waits[c], of |-> refreshErr.of,
                                        result |-> refreshErr.result]]
    /\ waits' = [waits EXCEPT ![c] = None]
    /\ UNCHANGED <<refreshing, closed, refreshDone, refreshErr, signalled,
                   index, loaded, handles, newIndex, outcome>>
-----------------------------------------------------------------------------
(* Close.                                                                  *)

\* Mutant: closed is not set until the refresh in flight has been waited for.
CloseWithoutBarring(k) ==
    /\ At(k, "open", "closing")
    /\ waits' = [waits EXCEPT ![k] = IF refreshing THEN refreshDone ELSE None]
    /\ UNCHANGED <<closed, refreshing, refreshDone, refreshErr, signalled, index,
                   loaded, handles, newIndex, outcome, answer>>

CloseBegin(k) ==
    /\ At(k, "open", "closing")
    /\ closed' = TRUE
    /\ waits' = [waits EXCEPT ![k] = IF refreshing THEN refreshDone ELSE None]
    /\ UNCHANGED <<refreshing, refreshDone, refreshErr, signalled, index,
                   loaded, handles, newIndex, outcome, answer>>

\* The refresh waited for is over.  The asset list is left in place.
CloseIndex(k) ==
    /\ waits[k] \in signalled \cup {None}
    /\ At(k, "closing", "closed")
    /\ index' = None /\ handles' = handles \ {index}
    /\ waits' = [waits EXCEPT ![k] = None]
    /\ UNCHANGED <<refreshing, closed, refreshDone, refreshErr, signalled,
                   loaded, newIndex, outcome, answer>>

CallerStep(c) ==
    \/ Load(c) \/ SwapIndex(c) \/ Store(c) \/ Signal(c) \/ Wake(c) \/ ReadErr(c)

FlightNext ==
    \/ \E c \in Callers : Join(c) \/ Lead(c) \/ CallerStep(c)
    \/ \E k \in Closers : CloseBegin(k) \/ CloseIndex(k)

FlightSpec == FlightInit /\ [][FlightNext]_flightVars

\* A goroutine that can run goes on; nobody has to call RefreshDataCache or
\* Close.
FairFlight ==
    /\ FlightSpec
    /\ \A c \in Callers : WF_flightVars(CallerStep(c))
    /\ \A k \in Closers : WF_flightVars(CloseIndex(k))
-----------------------------------------------------------------------------
(* Properties.                                                             *)

Running(c) == place[c] \in {"load", "swap", "leave"}

\* The flag is the refresh: there is at most one, and never one nobody is
\* running, however it ends (a stuck flag would block every later caller).
OneRefresh ==
    /\ refreshing <=> \E c \in Callers : Running(c)
    /\ \A c, d \in Callers : Running(c) /\ Running(d) => c = d

\* cache.go:332-335: once a Close has returned no refresh is running and none
\* will ever open an index again, whatever was in flight when it was called.
ClosedForGood ==
    (\E k \in Closers : place[k] = "closed") =>
        index = None /\ ~refreshing /\ handles \subseteq Panicked

\* Every index opened is closed when it is replaced or the cache is closed;
\* only a panic between the open and the swap leaks one.
NoHandleLeaks == handles \subseteq {index, newIndex} \cup Panicked

\* A waiter never gets the result of a refresh older than the one it joined.
AnswerNotOlder == \A c \in Callers : answer[c].asked <= answer[c].of

\* Whoever waits on a refresh's channel, a caller or a Close, is released.
NobodyWaitsForever ==
    \A p \in Callers \cup Closers : waits[p] # None ~> waits[p] = None

\* cache.go:293-295: concurrent callers "all observe its result" - that of the
\* refresh they joined.
ObservesItsRefresh ==
    \A c \in Callers : answer[c].asked # None =>
        answer[c].result = outcome[answer[c].asked]

\* What the front page does: browse looks at the asset list only.
FindAnswers == loaded

\* cache.go:334-335: after Close, "Find returns ErrNotReady".
ClosedFindsNothing == (\E k \in Closers : place[k] = "closed") => ~FindAnswers
==============================================================================
