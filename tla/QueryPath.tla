------------------------------ MODULE QueryPath ------------------------------
(***************************************************************************)
(* Text searches under the cache's read lock (internal/cache: searchIndex  *)
(* in search.go, hitCache in hitcache.go) while refreshes swap the dataset *)
(* under the write lock (doRefresh in cache.go).  An answer is made of     *)
(* positions in the asset list, so an entry is only good for the list it   *)
(* was computed against: an entry is modelled by that list's number.       *)
(*                                                                         *)
(* A request runs once, and its name also names the fill it may start.     *)
(***************************************************************************)
EXTENDS Naturals, Sequences, FiniteSets, SequencesExt

CONSTANTS
    Requests,     \* requests for text searches, each made once
    Keys,         \* hit cache keys: searches that differ in more than the page
    MaxEntries,   \* hitCache.max
    MaxDatasets,  \* bound: refreshes that load another list
    None          \* no request, no key

ASSUME QueryBounds ==
    /\ MaxEntries \in Nat \ {0} /\ MaxDatasets \in Nat
    /\ None \notin Requests \cup Keys

VARIABLES
    dataset,  \* c.data, c.dataMap: the number of the loaded list, 0 for none
    index,    \* c.index, by the number of the list it was opened for
    open,     \* indexes open in this process
    refresh,  \* where the refresh is: at rest, in wait for the lock, closing
              \* the old index
    reuse,    \* it keeps the open index
    oldIndex, \* its local: the index to close after the swap
    readers,  \* requests that hold cacheLock for reading
    gen,      \* hitCache.gen
    ll,       \* hitCache.ll, keys from most to least recently used
    items,    \* hitCache.items: the entry of each key in the cache
    flights,  \* hitCache.flights: who fills each key
    flight,   \* each request's own flight, if it has one
    req       \* each request: where it is, what it looks for, the index it is
              \* searching, whose flight it waits for, the entry it got

loaded == <<dataset, index, open>>
refresher == <<refresh, reuse, oldIndex>>
hits == <<gen, ll, items, flights, flight>>
vars == <<loaded, refresher, readers, hits, req>>

Datasets == 0..MaxDatasets
Nothing == 0

TypeOK ==
    /\ dataset \in Datasets /\ index \in Datasets /\ open \subseteq Datasets
    /\ refresh \in {"rest", "lock", "close"}
    /\ reuse \in BOOLEAN /\ oldIndex \in Datasets
    /\ readers \subseteq Requests
    /\ gen \in Datasets
    /\ ll \in Seq(Keys) /\ Len(ll) <= MaxEntries
    /\ DOMAIN items \subseteq Keys /\ Range(items) \subseteq Datasets
    /\ flights \in [Keys -> Requests \cup {None}]
    /\ flight \in [Requests -> [of: Datasets, gen: Datasets, done: BOOLEAN,
                                how: {"running", "ok", "error", "panic"}]]
    /\ req \in [Requests ->
                  [pc: {"new", "lock", "look", "search", "fill", "store",
                        "signal", "wait", "answer", "end"},
                   key: Keys \cup {None}, reading: Datasets,
                   waits: Requests \cup {None}, entry: Datasets]]

Fresh == [pc |-> "new", key |-> None, reading |-> 0, waits |-> None,
          entry |-> Nothing]

Init ==
    /\ dataset = 0 /\ index = 0 /\ open = {}
    /\ refresh = "rest" /\ reuse = FALSE /\ oldIndex = 0
    /\ readers = {}
    /\ gen = 0 /\ ll = <<>> /\ items = <<>>
    /\ flights = [k \in Keys |-> None]
    /\ flight = [r \in Requests |-> [of |-> Nothing, gen |-> 0, done |-> FALSE,
                                     how |-> "running"]]
    /\ req = [r \in Requests |-> Fresh]

At(r, pc) == req[r].pc = pc
Cached(r) == req[r].key \in DOMAIN items
Cacheable(r) == req[r].key # None
-----------------------------------------------------------------------------
(* A request for a page of a search.                                       *)
Arrive(r) ==
    /\ At(r, "new")
    /\ req' = [req EXCEPT ![r].pc = "lock"]
    /\ UNCHANGED <<loaded, refresher, readers, hits>>

(* cacheLock.RLock, which a writer in wait holds up as well.  A request that
   finds nothing loaded ends with ErrNotReady.  A page beyond the cache's
   depth, or a capped request, has no key: it is not cacheable
   (hitCacheable, hitCacheDepth).                                          *)
RLock(r) ==
    /\ At(r, "lock") /\ refresh # "lock"
    /\ IF dataset = 0
         THEN /\ req' = [req EXCEPT ![r].pc = "end"]
              /\ UNCHANGED readers
         ELSE /\ \E k \in Keys \cup {None} :
                   req' = [req EXCEPT ![r].pc = "look", ![r].key = k]
              /\ readers' = readers \cup {r}
    /\ UNCHANGED <<loaded, refresher, hits>>

(* What is not cacheable searches the index for itself.                    *)
SearchDirectly(r) ==
    /\ At(r, "look") /\ ~Cacheable(r)
    /\ req' = [req EXCEPT ![r].pc = "search", ![r].reading = index]
    /\ UNCHANGED <<loaded, refresher, readers, hits>>

(* The search ends, its hits resolved against the loaded list, or fails.   *)
EndSearch(r) ==
    /\ At(r, "search")
    /\ \E e \in {dataset, Nothing} :
         req' = [req EXCEPT ![r].pc = "answer", ![r].reading = 0,
                            ![r].entry = e]
    /\ UNCHANGED <<loaded, refresher, readers, hits>>
-----------------------------------------------------------------------------
MoveToFront(list, i) == <<list[i]>> \o RemoveAt(list, i)

(* get finds the key.                                                      *)
Hit(r) ==
    /\ At(r, "look") /\ Cached(r)
    /\ \E i \in DOMAIN ll : ll[i] = req[r].key /\ ll' = MoveToFront(ll, i)
    /\ req' = [req EXCEPT ![r].pc = "answer", ![r].entry = items[req[r].key]]
    /\ UNCHANGED <<loaded, refresher, readers, gen, items, flights, flight>>

(* get finds a fill of the key under way.                                  *)
Join(r) ==
    /\ At(r, "look") /\ Cacheable(r) /\ ~Cached(r)
    /\ flights[req[r].key] # None
    /\ req' = [req EXCEPT ![r].pc = "wait", ![r].waits = flights[req[r].key]]
    /\ UNCHANGED <<loaded, refresher, readers, hits>>

(* get starts a fill, which searches the index for the whole depth.        *)
Lead(r) ==
    /\ At(r, "look") /\ Cacheable(r) /\ ~Cached(r)
    /\ flights[req[r].key] = None
    /\ flights' = [flights EXCEPT ![req[r].key] = r]
    /\ flight' = [flight EXCEPT ![r].gen = gen]
    /\ req' = [req EXCEPT ![r].pc = "fill", ![r].reading = index]
    /\ UNCHANGED <<loaded, refresher, readers, gen, ll, items>>

(* The fill ends with an entry for the loaded list, fails or panics.       *)
Fill(r) ==
    /\ At(r, "fill")
    /\ \E how \in {"ok", "error", "panic"} :
         flight' = [flight EXCEPT ![r].how = how,
                                  ![r].of = IF how = "ok" THEN dataset ELSE Nothing]
    /\ req' = [req EXCEPT ![r].pc = "store", ![r].reading = 0]
    /\ UNCHANGED <<loaded, refresher, readers, gen, ll, items, flights>>

\* Mutant: makes room before it adds, so the list ends one too long.
KeepOneMore(list) ==
    IF Len(list) > MaxEntries + 1 THEN Front(list) ELSE list

(* The loop that removes the list's back while it is too long; it was not
   before one key was added.                                               *)
Evict(list) == IF Len(list) > MaxEntries THEN Front(list) ELSE list

(* The deferred critical section of get, after a panic too: the flight is
   over, and its entry kept if it has one and no reset came in between.    *)
Store(r) ==
    LET k == req[r].key
        kept == flight[r].how = "ok" /\ flight[r].gen = gen
        list == Evict(<<k>> \o ll)
    IN  /\ At(r, "store")
        /\ flights' = IF flights[k] = r THEN [flights EXCEPT ![k] = None]
                                        ELSE flights
        /\ ll' = IF kept THEN list ELSE ll
        /\ items' = IF kept THEN [j \in ToSet(list) |->
                                    IF j = k THEN flight[r].of ELSE items[j]]
                            ELSE items
        /\ flight' = [flight EXCEPT ![r].gen = 0]
        /\ req' = [req EXCEPT ![r].pc = "signal"]
        /\ UNCHANGED <<loaded, refresher, readers, gen>>

\* Mutant: a panic passes by the code after the fill.
SignalUnlessPanic(r) ==
    /\ At(r, "signal")
    /\ flight' = [flight EXCEPT ![r].done = (flight[r].how # "panic")]
    /\ req' = [req EXCEPT ![r].pc = "answer", ![r].entry = flight[r].of]
    /\ UNCHANGED <<loaded, refresher, readers, gen, ll, items, flights>>

(* close(done); the panic, if there was one, then runs on to the handler.  *)
Signal(r) ==
    /\ At(r, "signal")
    /\ flight' = [flight EXCEPT ![r].done = TRUE]
    /\ req' = [req EXCEPT ![r].pc = "answer", ![r].entry = flight[r].of]
    /\ UNCHANGED <<loaded, refresher, readers, gen, ll, items, flights>>

(* A waiter shares the flight's outcome.  That of a panic is no entry and no
   error, which the waiter dereferences: it panics as well.                *)
Wake(r) ==
    /\ At(r, "wait") /\ flight[req[r].waits].done
    /\ req' = [req EXCEPT ![r].pc = "answer", ![r].waits = None,
                          ![r].entry = flight[req[r].waits].of]
    /\ UNCHANGED <<loaded, refresher, readers, hits>>

(* The page is cut from the entry and the deferred RUnlock runs, after an
   error or a panic too.                                                   *)
Answer(r) ==
    /\ At(r, "answer")
    /\ readers' = readers \ {r}
    /\ req' = [req EXCEPT ![r] = [Fresh EXCEPT !.pc = "end"]]
    /\ UNCHANGED <<loaded, refresher, hits>>
-----------------------------------------------------------------------------
(* doRefresh has loaded another list and opened its index, or kept the open
   one if that is still the published one, and calls cacheLock.Lock.       *)
LoadNext ==
    /\ refresh = "rest" /\ dataset < MaxDatasets
    /\ reuse' \in (IF index = 0 THEN {FALSE} ELSE BOOLEAN)
    /\ open' = IF reuse' THEN open ELSE open \cup {dataset + 1}
    /\ refresh' = "lock"
    /\ UNCHANGED <<dataset, index, oldIndex, readers, hits, req>>

\* Mutant: the swap leaves the hit cache alone.
SwapWithoutReset ==
    /\ refresh = "lock" /\ readers = {}
    /\ dataset' = dataset + 1
    /\ index' = IF reuse THEN index ELSE dataset + 1
    /\ oldIndex' = IF reuse THEN 0 ELSE index
    /\ refresh' = "close"
    /\ UNCHANGED <<open, reuse, readers, hits, req>>

\* Mutant: the swap takes the lock for reading.
SwapAmongReaders ==
    /\ refresh = "lock"
    /\ dataset' = dataset + 1
    /\ index' = IF reuse THEN index ELSE dataset + 1
    /\ oldIndex' = IF reuse THEN 0 ELSE index
    /\ gen' = gen + 1 /\ ll' = <<>> /\ items' = <<>>
    /\ refresh' = "close"
    /\ UNCHANGED <<open, reuse, readers, flights, flight, req>>

(* The write lock is held: the dataset is swapped, the hit cache reset.  The
   flights are not touched.                                                *)
Swap ==
    /\ refresh = "lock" /\ readers = {}
    /\ dataset' = dataset + 1
    /\ index' = IF reuse THEN index ELSE dataset + 1
    /\ oldIndex' = IF reuse THEN 0 ELSE index
    /\ gen' = gen + 1 /\ ll' = <<>> /\ items' = <<>>
    /\ refresh' = "close"
    /\ UNCHANGED <<open, reuse, readers, flights, flight, req>>

(* The old index is closed outside the lock.                               *)
CloseOld ==
    /\ refresh = "close"
    /\ open' = open \ {oldIndex}
    /\ oldIndex' = 0 /\ refresh' = "rest"
    /\ UNCHANGED <<dataset, index, reuse, readers, hits, req>>

Step(r) ==
    \/ RLock(r) \/ SearchDirectly(r) \/ EndSearch(r) \/ Hit(r) \/ Join(r)
    \/ Lead(r) \/ Fill(r) \/ Store(r) \/ Signal(r) \/ Wake(r) \/ Answer(r)

RefreshStep == Swap \/ CloseOld

Next == LoadNext \/ RefreshStep \/ \E r \in Requests : Arrive(r) \/ Step(r)

Spec == Init /\ [][Next]_vars

(* Goroutines are scheduled, searches return, and an RWMutex lets the
   readers in that wait when a writer leaves.  Nothing makes requests
   arrive or refreshes start.                                              *)
Fairness == WF_vars(RefreshStep) /\ \A r \in Requests : WF_vars(Step(r))

FairSpec == Spec /\ Fairness
-----------------------------------------------------------------------------
(* The hit cache's parts agree: list and map hold the same keys, once each
   and no more than max; every entry is one of the loaded list; and only
   the request in charge of a key's flight is filling it (hitCache's single
   flight and generations).                                                *)
HitCacheInv ==
    /\ ToSet(ll) = DOMAIN items /\ IsInjective(ll) /\ Len(ll) <= MaxEntries
    /\ \A k \in DOMAIN items : items[k] = dataset
    /\ \A r \in Requests :
         At(r, "fill") \/ At(r, "store") => flights[req[r].key] = r

(* A page is never cut out of another list than the one its positions are
   for, whether it comes from a search, the cache or another's fill
   (searchIndex reads c.data[p] for the entry's positions).                *)
AnswerOfServed ==
    \A r \in Requests :
      At(r, "answer") => req[r].entry \in {dataset, Nothing}

(* No search runs on an index that has been closed (doRefresh closes the old
   index after it has released the lock).                                  *)
NoSearchOnClosed ==
    \A r \in Requests : req[r].reading # 0 => req[r].reading \in open

(* Requests end, and so do refreshes that want the lock, whichever fills
   fail or panic: waiters hold the read lock while they wait for a fill,
   and a waiting writer keeps new readers out (get's deferred close).      *)
EverybodyGetsOn ==
    /\ \A r \in Requests : At(r, "lock") ~> At(r, "end")
    /\ refresh = "lock" ~> refresh = "rest"
=============================================================================
