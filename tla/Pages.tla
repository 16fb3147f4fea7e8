-------------------------------- MODULE Pages --------------------------------
(***************************************************************************)
(* Pages as caches keep them: how a request is assembled from several      *)
(* reads of the loaded dataset, stamped with Last-Modified, kept by a      *)
(* client, and confirmed later with a 304 (internal/web/handlers.go).      *)
(*                                                                         *)
(* A dataset is named by the second it was published in, a release by the  *)
(* second its process began serving in; every publish and every start has  *)
(* a second of its own.  Of a page only the datasets it was put together   *)
(* from are kept.  The loading of a dataset is module CacheRefresh's; here *)
(* it is one step of the request that finds the loaded one stale, and one  *)
(* that fails leaves what a throttled check leaves.                        *)
(***************************************************************************)
EXTENDS Naturals, FiniteSets

CONSTANTS
    FirstPages, LaterPages, Shells,  \* clients, by what each of them looks at
    MaxPublishes,  \* bound: datasets published
    MaxDeploys     \* bound: restarts of the webserver

\* Each keeps one page and has one request under way: the first page of some
\* results, a later one, or a page without results (/about, /saved).
Clients == FirstPages \cup LaterPages \cup Shells

ASSUME PageBounds == {MaxPublishes, MaxDeploys} \subseteq Nat

VARIABLES
    clock,      \* the last second in which something was published or started
    published,  \* the modification time of assets.json, 0 without one
    loaded,     \* DataUpdatedTime: the dataset in memory, 0 for none
    proc,       \* the process is loading, has loaded, or is up
    started,    \* handler.started
    throttled,  \* storage was looked at less than expiryCheckTTL ago
    req,        \* each client's request
    copy,       \* each client's stored page
    publishes, deploys

server == <<loaded, proc, started, throttled>>
bounds == <<publishes, deploys>>
vars == <<clock, published, server, req, copy, bounds>>

Idle == [pc |-> "idle", parts |-> {}, stamp |-> 0, brief |-> FALSE]
NoCopy == [parts |-> {}, stamp |-> 0, brief |-> FALSE, release |-> 0]

Seconds == 0..(1 + MaxPublishes + MaxDeploys)

TypeOK ==
    /\ clock \in Seconds /\ published \in 0..clock /\ loaded \in 0..published
    /\ proc \in {"load", "loaded", "up"} /\ started \in 0..clock
    /\ throttled \in BOOLEAN
    /\ req \in [Clients ->
          [pc: {"idle", "revalidate", "compare", "confirm", "find", "flags", "query",
                "shape", "stamp", "frame"},
           parts: SUBSET Seconds, stamp: Seconds, brief: BOOLEAN]]
    /\ copy \in [Clients ->
          [parts: SUBSET Seconds, stamp: Seconds, brief: BOOLEAN, release: Seconds]]
    /\ publishes \in 0..MaxPublishes /\ deploys \in 0..MaxDeploys
    /\ clock <= 1 + publishes + deploys

Init ==
    /\ clock = 0 /\ published = 0
    /\ loaded = 0 /\ proc = "load" /\ started = 0 /\ throttled = FALSE
    /\ req = [c \in Clients |-> Idle]
    /\ copy = [c \in Clients |-> NoCopy]
    /\ publishes = 0 /\ deploys = 0
-----------------------------------------------------------------------------
(* The dataservice and the process.                                        *)

Publish ==
    /\ publishes < MaxPublishes
    /\ publishes' = publishes + 1
    /\ clock' = clock + 1 /\ published' = clock'
    /\ UNCHANGED <<server, req, copy, deploys>>

\* initializeCache: one load before anything is served; it may fail.
InitialLoad ==
    /\ proc = "load"
    /\ proc' = "loaded"
    /\ loaded' \in {0, published}
    /\ UNCHANGED <<clock, published, started, throttled, req, copy, bounds>>

\* NewHandler takes the time after that load.
StartServing ==
    /\ proc = "loaded"
    /\ proc' = "up"
    /\ clock' = clock + 1 /\ started' = clock'
    /\ UNCHANGED <<published, loaded, throttled, req, copy, bounds>>

\* A new release replaces the process; its requests end without an answer.
Deploy ==
    /\ proc = "up" /\ deploys < MaxDeploys
    /\ deploys' = deploys + 1
    /\ proc' = "load" /\ loaded' = 0 /\ started' = 0 /\ throttled' = FALSE
    /\ req' = [c \in Clients |-> Idle]
    /\ UNCHANGED <<clock, published, copy, publishes>>

ThrottleElapses ==
    /\ throttled
    /\ throttled' = FALSE
    /\ UNCHANGED <<clock, published, loaded, proc, started, req, copy, bounds>>

\* After a failure it goes on trying in the background.
RetryLoad ==
    /\ proc \in {"loaded", "up"} /\ loaded = 0 /\ published # 0
    /\ loaded' = published
    /\ UNCHANGED <<clock, published, proc, started, throttled, req, copy, bounds>>

\* EnsureFresh, called by a request.  A cold cache is expired whatever the
\* throttle says.
EnsureFresh ==
    /\ loaded' = IF loaded = 0 \/ ~throttled THEN published ELSE loaded
    /\ throttled' = (loaded # 0 \/ throttled)
-----------------------------------------------------------------------------
(* A request.                                                              *)

\* Mutant: the data time alone.
DataTimeOnly == loaded

\* lastModified.
LastModified == IF loaded = 0 THEN 0 ELSE IF started > loaded THEN started ELSE loaded

Go(c, pc) == req' = [req EXCEPT ![c].pc = pc]
See(c, pc) == req' = [req EXCEPT ![c].pc = pc, ![c].parts = @ \cup {loaded}]
Look == UNCHANGED <<clock, published, server, copy, bounds>>

\* What a request that gets no 304 begins with.
Work(c) == IF c \in Shells THEN "stamp" ELSE "find"

\* A client asks for its page, once it has a copy with If-Modified-Since if the copy is stamped.
Ask(c) ==
    /\ proc = "up" /\ req[c].pc = "idle"
    /\ Go(c, IF copy[c].stamp # 0 THEN "revalidate" ELSE Work(c))
    /\ Look

\* Mutant: a conditional request is answered from what is loaded.
CompareAtOnce(c) ==
    /\ req[c].pc = "revalidate"
    /\ Go(c, "compare")
    /\ Look

\* notModified brings the cache up to date,
Revalidate(c) ==
    /\ req[c].pc = "revalidate"
    /\ EnsureFresh
    /\ Go(c, "compare")
    /\ UNCHANGED <<clock, published, proc, started, copy, bounds>>

\* compares,
Compare(c) ==
    /\ req[c].pc = "compare"
    /\ Go(c, IF LastModified # 0 /\ LastModified <= copy[c].stamp THEN "confirm"
             ELSE Work(c))
    /\ Look

\* and answers 304.  The header it sends is read anew, and the client keeps it.
\* Every page past the first is confirmed for the short time only.
Confirm(c) ==
    /\ req[c].pc = "confirm"
    /\ copy' = [copy EXCEPT ![c].stamp = LastModified, ![c].brief = c \in LaterPages]
    /\ req' = [req EXCEPT ![c] = Idle]
    /\ UNCHANGED <<clock, published, server, bounds>>

\* Find,
FindFresh(c) ==
    /\ req[c].pc = "find"
    /\ EnsureFresh
    /\ Go(c, "flags")
    /\ UNCHANGED <<clock, published, proc, started, copy, bounds>>

\* which looks at HasRecency and HasPriceBands before it takes the lock
ReadFlags(c) == req[c].pc = "flags" /\ See(c, "query") /\ Look

\* for the query itself.  Nothing loaded: a 503 that nobody keeps.  A later
\* page may turn out to be past the end.
Query(c) ==
    /\ req[c].pc = "query"
    /\ IF loaded = 0
         THEN req' = [req EXCEPT ![c] = Idle]
         ELSE \E end \in IF c \in LaterPages THEN BOOLEAN ELSE {FALSE} :
                req' = [req EXCEPT ![c].pc = "shape", ![c].parts = @ \cup {loaded}, ![c].brief = end]
    /\ Look

\* handler.find adds the rates, the generation, the flags.
Shape(c) == req[c].pc = "shape" /\ See(c, "stamp") /\ Look

\* cacheable: the header is written before the page.
Stamp(c) ==
    /\ req[c].pc = "stamp"
    /\ req' = [req EXCEPT ![c].pc = "frame", ![c].stamp = LastModified]
    /\ Look

\* The page's frame says how old the data is and how complete.
Frame(c) ==
    /\ req[c].pc = "frame"
    /\ copy' = [copy EXCEPT ![c] =
          [parts |-> req[c].parts \cup {loaded}, stamp |-> req[c].stamp,
           brief |-> req[c].brief, release |-> started]]
    /\ req' = [req EXCEPT ![c] = Idle]
    /\ UNCHANGED <<clock, published, server, bounds>>

Serve(c) ==
    \/ Revalidate(c) \/ Compare(c) \/ Confirm(c) \/ FindFresh(c) \/ ReadFlags(c)
    \/ Query(c) \/ Shape(c) \/ Stamp(c) \/ Frame(c)

Next ==
    \/ Publish \/ InitialLoad \/ RetryLoad \/ StartServing \/ Deploy \/ ThrottleElapses
    \/ \E c \in Clients : Ask(c) \/ Serve(c)

Spec == Init /\ [][Next]_vars

\* The process starts and retries its load, requests are served, the throttle
\* runs out, and the clients go on asking.
Fairness ==
    /\ WF_vars(InitialLoad \/ StartServing) /\ WF_vars(RetryLoad) /\ WF_vars(ThrottleElapses)
    /\ \A c \in Clients : WF_vars(Ask(c)) /\ WF_vars(Serve(c))

FairSpec == Spec /\ Fairness
-----------------------------------------------------------------------------
(* Properties.                                                             *)

\* A page put together from one dataset and stamped for it.
OfOne(k) ==
    \E d \in k.parts : d # 0 /\ k.parts = {d} /\ k.stamp = IF k.release > d THEN k.release ELSE d

\* The process has data that was published before it began to serve: then the
\* time of its start stands for more than one dataset.
StartCovers(d) == d <= started

Confirms(c) == req[c].pc = "compare" /\ req'[c].pc = "confirm"

\* notModified: a 304 confirms a page of the release that is running and of the
\* dataset that is loaded, unless the page is a mixture of two datasets, or
\* the newer one was published while the process was starting; and it never
\* allows a page past the end a longer life than its own answer did.
ConfirmationHonest ==
    [][\A c \in Clients :
         /\ Confirms(c) /\ OfOne(copy[c]) =>
              /\ copy[c].release = started
              /\ copy[c].parts = {loaded} \/ StartCovers(loaded)
         /\ copy[c].brief /\ req[c].pc = "confirm" => copy'[c].brief]_vars

\* notModified's reason for EnsureFresh: a publish reaches every client that
\* goes on asking, even if all it ever sends is conditional requests.
PublishReachesClients ==
    \A g \in Seconds \ {0} :
        published = g ~>
            \A c \in Clients :
                \/ ~OfOne(copy[c])
                \/ \E d \in copy[c].parts : d >= g
                \/ copy[c].release = started /\ StartCovers(g)

\* What notModified's comment says: "a client whose copy is at least that new
\* has the current page".
ConfirmedIsCurrent ==
    [][\A c \in Clients : Confirms(c) => copy[c].parts = {loaded}]_vars
==============================================================================
