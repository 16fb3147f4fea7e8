----------------------------- MODULE Pages_proofs -----------------------------
(***************************************************************************)
(* What visitors are shown, and what the pages they keep are worth.        *)
(*                                                                         *)
(* First ConfirmationHonest, for any number of clients, publishes and      *)
(* releases.  The argument: within one process the loaded dataset only     *)
(* gets newer, so a page is never made of a newer one than is loaded; and  *)
(* every second a process begins to serve in is later than all that its    *)
(* predecessors' pages were made of.                                       *)
(*                                                                         *)
(* Then the sessions of module Queries, for any datasets and any addresses *)
(* typed: links mean what they say, the sidebar's counts are kept, the     *)
(* three ways to an answer agree, and the pages of a search put together   *)
(* are all of it.  What single requests are answered with is in module     *)
(* Search_proofs.                                                          *)
(***************************************************************************)
EXTENDS Pages, Search_proofs

\* The types, as far as the argument needs them.
Typed ==
    /\ clock \in Nat /\ published \in Nat /\ loaded \in Nat /\ started \in Nat
    /\ proc \in {"load", "loaded", "up"}
    /\ req \in [Clients ->
          [pc: {"idle", "revalidate", "compare", "confirm", "find", "flags", "query",
                "shape", "stamp", "frame"},
           parts: SUBSET Nat, stamp: Nat, brief: BOOLEAN]]
    /\ copy \in [Clients -> [parts: SUBSET Nat, stamp: Nat, brief: BOOLEAN, release: Nat]]

\* Seconds are used up in order.
Chronological ==
    /\ loaded <= published /\ published <= clock /\ started <= clock
    /\ \A c \in Clients : copy[c].release <= clock /\ \A p \in copy[c].parts : p <= clock

\* A request is made of what this process has loaded, and there is none before
\* the process serves.
RequestIsOfThisProcess(c) ==
    /\ \A p \in req[c].parts : p <= loaded
    /\ proc # "up" => req[c].pc = "idle" /\ req[c].parts = {}

\* A page of this process is made of nothing newer than what is loaded, one of
\* an earlier process of nothing as new as this one's start.
PageIsOfItsTime(c) ==
    proc = "up" =>
        /\ copy[c].release <= started
        /\ copy[c].release = started => \A p \in copy[c].parts : p <= loaded
        /\ copy[c].release < started => \A p \in copy[c].parts : p < started

OnlyLaterPagesEnd(c) == req[c].brief \/ copy[c].brief => c \in LaterPages

PagesInv ==
    /\ Typed /\ Chronological
    /\ \A c \in Clients : RequestIsOfThisProcess(c) /\ PageIsOfItsTime(c) /\ OnlyLaterPagesEnd(c)

\* Before the first request nobody holds a page.
LEMMA PagesInit == Init => PagesInv
<1> SUFFICES ASSUME Init PROVE PagesInv
  OBVIOUS
<1>1. Typed
  BY DEF Init, Typed, Idle, NoCopy
<1>2. Chronological
  BY DEF Init, Chronological, NoCopy
<1>3. \A c \in Clients : RequestIsOfThisProcess(c) /\ PageIsOfItsTime(c) /\ OnlyLaterPagesEnd(c)
  BY DEF Init, RequestIsOfThisProcess, PageIsOfItsTime, OnlyLaterPagesEnd, Idle, NoCopy
<1> QED
  BY <1>1, <1>2, <1>3 DEF PagesInv

\* lastModified never runs ahead of the clock.
LEMMA StampIsPast ==
  ASSUME PagesInv
  PROVE  LastModified \in Nat /\ LastModified <= clock
BY DEF PagesInv, Typed, Chronological, LastModified
-----------------------------------------------------------------------------
(* The process and the dataservice.                                        *)

\* The invariant outlives a publish, a load, a deploy and the end of the throttle.
LEMMA ServerStep ==
  ASSUME PagesInv,
         Publish \/ InitialLoad \/ RetryLoad \/ StartServing \/ Deploy \/ ThrottleElapses
  PROVE  PagesInv'
<1> USE DEF PagesInv, server, bounds
<1>1. Typed'
  <2>1. CASE Publish
    BY <2>1 DEF Publish, Typed
  <2>2. CASE InitialLoad
    BY <2>2 DEF InitialLoad, Typed
  <2>3. CASE RetryLoad
    BY <2>3 DEF RetryLoad, Typed
  <2>4. CASE StartServing
    BY <2>4 DEF StartServing, Typed
  <2>5. CASE Deploy
    BY <2>5 DEF Deploy, Typed, Idle
  <2>6. CASE ThrottleElapses
    BY <2>6 DEF ThrottleElapses, Typed
  <2> QED
    BY <2>1, <2>2, <2>3, <2>4, <2>5, <2>6
<1>2. /\ copy' = copy /\ clock <= clock'
      /\ Chronological'
  <2>1. copy' = copy
    BY DEF Publish, InitialLoad, RetryLoad, StartServing, Deploy, ThrottleElapses
  <2>2. /\ clock' = clock \/ clock' = clock + 1
        /\ loaded' \in {loaded, 0, published} /\ published' \in {published, clock'}
        /\ started' \in {started, 0, clock'}
    BY DEF Publish, InitialLoad, RetryLoad, StartServing, Deploy, ThrottleElapses
  <2>3. clock <= clock'
    BY <2>2 DEF Typed
  <2>4. loaded' <= published' /\ published' <= clock' /\ started' <= clock'
    <3>1. published <= published'
      BY <2>2, <2>3 DEF Typed, Chronological
    <3> QED
      BY <2>2, <2>3, <3>1 DEF Typed, Chronological
  <2>5. ASSUME NEW c \in Clients
        PROVE  copy'[c].release <= clock' /\ \A p \in copy'[c].parts : p <= clock'
    BY <2>1, <2>3, <1>1 DEF Typed, Chronological
  <2> QED
    BY <2>1, <2>3, <2>4, <2>5 DEF Chronological
<1>3. ASSUME NEW c \in Clients PROVE RequestIsOfThisProcess(c)'
  <2>1. CASE req' = req /\ loaded <= loaded' /\ (proc' # "up" => proc # "up")
    BY <2>1, <1>1 DEF RequestIsOfThisProcess, Typed
  <2>2. CASE req' = [x \in Clients |-> Idle]
    BY <2>2 DEF RequestIsOfThisProcess, Idle
  <2>3. CASE InitialLoad
    BY <2>3 DEF RequestIsOfThisProcess, InitialLoad
  <2> QED
    BY <2>1, <2>2, <2>3 DEF Publish, RetryLoad, StartServing, Deploy, ThrottleElapses, Typed,
       Chronological
<1>4. ASSUME NEW c \in Clients PROVE PageIsOfItsTime(c)'
  <2>1. CASE StartServing
    <3>1. started' = clock + 1 /\ copy' = copy
      BY <2>1 DEF StartServing
    <3> QED
      BY <3>1 DEF PageIsOfItsTime, Typed, Chronological
  <2>2. CASE proc' # "up"
    BY <2>2 DEF PageIsOfItsTime
  <2>3. CASE proc' = proc /\ started' = started /\ copy' = copy /\ loaded <= loaded'
    BY <2>3, <1>1 DEF PageIsOfItsTime, Typed
  <2> QED
    BY <2>1, <2>2, <2>3 DEF Publish, InitialLoad, RetryLoad, Deploy, ThrottleElapses, Typed,
       Chronological
<1>5. ASSUME NEW c \in Clients PROVE OnlyLaterPagesEnd(c)'
  BY DEF Publish, InitialLoad, RetryLoad, StartServing, Deploy, ThrottleElapses,
     OnlyLaterPagesEnd, Idle
<1> QED
  BY <1>1, <1>2, <1>3, <1>4, <1>5
-----------------------------------------------------------------------------
(* A request.                                                              *)

Requests ==
    [pc: {"idle", "revalidate", "compare", "confirm", "find", "flags", "query", "shape",
          "stamp", "frame"},
     parts: SUBSET Nat, stamp: Nat, brief: BOOLEAN]
Copies == [parts: SUBSET Nat, stamp: Nat, brief: BOOLEAN, release: Nat]

\* A step of a request, as far as the argument goes: the loaded dataset may get
\* newer; the request adds what is loaded to its parts, or ends and leaves the
\* page, or the old page with a new stamp.
Moves(c) ==
    /\ loaded' = loaded \/ loaded' = published
    /\ proc = "up" /\ proc' = proc
    /\ clock' = clock /\ published' = published /\ started' = started

ReqMoves(c) ==
    /\ req' \in [Clients -> Requests]
    /\ \A x \in Clients \ {c} : req'[x] = req[x]
    /\ req'[c].parts \subseteq req[c].parts \cup {loaded}
    /\ req'[c].brief => req[c].brief \/ c \in LaterPages

CopyMoves(c) ==
    /\ copy' \in [Clients -> Copies]
    /\ \A x \in Clients \ {c} : copy'[x] = copy[x]
    /\ \/ copy'[c].parts = copy[c].parts /\ copy'[c].release = copy[c].release
       \/ copy'[c].parts = req[c].parts \cup {loaded} /\ copy'[c].release = started
    /\ copy'[c].brief => copy[c].brief \/ req[c].brief \/ c \in LaterPages

\* Moving a request on to another place.
LEMMA GoMoves ==
  ASSUME req \in [Clients -> Requests], NEW c \in Clients,
         NEW place \in {"idle", "revalidate", "compare", "confirm", "find", "flags", "query",
                        "shape", "stamp", "frame"},
         Go(c, place)
  PROVE  ReqMoves(c)
<1>1. /\ DOMAIN req' = Clients /\ \A x \in Clients \ {c} : req'[x] = req[x]
      /\ req'[c] = [req[c] EXCEPT !.pc = place]
  BY DEF Go
<1>2. req[c] \in Requests
  OBVIOUS
<1>3. /\ req'[c] \in Requests /\ req'[c].parts = req[c].parts /\ req'[c].brief = req[c].brief
  BY <1>1, <1>2 DEF Requests
<1>4. req' \in [Clients -> Requests]
  BY <1>1, <1>3 DEF Go
<1> QED
  BY <1>1, <1>3, <1>4 DEF ReqMoves

\* A handler that reads from the engine notes which dataset it read.
LEMMA SeeMoves ==
  ASSUME req \in [Clients -> Requests], loaded \in Nat, NEW c \in Clients,
         NEW place \in {"idle", "revalidate", "compare", "confirm", "find", "flags", "query",
                        "shape", "stamp", "frame"},
         See(c, place)
  PROVE  ReqMoves(c)
<1>1. /\ DOMAIN req' = Clients /\ \A x \in Clients \ {c} : req'[x] = req[x]
      /\ req'[c] = [req[c] EXCEPT !.pc = place, !.parts = @ \cup {loaded}]
  BY DEF See
<1>2. req[c] \in Requests
  OBVIOUS
<1>3. /\ req'[c] \in Requests /\ req'[c].parts = req[c].parts \cup {loaded}
      /\ req'[c].brief = req[c].brief
  <2>1. req'[c] = [pc |-> place, parts |-> req[c].parts \cup {loaded},
                   stamp |-> req[c].stamp, brief |-> req[c].brief]
    BY <1>1, <1>2 DEF Requests
  <2>2. req[c].parts \cup {loaded} \in SUBSET Nat /\ req[c].stamp \in Nat
    BY <1>2 DEF Requests
  <2>3. req[c].brief \in BOOLEAN
    BY <1>2 DEF Requests
  <2> QED
    BY <2>1, <2>2, <2>3 DEF Requests
<1>4. req' \in [Clients -> Requests]
  BY <1>1, <1>3 DEF See
<1> QED
  BY <1>1, <1>3, <1>4 DEF ReqMoves

\* What a step of a request does, to itself and to its client's copy.
LEMMA RequestEffect ==
  ASSUME PagesInv, NEW c \in Clients, Ask(c) \/ Serve(c)
  PROVE  Moves(c) /\ ReqMoves(c) /\ CopyMoves(c)
<1>1. /\ req \in [Clients -> Requests] /\ copy \in [Clients -> Copies]
      /\ loaded \in Nat /\ started \in Nat
  BY DEF PagesInv, Typed, Requests, Copies
<1>2. req[c] \in Requests /\ copy[c] \in Copies
  BY <1>1
<1>3. req[c].pc # "idle" => proc = "up"
  BY DEF PagesInv, RequestIsOfThisProcess
<1>4. LastModified \in Nat
  BY StampIsPast
<1>5. Moves(c)
  BY <1>3 DEF Moves, Ask, Serve, Revalidate, Compare, Confirm, FindFresh, ReadFlags, Query, Shape,
     Stamp, Frame, Look, EnsureFresh, server, bounds
<1>6. ReqMoves(c)
  <2>1. CASE req' = [req EXCEPT ![c] = Idle]
    <3>1. /\ \A x \in Clients \ {c} : req'[x] = req[x]
          /\ req'[c] = Idle /\ Idle \in Requests /\ Idle.parts = {} /\ ~Idle.brief
      BY <1>1, <2>1 DEF Idle, Requests
    <3>2. req' \in [Clients -> Requests]
      BY <1>1, <2>1, <3>1
    <3> QED
      BY <3>1, <3>2 DEF ReqMoves
  <2>2. CASE Stamp(c)
    <3>1. /\ \A x \in Clients \ {c} : req'[x] = req[x]
          /\ req'[c] = [req[c] EXCEPT !.pc = "frame", !.stamp = LastModified]
          /\ DOMAIN req' = Clients
      BY <1>1, <2>2 DEF Stamp
    <3>2. /\ req'[c] \in Requests /\ req'[c].parts = req[c].parts /\ req'[c].brief = req[c].brief
      BY <1>2, <1>4, <3>1 DEF Requests
    <3>3. req' \in [Clients -> Requests]
      BY <1>1, <2>2, <3>1, <3>2 DEF Stamp
    <3> QED
      BY <3>1, <3>2, <3>3 DEF ReqMoves
  <2>3. CASE Query(c) /\ req' # [req EXCEPT ![c] = Idle]
    <3>1. PICK end \in IF c \in LaterPages THEN BOOLEAN ELSE {FALSE} :
             req' = [req EXCEPT ![c].pc = "shape", ![c].parts = @ \cup {loaded}, ![c].brief = end]
      BY <2>3 DEF Query
    <3>2. end \in BOOLEAN /\ (end => c \in LaterPages)
      BY <3>1
    <3>3. /\ \A x \in Clients \ {c} : req'[x] = req[x]
          /\ req'[c] = [req[c] EXCEPT !.pc = "shape", !.parts = @ \cup {loaded}, !.brief = end]
          /\ DOMAIN req' = Clients
      BY <1>1, <3>1
    <3>4. /\ req'[c] \in Requests /\ req'[c].parts = req[c].parts \cup {loaded}
          /\ req'[c].brief = end
      <4>1. req'[c] = [pc |-> "shape", parts |-> req[c].parts \cup {loaded},
                       stamp |-> req[c].stamp, brief |-> end]
        BY <1>2, <3>3 DEF Requests
      <4>2. req[c].parts \cup {loaded} \in SUBSET Nat /\ req[c].stamp \in Nat
        BY <1>1, <1>2 DEF Requests
      <4> QED
        BY <3>2, <4>1, <4>2 DEF Requests
    <3>5. req' \in [Clients -> Requests]
      BY <1>1, <3>1, <3>3, <3>4
    <3> QED
      BY <3>2, <3>3, <3>4, <3>5 DEF ReqMoves
  <2>4. CASE Ask(c) \/ Revalidate(c) \/ Compare(c) \/ FindFresh(c)
    BY <1>1, <2>4, GoMoves DEF Ask, Revalidate, Compare, FindFresh, Work
  <2>5. CASE ReadFlags(c) \/ Shape(c)
    BY <1>1, <2>5, SeeMoves DEF ReadFlags, Shape
  <2>6. CASE Confirm(c) \/ Frame(c)
    BY <2>1, <2>6 DEF Confirm, Frame
  <2> QED
    BY <2>1, <2>2, <2>3, <2>4, <2>5, <2>6 DEF Serve
<1>7. CopyMoves(c)
  <2>1. CASE copy' = copy
    BY <1>1, <1>2, <2>1 DEF CopyMoves
  <2>2. CASE Confirm(c)
    <3>1. copy' = [copy EXCEPT ![c].stamp = LastModified, ![c].brief = c \in LaterPages]
      BY <2>2 DEF Confirm
    <3>2. /\ \A x \in Clients \ {c} : copy'[x] = copy[x]
          /\ copy'[c] = [copy[c] EXCEPT !.stamp = LastModified, !.brief = c \in LaterPages]
          /\ DOMAIN copy' = Clients
      BY <1>1, <3>1
    <3>3. /\ copy'[c] \in Copies
          /\ copy'[c].parts = copy[c].parts /\ copy'[c].release = copy[c].release
          /\ copy'[c].brief = (c \in LaterPages)
      <4>1. copy'[c] = [parts |-> copy[c].parts, stamp |-> LastModified,
                        brief |-> c \in LaterPages, release |-> copy[c].release]
        BY <1>2, <3>2 DEF Copies
      <4>2. copy[c].parts \in SUBSET Nat /\ copy[c].release \in Nat
        BY <1>2 DEF Copies
      <4> QED
        BY <1>4, <4>1, <4>2 DEF Copies
    <3>4. copy' \in [Clients -> Copies]
      BY <1>1, <3>1, <3>2, <3>3
    <3> QED
      BY <3>2, <3>3, <3>4 DEF CopyMoves
  <2>3. CASE Frame(c)
    <3>1. copy' = [copy EXCEPT ![c] = [parts |-> req[c].parts \cup {loaded}, stamp |-> req[c].stamp,
                                       brief |-> req[c].brief, release |-> started]]
      BY <2>3 DEF Frame
    <3>2. /\ copy'[c] = [parts |-> req[c].parts \cup {loaded}, stamp |-> req[c].stamp,
                         brief |-> req[c].brief, release |-> started]
          /\ \A x \in Clients \ {c} : copy'[x] = copy[x]
          /\ DOMAIN copy' = Clients
      BY <1>1, <3>1
    <3>3. copy'[c] \in Copies
      BY <3>2, <1>1, <1>2 DEF Copies, Requests
    <3>4. copy' \in [Clients -> Copies]
      BY <1>1, <3>1, <3>2, <3>3
    <3> QED
      BY <3>2, <3>3, <3>4 DEF CopyMoves
  <2> QED
    BY <2>1, <2>2, <2>3 DEF Ask, Serve, Revalidate, Compare, FindFresh, ReadFlags, Query, Shape,
       Stamp, Look, bounds
<1> QED
  BY <1>5, <1>6, <1>7

\* The invariant outlives the steps of a request.
LEMMA RequestStep ==
  ASSUME PagesInv, NEW c \in Clients, Ask(c) \/ Serve(c)
  PROVE  PagesInv'
<1>1. Moves(c) /\ ReqMoves(c) /\ CopyMoves(c)
  BY RequestEffect
<1>2. /\ req \in [Clients -> Requests] /\ copy \in [Clients -> Copies]
      /\ loaded \in Nat /\ started \in Nat /\ published \in Nat /\ clock \in Nat
      /\ loaded <= published /\ published <= clock /\ started <= clock
  BY DEF PagesInv, Typed, Chronological, Requests, Copies
<1>3. req' \in [Clients -> Requests] /\ copy' \in [Clients -> Copies]
  BY <1>1, <1>2 DEF ReqMoves, CopyMoves
<1>4. /\ loaded' \in Nat /\ loaded <= loaded' /\ loaded' <= published
      /\ proc' = "up" /\ started' = started /\ clock' = clock /\ published' = published
  BY <1>1, <1>2 DEF Moves
<1>5. Typed'
  BY <1>2, <1>3, <1>4 DEF Typed, Requests, Copies
<1>6. \A x \in Clients : /\ x # c => req'[x] = req[x] /\ copy'[x] = copy[x]
                         /\ req[x].parts \in SUBSET Nat /\ copy[x].parts \in SUBSET Nat
                         /\ req'[x].parts \in SUBSET Nat /\ copy'[x].parts \in SUBSET Nat
                         /\ copy[x].release \in Nat
  <2>1. \A x \in Clients : x # c => req'[x] = req[x] /\ copy'[x] = copy[x]
    BY <1>1, <1>2 DEF ReqMoves, CopyMoves
  <2> QED
    BY <1>2, <1>3, <2>1 DEF Requests, Copies
<1>7. \A p \in req[c].parts \cup {loaded} : p \in Nat /\ p <= loaded
  BY <1>2, <1>6 DEF PagesInv, RequestIsOfThisProcess
<1>8. ASSUME NEW x \in Clients PROVE RequestIsOfThisProcess(x)'
  <2>1. \A p \in req'[x].parts : p <= loaded
    <3>1. CASE x = c
      BY <1>1, <1>7, <3>1 DEF ReqMoves
    <3>2. CASE x # c
      BY <1>6, <3>2 DEF PagesInv, RequestIsOfThisProcess
    <3> QED
      BY <3>1, <3>2
  <2> QED
    BY <1>2, <1>4, <1>6, <2>1 DEF RequestIsOfThisProcess
<1>9. ASSUME NEW x \in Clients
      PROVE  /\ PageIsOfItsTime(x)' /\ OnlyLaterPagesEnd(x)'
             /\ copy'[x].release <= clock' /\ \A p \in copy'[x].parts : p <= clock'
  <2>1. CASE copy'[x].parts = copy[x].parts /\ copy'[x].release = copy[x].release
    <3>1. PageIsOfItsTime(x)'
      BY <1>1, <1>2, <1>4, <1>6, <2>1 DEF Moves, PagesInv, PageIsOfItsTime
    <3>2. OnlyLaterPagesEnd(x)'
      BY <1>1, <1>6 DEF ReqMoves, CopyMoves, PagesInv, OnlyLaterPagesEnd
    <3> QED
      BY <1>2, <1>4, <2>1, <3>1, <3>2 DEF PagesInv, Chronological
  <2>2. CASE copy'[x].parts = req[c].parts \cup {loaded} /\ copy'[x].release = started
    <3>1. PageIsOfItsTime(x)'
      BY <1>2, <1>4, <1>7, <2>2 DEF PageIsOfItsTime
    <3>2. \A p \in copy'[x].parts : p <= clock'
      BY <1>2, <1>4, <1>7, <2>2
    <3>3. OnlyLaterPagesEnd(x)'
      BY <1>1, <1>6 DEF ReqMoves, CopyMoves, PagesInv, OnlyLaterPagesEnd
    <3> QED
      BY <1>2, <1>4, <2>2, <3>1, <3>2, <3>3
  <2> QED
    BY <1>1, <1>6, <2>1, <2>2 DEF CopyMoves
<1> QED
  BY <1>2, <1>4, <1>5, <1>8, <1>9 DEF PagesInv, Chronological

\* The invariant holds of every reachable state.
THEOREM PagesInvHolds == Spec => []PagesInv
<1>1. Init => PagesInv
  BY PagesInit
<1>2. PagesInv /\ [Next]_vars => PagesInv'
  <2> SUFFICES ASSUME PagesInv, [Next]_vars PROVE PagesInv'
    OBVIOUS
  <2>1. CASE UNCHANGED vars
    BY <2>1 DEF vars, server, bounds, PagesInv, Typed, Chronological, RequestIsOfThisProcess,
       PageIsOfItsTime, OnlyLaterPagesEnd
  <2>2. CASE \E c \in Clients : Ask(c) \/ Serve(c)
    BY <2>2, RequestStep
  <2> QED
    BY <2>1, <2>2, ServerStep DEF Next
<1> QED
  BY <1>1, <1>2, PTL DEF Spec
-----------------------------------------------------------------------------
\* notModified: a 304 is given to a page of this very release, made of the
\* dataset that is loaded, unless the start of the process covers both; and the
\* confirmation of a page past the end is as short-lived as the page.
THEOREM ConfirmationsAreHonest == Spec => ConfirmationHonest
<1>1. PagesInv /\ [Next]_vars =>
        [\A c \in Clients :
           /\ Confirms(c) /\ OfOne(copy[c]) =>
                /\ copy[c].release = started
                /\ copy[c].parts = {loaded} \/ StartCovers(loaded)
           /\ copy[c].brief /\ req[c].pc = "confirm" => copy'[c].brief]_vars
  <2> SUFFICES ASSUME PagesInv, Next, NEW c \in Clients
               PROVE  /\ Confirms(c) /\ OfOne(copy[c]) =>
                           /\ copy[c].release = started
                           /\ copy[c].parts = {loaded} \/ StartCovers(loaded)
                      /\ copy[c].brief /\ req[c].pc = "confirm" => copy'[c].brief
    OBVIOUS
  <2>1. /\ req \in [Clients -> Requests] /\ copy \in [Clients -> Copies]
        /\ loaded \in Nat /\ started \in Nat
    BY DEF PagesInv, Typed, Requests, Copies
  <2>2. ASSUME Confirms(c), OfOne(copy[c])
        PROVE  copy[c].release = started /\ (copy[c].parts = {loaded} \/ StartCovers(loaded))
    <3>1. Compare(c)
      <4>1. ASSUME NEW x \in Clients, Ask(x) \/ Serve(x), x # c PROVE FALSE
        <5>1. req'[c] = req[c]
          BY <4>1, RequestEffect DEF ReqMoves
        <5> QED
          BY <2>1, <2>2, <4>1, <5>1 DEF Confirms
      <4>2. CASE \E x \in Clients : Ask(x) \/ Serve(x)
        <5>1. Ask(c) \/ Serve(c)
          BY <4>1, <4>2
        <5> QED
          BY <5>1, <2>2 DEF Confirms, Ask, Serve, Revalidate, Confirm, FindFresh, ReadFlags, Query,
             Shape, Stamp, Frame
      <4>3. CASE ~ \E x \in Clients : Ask(x) \/ Serve(x)
        <5>1. req' = req \/ req' = [x \in Clients |-> Idle]
          BY <4>3 DEF Next, Publish, InitialLoad, RetryLoad, StartServing, Deploy, ThrottleElapses
        <5> QED
          BY <2>2, <5>1 DEF Confirms, Idle
      <4> QED
        BY <4>2, <4>3
    <3>2. LastModified # 0 /\ LastModified <= copy[c].stamp
      <4>1. req'[c].pc = IF LastModified # 0 /\ LastModified <= copy[c].stamp THEN "confirm" ELSE Work(c)
        BY <2>1, <3>1 DEF Compare, Go
      <4> QED
        BY <4>1, <2>2 DEF Confirms, Work
    <3>3. PICK d \in copy[c].parts : /\ d # 0 /\ copy[c].parts = {d}
                                     /\ copy[c].stamp = IF copy[c].release > d THEN copy[c].release ELSE d
      BY <2>2 DEF OfOne
    <3>4. d \in Nat /\ copy[c].release \in Nat /\ copy[c].stamp \in Nat
      BY <2>1, <3>3 DEF Copies
    <3>5. started <= copy[c].stamp /\ loaded <= copy[c].stamp
      BY <2>1, <3>2, <3>4 DEF LastModified
    <3>6. proc = "up"
      BY <2>2 DEF Confirms, PagesInv, RequestIsOfThisProcess
    <3>7. copy[c].release = started
      <4>1. copy[c].release <= started /\ (copy[c].release < started => d < started)
        BY <3>3, <3>6 DEF PagesInv, PageIsOfItsTime
      <4> QED
        BY <2>1, <3>3, <3>4, <3>5, <4>1
    <3>8. d <= loaded
      BY <3>3, <3>6, <3>7 DEF PagesInv, PageIsOfItsTime
    <3>9. d = loaded \/ loaded <= started
      BY <2>1, <3>3, <3>4, <3>5, <3>7, <3>8
    <3> QED
      BY <3>3, <3>7, <3>9 DEF StartCovers
  <2>3. ASSUME copy[c].brief, req[c].pc = "confirm" PROVE copy'[c].brief
    <3>1. c \in LaterPages
      BY <2>3 DEF PagesInv, OnlyLaterPagesEnd
    <3>2. CASE copy'[c] = copy[c]
      BY <2>3, <3>2
    <3>3. CASE copy' = [copy EXCEPT ![c].stamp = LastModified, ![c].brief = c \in LaterPages]
      BY <2>1, <3>1, <3>3 DEF Copies
    <3>4. ASSUME NEW x \in Clients, Ask(x) \/ Serve(x)
          PROVE  \/ copy'[c] = copy[c]
                 \/ copy' = [copy EXCEPT ![c].stamp = LastModified, ![c].brief = c \in LaterPages]
      <4>2. CASE x # c
        BY <3>4, <4>2, RequestEffect DEF CopyMoves
      <4>3. CASE x = c
        BY <2>3, <3>4, <4>3 DEF Ask, Serve, Revalidate, Compare, Confirm, FindFresh, ReadFlags,
           Query, Shape, Stamp, Frame, Look, bounds
      <4> QED
        BY <4>2, <4>3
    <3> QED
      BY <3>2, <3>3, <3>4 DEF Next, Publish, InitialLoad, RetryLoad, StartServing, Deploy,
         ThrottleElapses
  <2> QED
    BY <2>2, <2>3
<1>2. QED
  BY <1>1, PagesInvHolds, PTL DEF Spec, ConfirmationHonest
-----------------------------------------------------------------------------
(* The sidebar and the links of a page.                                    *)

\* A row of the sidebar has one of the tags, and the count it should have.
LEMMA OfferedIs ==
    ASSUME NEW db, IsDataset(db), NEW o, IsRequest(o), NEW s, s = Servable(db, o),
           NEW row \in Offered(Find(db, o))
    PROVE  /\ row.slug \in Slugs /\ row.count >= 1
           /\ row.count = Cardinality(Carrying(Listed(db, s), Answers(db, s), row.slug))
<1> DEFINE tags == Find(db, o).tags
<1>1. PICK k \in DOMAIN tags : row = tags[k]
  BY DEF Offered
<1>2. ~Unlike(db, s)
  <2>1. SUFFICES ASSUME Unlike(db, s)
                 PROVE  FALSE
    OBVIOUS
  <2>2. tags = <<>>
    BY <2>1, FindAnswers DEF Empty
  <2>3. <<>> \in Seq({}) /\ Len(<<>>) = 0
    BY EmptySeq
  <2>4. DOMAIN <<>> = 1..0
    BY <2>3, LenProperties
  <2> QED
    BY <1>1, <2>2, <2>4
<1>3. RowsTell(tags, Listed(db, s), Answers(db, s), s)
  BY <1>2, FindAnswers
<1> HIDE DEF tags
<1> QED
  BY <1>1, <1>3 DEF RowsTell

\* Every link of a page is the address of tidy filters.
LEMMA LinksTidy ==
    ASSUME NEW db, IsDataset(db), NEW f, Tidy(f, db.rates), NEW r,
           \A row \in Offered(r) : row.slug \in Slugs
    PROVE  /\ \A g \in SortLinks(db, f) : Tidy(g, db.rates)
           /\ \A g \in FilterLinks(db, f, r) : Tidy(g, db.rates)
<1>1. ASSUME NEW g \in SortLinks(db, f)
      PROVE  Tidy(g, db.rates)
  <2>1. {"popular", "price", "title"} \subseteq Sorts /\ "relevance" \in Sorts /\ "recent" \in Sorts
        /\ "relevance" \notin {"popular", "price", "title"} /\ "relevance" # "recent"
    BY DEF Sorts
  <2>2. CASE \E s \in {"popular", "price", "title"} : g = WithSort(f, s)
    BY <2>1, <2>2, OtherLinks
  <2>3. CASE f.query # NoQuery /\ g = WithSort(f, "relevance")
    BY <2>1, <2>3, OtherLinks
  <2>4. CASE g = WithSort(f, "recent")
    BY <2>1, <2>4, OtherLinks
  <2> QED
    BY <2>2, <2>3, <2>4 DEF SortLinks
<1>2. ASSUME NEW g \in Chips(db, f)
      PROVE  Tidy(g, db.rates)
  <2>1. CASE \E t : g = WithoutTag(f, t) \/ g = WithoutNotTag(f, t)
    BY <2>1, OtherLinks
  <2>2. CASE g = WithAuthor(f, f.author) \/ g = WithLike(f, f.like) \/ g = Cleared(f)
    BY <2>2, OtherLinks
  <2>3. CASE f.price # None /\ g = WithPrice(f, f.price)
    BY <2>3, OtherLinks
  <2> QED
    BY <2>1, <2>2, <2>3 DEF Chips
<1>3. ASSUME NEW g \in PriceControl(db, f)
      PROVE  Tidy(g, db.rates)
  <2>1. PICK p \in Prices : g = WithPrice(f, p)
    BY DEF PriceControl
  <2>2. p \in PriceFilters
    BY FilterConstants DEF PriceFilters
  <2> QED
    BY <2>1, <2>2, OtherLinks
<1>4. ASSUME NEW g \in TagSidebar(f, r)
      PROVE  Tidy(g, db.rates)
  <2>1. PICK row \in Offered(r) : g = WithTag(f, row.slug) \/ g = WithNotTag(f, row.slug)
    BY DEF TagSidebar
  <2>2. row.slug \in Slugs
    OBVIOUS
  <2>3. Tidy(WithTag(f, row.slug), db.rates) /\ Tidy(WithNotTag(f, row.slug), db.rates)
    BY <2>2, WithTagIs, WithNotTagIs
  <2> QED
    BY <2>1, <2>3
<1>5. ASSUME NEW i \in DOMAIN db.data, NEW g \in AssetCard(f, db.data[i])
      PROVE  Tidy(g, db.rates)
  <2> DEFINE a == db.data[i]
  <2>1. a.tags \subseteq Slugs
    <3>1. i \in 1..Len(db.data)
      BY DatasetIs
    <3>2. a \in Asset
      BY <3>1, DatasetIs
    <3> QED
      BY <3>2, AssetIs
  <2>2. CASE g = WithLike(f, a.id) \/ g = WithAuthor(f, a.author)
    BY <2>2, OtherLinks
  <2>3. CASE \E t \in a.tags : g = ToggleTag(f, t)
    BY <2>1, <2>3, OtherLinks
  <2> QED
    BY <2>2, <2>3 DEF AssetCard
<1>6. ASSUME NEW g \in FilterLinks(db, f, r)
      PROVE  Tidy(g, db.rates)
  BY <1>2, <1>3, <1>4, <1>5 DEF FilterLinks
<1> QED
  BY <1>1, <1>6

\* Where a link may lead: to an address that is served, or to the page of a tag
\* that the list has and the tag universe has not.
Leads(db, u) ==
    /\ PageOK(u) /\ Canonical(db, u) = u
    /\ u.path = "/tag" => CountOf(db.data, u.tags[1]) > 0
    /\ TagsKnown(db) => Serves(db, u)

\* Any page of tidy filters is one that is served.
LEMMA ShareServed ==
    ASSUME NEW db, NEW f, Tidy(f, db.rates), NEW page \in 1..MaxPage
    PROVE  /\ IsAddress(PageURL(f, page)) /\ PageURL(f, page).page = page /\ PageURL(f, page).path = "/"
           /\ Leads(db, PageURL(f, page))
<1> DEFINE u == PageURL(f, page)
<1>1. page \in Int /\ page >= 1 /\ page <= MaxPage
  BY SizesAre
<1>2. IsAddress(u) /\ u.path = "/" /\ u.page = page /\ PageURL(Parse(u, db.rates), page) = u
  BY <1>1, PageURLIs
<1> HIDE DEF u
<1>3. "/" # "/tag"
  OBVIOUS
<1>4. Canonical(db, u) = u
  BY <1>2, <1>3 DEF Canonical
<1>5. Leads(db, u)
  BY <1>1, <1>2, <1>3, <1>4 DEF Leads, Serves, PageOK
<1> QED
  BY <1>2, <1>5 DEF u

\* An answer has no more assets than there are pages for.
LEMMA TotalIs ==
    ASSUME NEW db, IsDataset(db), NEW o, IsRequest(o), NEW s, s = Servable(db, o)
    PROVE  /\ Find(db, o).total = IF Unlike(db, s) THEN 0 ELSE Cardinality(Answers(db, s))
           /\ Find(db, o).total \in Nat /\ Find(db, o).total <= MaxPage * PageSize
<1>1. Find(db, o).total = IF Unlike(db, s) THEN 0 ELSE Cardinality(Answers(db, s))
  BY FindAnswers DEF Empty
<1>2. /\ Len(Listed(db, s)) \in Nat /\ Len(Listed(db, s)) <= MaxPage * PageSize
      /\ IsFiniteSet(1..Len(Listed(db, s))) /\ Cardinality(1..Len(Listed(db, s))) = Len(Listed(db, s))
  <2>1. Len(Listed(db, s)) \in Nat /\ Len(Listed(db, s)) <= MaxPage * PageSize
    BY DatasetIs DEF Listed
  <2> QED
    BY <2>1, UpToSize
<1>3. MaxPage * PageSize \in Nat
  BY SizesAre, Multiples
<1> DEFINE W == Answers(db, s)
           D == 1..Len(Listed(db, s))
           c == Cardinality(W)
           most == MaxPage * PageSize
<1>4. W \subseteq D /\ IsFiniteSet(W) /\ c \in Nat
  BY AnswersAre
<1> HIDE DEF W, D
<1>5. c <= Cardinality(D)
  BY <1>2, <1>4, FS_Subset DEF D
<1> HIDE DEF c, most
<1>6. c <= most
  BY <1>2, <1>3, <1>4, <1>5 DEF D, most
<1> QED
  BY <1>1, <1>3, <1>4, <1>6 DEF c, W, most

-----------------------------------------------------------------------------
(* The session.                                                            *)

\* The types, and that the address bar holds an address.
VisitorTyped == VisitorTypeOK /\ IsAddress(at)

\* The visitor came to it by typing, or as a link leads.
FollowedServes == via # "typed" => Leads(cat, at)

\* There are filters to begin with.
LEMMA NoFiltersTidy ==
    ASSUME NEW rates
    PROVE  Tidy(NoFilters, rates)
<1> DEFINE none == <<>>
<1>1. NoFilters = [query |-> NoQuery, tags |-> none, not |-> none, author |-> None,
                   price |-> None, sort |-> Default, like |-> None, cur |-> Default]
  BY Zenon DEF NoFilters
<1>2. MaxTags \in Nat /\ MaxNotTags \in Nat
  BY SizesAre
<1>3. IsTagList(none, MaxTags) /\ IsTagList(none, MaxNotTags) /\ ToSet(none) = {}
  BY <1>2, NoTags
<1> HIDE DEF none
<1>4. NoQuery \in [words : SUBSET STRING, quoted : BOOLEAN] /\ IsFiniteSet(NoQuery.words)
  BY FS_EmptySet DEF NoQuery
<1>5. Default # "relevance"
  BY Zenon DEF Default
<1> DEFINE f == NoFilters
<1> HIDE DEF f
<1>6. /\ f.query = NoQuery /\ f.tags = none /\ f.not = none /\ f.price = None /\ f.sort = Default
      /\ f.cur = Default
      /\ f = [query |-> f.query, tags |-> f.tags, not |-> f.not, author |-> f.author,
              price |-> f.price, sort |-> f.sort, like |-> f.like, cur |-> f.cur]
  BY <1>1 DEF f
<1>7. {} \cap {} = {}
  OBVIOUS
<1> QED
  BY Zenon, <1>3, <1>4, <1>5, <1>6, <1>7 DEF Tidy, IsFilters, f

\* The visitor's filters are tidy, and so is every link of the page.
LEMMA HereTidy ==
    ASSUME VisitorTyped
    PROVE  /\ IsDataset(cat) /\ Tidy(Here, cat.rates)
           /\ IsRequest(Options(Here, at.page, "wanted")) /\ Shown = Find(cat, Options(Here, at.page, "wanted"))
           /\ \A g \in SortLinks(cat, Here) \cup FilterLinks(cat, Here, Shown) : Tidy(g, cat.rates)
<1>1. IsDataset(cat)
  BY VisitorConstants DEF VisitorTyped, VisitorTypeOK
<1>2. Tidy(Here, cat.rates)
  BY ParseIs DEF VisitorTyped, Here
<1>3. at.page \in 1..MaxPage + 1 /\ "wanted" \in {"wanted", "omitted"}
  BY SizesAre DEF VisitorTyped, VisitorTypeOK
<1> DEFINE o == Options(Here, at.page, "wanted")
<1>4. IsRequest(o)
  BY <1>2, <1>3, OptionsAre
<1>5. Shown = Find(cat, o)
  BY DEF Shown, Asked, Here
<1> HIDE DEF o
<1>6. \A row \in Offered(Shown) : row.slug \in Slugs
  <2> DEFINE s == Servable(cat, o)
  <2>1. ASSUME NEW row \in Offered(Find(cat, o))
        PROVE  row.slug \in Slugs
    BY <1>1, <1>4, OfferedIs
  <2> QED
    BY <1>5, <2>1
<1> QED
  BY <1>1, <1>2, <1>4, <1>5, <1>6, LinksTidy DEF o

\* Where sort and currency lead is the address of tidy filters too: the fields of
\* the form are read as what they were made from, since the filters of a page that
\* is served name no ordering PageURL would leave out.
LEMMA DisplayIs ==
    ASSUME VisitorTyped, Serves(cat, at), NEW u \in DisplayAddresses(cat, Here)
    PROVE  \E g, x : /\ Tidy(g, cat.rates) /\ u = ShareURL(g)
                     /\ g = [Here EXCEPT !.sort = x] \/ g = [Here EXCEPT !.cur = x]
<1> DEFINE f == Here
<1>1. Tidy(f, cat.rates) /\ \A g \in SortLinks(cat, f) : Tidy(g, cat.rates)
  BY HereTidy
<1>2. CASE \E g \in SortLinks(cat, f) : u = ShareURL(g)
  <2>1. PICK g \in SortLinks(cat, f) : u = ShareURL(g)
    BY <1>2
  <2>2. \E x : g = [f EXCEPT !.sort = x]
    BY DEF SortLinks, WithSort
  <2> QED
    BY <1>1, <2>1, <2>2
<1>3. CASE \E w \in CurrencyForm(cat, f) : u = ShareURL(Parse(w, cat.rates))
  <2>0. PICK w \in CurrencyForm(cat, f) : u = ShareURL(Parse(w, cat.rates))
    BY <1>3
  <2>1. PICK c \in {Default} \cup DOMAIN cat.rates : w = Address("/", [f EXCEPT !.cur = c], 1)
    BY DEF CurrencyForm
  <2> DEFINE g == [f EXCEPT !.cur = c]
  <2>2. Tidy(g, cat.rates)
    BY <1>1, OtherLinks
  <2>3. f.sort # DefaultSort(f)
    <3>1. IsAddress(at) /\ Canonical(cat, at) = at
      BY DEF VisitorTyped, Serves
    <3>2. CASE at.path = "/tag"
      <4>1. at.sort = Default
        BY <3>1, <3>2 DEF IsAddress, TagURL, Address, NoFilters
      <4> QED
        BY <4>1 DEF Here, Parse, KnownSort, Sorts, DefaultSort, Default
    <3>3. CASE at.path # "/tag"
      <4>1. at = PageURL(f, at.page)
        BY <3>1, <3>3 DEF Canonical, Here
      <4>2. f.sort = KnownSort(at.sort, at.query)
        BY DEF Here, Parse
      <4>3. f = [query |-> f.query, tags |-> f.tags, not |-> f.not, author |-> f.author,
                 price |-> f.price, sort |-> f.sort, like |-> f.like, cur |-> f.cur]
        BY <1>1, FiltersAre
      <4> HIDE DEF f
      <4>4. at.sort = IF f.sort = DefaultSort(f) THEN Default ELSE f.sort
        BY <4>1, <4>3 DEF PageURL, Address
      <4> QED
        BY <4>2, <4>4 DEF KnownSort, Sorts, DefaultSort, Default
    <3> QED
      BY <3>2, <3>3
  <2>4. f = [query |-> f.query, tags |-> f.tags, not |-> f.not, author |-> f.author,
             price |-> f.price, sort |-> f.sort, like |-> f.like, cur |-> f.cur]
    BY <1>1, FiltersAre
  <2> HIDE DEF f
  <2>5. g.sort = f.sort /\ g.query = f.query
        /\ g = [query |-> g.query, tags |-> g.tags, not |-> g.not, author |-> g.author,
                price |-> g.price, sort |-> g.sort, like |-> g.like, cur |-> g.cur]
    BY <2>4
  <2>6. w = Address("/", g, 1)
    BY <2>1
  <2> HIDE DEF g
  <2>7. g.sort # DefaultSort(g)
    BY <2>3, <2>5 DEF DefaultSort
  <2>8. [g EXCEPT !.sort = IF @ = DefaultSort(g) THEN Default ELSE @] = g
    BY <2>5, <2>7
  <2>9. w = ShareURL(g)
    BY <2>6, <2>8 DEF ShareURL, PageURL
  <2>10. Canonical(cat, w) = w /\ w.path = "/" /\ w.page = 1
    <3>1. 1 \in 1..MaxPage
      BY SizesAre
    <3> QED
      BY <2>2, <2>9, <3>1, ShareServed DEF ShareURL, Leads
  <2>11. ShareURL(Parse(w, cat.rates)) = w
    <3>1. "/" # "/tag"
      OBVIOUS
    <3> QED
      BY <2>10, <3>1 DEF Canonical, ShareURL
  <2> QED
    BY <2>0, <2>2, <2>9, <2>11 DEF f, g
<1> QED
  BY <1>2, <1>3 DEF DisplayAddresses

\* A tag that the front page offers is of some asset of the list, and has a
\* page if the tag universe holds the list's tags.
LEMMA FrontPageTags ==
    ASSUME VisitorTyped, Bare(Here), NEW row \in Offered(Shown)
    PROVE  /\ row.slug \in Slugs /\ CountOf(cat.data, row.slug) > 0
           /\ TagsKnown(cat) => HasTag(cat, row.slug)
<1> DEFINE f == Here
           o == Options(f, at.page, "wanted")
           s == Servable(cat, o)
           t == row.slug
<1>1. IsDataset(cat) /\ Tidy(f, cat.rates) /\ IsRequest(o) /\ row \in Offered(Find(cat, o))
  BY HereTidy
<1>2. at.page \in 1..MaxPage + 1 /\ "wanted" \in {"wanted", "omitted"}
  BY SizesAre DEF VisitorTyped, VisitorTypeOK
<1>3. /\ f.query = NoQuery /\ f.tags = <<>> /\ f.not = <<>> /\ f.author = None /\ f.price = None
      /\ f.like = None
  <2> DEFINE u == ShareURL(f)
             e == NoFilters
  <2>1. u = ShareURL(e)
    BY DEF Bare
  <2>2. Tidy(e, cat.rates) /\ 1 \in Int
    BY NoFiltersTidy
  <2> HIDE DEF e, f
  <2>3. Parse(u, cat.rates) = [query |-> f.query, tags |-> f.tags, not |-> f.not, author |-> f.author,
                               price |-> f.price, sort |-> Named(f), like |-> f.like,
                               cur |-> Currency(f.cur, cat.rates)]
    BY <1>1, <2>2, PageURLIs DEF ShareURL
  <2>4. Parse(u, cat.rates) = [query |-> e.query, tags |-> e.tags, not |-> e.not, author |-> e.author,
                               price |-> e.price, sort |-> Named(e), like |-> e.like,
                               cur |-> Currency(e.cur, cat.rates)]
    BY <2>1, <2>2, PageURLIs DEF ShareURL
  <2>5. /\ f.query = e.query /\ f.tags = e.tags /\ f.not = e.not /\ f.author = e.author
        /\ f.price = e.price /\ f.like = e.like
    BY <2>3, <2>4
  <2>6. /\ e.query = NoQuery /\ e.tags = <<>> /\ e.not = <<>> /\ e.author = None /\ e.price = None
        /\ e.like = None
    BY Zenon DEF e, NoFilters
  <2> QED
    BY Zenon, <2>5, <2>6
<1> HIDE DEF f
<1>4. /\ o.query = f.query /\ o.tags = ToSet(f.tags) /\ o.not = ToSet(f.not) /\ o.author = f.author
      /\ o.price = f.price /\ o.like = f.like /\ o.minFirst = 0
  BY <1>1, <1>2, OptionsAre
<1>5. ToSet(<<>>) = {}
  <2>1. MaxTags \in Nat
    BY SizesAre
  <2> QED
    BY <2>1, NoTags
<1>6. ToSet(f.tags) = {} /\ ToSet(f.not) = {}
  BY Zenon, <1>3, <1>5
<1> HIDE DEF o
<1>7. /\ IsRequest(s) /\ s.query = NoQuery /\ s.tags = {} /\ s.not = {} /\ s.author = None
      /\ s.like = None /\ s.minFirst = 0 /\ s.price = None
  BY <1>1, <1>3, <1>4, <1>6, ServableIs
<1>8. ~Filtered(s)
  BY <1>7 DEF Filtered
<1>9. Answers(cat, s) = 1..Len(cat.data) /\ Listed(cat, s) = cat.data
  BY <1>1, <1>7, <1>8, NothingFiltered, AnswersByEngine
<1>10. t \in Slugs /\ row.count >= 1 /\ row.count = Cardinality(Carrying(Listed(cat, s), Answers(cat, s), t))
  BY <1>1, OfferedIs
<1>11. CountOf(cat.data, t) = row.count
  <2>1. DOMAIN cat.data = 1..Len(cat.data)
    BY <1>1, DatasetIs
  <2> QED
    BY <1>9, <1>10, <2>1 DEF CountOf, Carrying
<1>12. CountOf(cat.data, t) \in Nat
  BY <1>1, CountOfIs
<1>13. CountOf(cat.data, t) > 0
  BY <1>10, <1>11, <1>12
<1>14. ASSUME TagsKnown(cat)
       PROVE  HasTag(cat, t)
  <2>1. \E i \in DOMAIN cat.data : t \in cat.data[i].tags
    <3>1. SUFFICES ASSUME \A i \in DOMAIN cat.data : t \notin cat.data[i].tags
                   PROVE  FALSE
      OBVIOUS
    <3>2. {i \in DOMAIN cat.data : t \in cat.data[i].tags} = {}
      BY <3>1
    <3>3. CountOf(cat.data, t) = 0
      BY <3>2, FS_EmptySet DEF CountOf
    <3> QED
      BY <1>13, <3>3
  <2> QED
    BY <1>14, <2>1 DEF TagsKnown, HasTag
<1> QED
  BY <1>10, <1>13, <1>14

\* What holds throughout a session.
VisitorInv == VisitorTyped /\ FollowedServes

\* A session begins so.
LEMMA VisitorStarts ==
    VisitorInit => VisitorInv
<1> SUFFICES ASSUME VisitorInit
             PROVE  VisitorInv
  OBVIOUS
<1>2. Tidy(NoFilters, cat.rates) /\ 1 \in 1..MaxPage
  BY NoFiltersTidy, SizesAre
<1>3. IsAddress(at) /\ at.page = 1
  BY <1>2, ShareServed DEF VisitorInit, ShareURL
<1>4. 0 \in 0..MaxClicks
  BY VisitorConstants
<1> QED
  BY <1>2, <1>3, <1>4 DEF VisitorInit, VisitorInv, VisitorTyped, VisitorTypeOK, FollowedServes

\* A link leads to an address like that.
LEMMA FollowKeeps ==
    ASSUME VisitorInv, NEW u, IsAddress(u), Leads(cat, u), Follow(u)
    PROVE  VisitorInv'
<1>1. u.page \in Int /\ PageOK(u)
  BY DEF IsAddress, Leads
<1>2. u.page \in 1..MaxPage
  BY <1>1, SizesAre DEF PageOK
<1>3. cat' = cat /\ at' = u /\ via' = "link" /\ clicks' = clicks + 1 /\ clicks < MaxClicks
  BY DEF Follow
<1>4. clicks' \in 0..MaxClicks
  BY <1>3, VisitorConstants DEF VisitorInv, VisitorTyped, VisitorTypeOK
<1> QED
  BY <1>2, <1>3, <1>4 DEF VisitorInv, VisitorTyped, VisitorTypeOK, FollowedServes

\* Every step keeps it so.
LEMMA VisitorSteps ==
    ASSUME VisitorInv, [VisitorNext]_visitorVars
    PROVE  VisitorInv'
<1>1. /\ VisitorTyped /\ FollowedServes /\ cat \in Catalogs /\ IsAddress(at) /\ at.page \in 1..MaxPage
      /\ clicks \in 0..MaxClicks /\ via \in {"typed", "redirect", "link"}
  BY DEF VisitorInv, VisitorTyped, VisitorTypeOK
<1>2. /\ IsDataset(cat) /\ Tidy(Here, cat.rates)
      /\ \A g \in FilterLinks(cat, Here, Shown) : Tidy(g, cat.rates)
  BY <1>1, HereTidy
<1>3. 1 \in 1..MaxPage
  BY SizesAre
<1>4. CASE Open
  <2>1. PICK u \in TypedAddresses : PageOK(u) /\ at' = u
    BY <1>4 DEF Open
  <2>2. IsAddress(u)
    BY VisitorConstants
  <2>3. u.page \in 1..MaxPage
    BY <2>1, <2>2, SizesAre DEF IsAddress, PageOK
  <2>4. cat' = cat /\ via' = "typed" /\ clicks' = 0 /\ 0 \in 0..MaxClicks
    BY <1>4, VisitorConstants DEF Open
  <2> QED
    BY <1>1, <2>1, <2>2, <2>3, <2>4 DEF VisitorInv, VisitorTyped, VisitorTypeOK, FollowedServes
<1>5. CASE Redirect
  <2>1. at.path = "/"
    <3>1. at.path = "/tag" => at = TagURL(at.tags[1], at.page)
      BY <1>1 DEF IsAddress
    <3>2. at.path # "/tag"
      BY <1>5, <3>1 DEF Redirect, Canonical
    <3> QED
      BY <1>1, <3>2 DEF IsAddress
  <2>2. "/" # "/tag"
    OBVIOUS
  <2>3. at' = PageURL(Here, at.page)
    BY <1>5, <2>1, <2>2 DEF Redirect, Canonical, Here
  <2>4. cat' = cat /\ via' = "redirect" /\ clicks' = clicks
    BY <1>5 DEF Redirect
  <2>5. IsAddress(at') /\ at'.page = at.page /\ Leads(cat, at')
    BY <1>1, <1>2, <2>3, ShareServed
  <2> QED
    BY <1>1, <2>4, <2>5 DEF VisitorInv, VisitorTyped, VisitorTypeOK, FollowedServes
<1>6. CASE AnotherDataset
  <2>1. cat' \in Catalogs /\ via' = "typed" /\ at' = at /\ clicks' = clicks
    BY <1>6 DEF AnotherDataset
  <2> QED
    BY <1>1, <2>1 DEF VisitorInv, VisitorTyped, VisitorTypeOK, FollowedServes
<1>7. CASE ShowDifferently
  <2>1. PICK u \in DisplayAddresses(cat, Here) : Follow(u)
    BY <1>7 DEF ShowDifferently
  <2>2. PICK g : Tidy(g, cat.rates) /\ u = ShareURL(g)
    BY <1>1, <2>1, DisplayIs DEF Follow
  <2>3. IsAddress(u) /\ Leads(cat, u)
    BY <1>3, <2>2, ShareServed DEF ShareURL
  <2> QED
    BY <2>1, <2>3, FollowKeeps
<1>8. CASE Narrow
  <2>1. PICK g \in FilterLinks(cat, Here, Shown) : Follow(ShareURL(g))
    BY <1>8 DEF Narrow
  <2>2. IsAddress(ShareURL(g)) /\ Leads(cat, ShareURL(g))
    BY <1>2, <1>3, ShareServed DEF ShareURL
  <2> QED
    BY <2>1, <2>2, FollowKeeps
<1>9. CASE FollowTag
  <2>1. PICK row \in Offered(Shown) : Follow(TagURL(row.slug, 1))
    BY <1>9 DEF FollowTag
  <2> DEFINE u == TagURL(row.slug, 1)
  <2>2. /\ row.slug \in Slugs /\ CountOf(cat.data, row.slug) > 0
        /\ TagsKnown(cat) => HasTag(cat, row.slug)
    BY <1>1, <1>9, FrontPageTags DEF FollowTag
  <2>3. row.slug \in Nat /\ 1 \in Int
    BY <2>2, SlugsAre
  <2>4. IsAddress(u) /\ u.path = "/tag" /\ u.page = 1 /\ u.tags[1] = row.slug
    BY <2>3, TagURLIs
  <2>5. PageOK(u)
    BY <1>3, <2>4, SizesAre DEF PageOK
  <2>6. Canonical(cat, u) = u
    <3>1. Canonical(cat, u) = TagURL(u.tags[1], u.page)
      BY <2>4 DEF Canonical
    <3> QED
      BY <2>4, <3>1
  <2> HIDE DEF u
  <2>7. Leads(cat, u)
    BY <2>2, <2>4, <2>5, <2>6 DEF Leads, Serves
  <2> QED
    BY <2>1, <2>4, <2>7, FollowKeeps DEF u
<1>10. CASE LoadMore
  <2> DEFINE u == PageURL(Here, at.page + 1)
             total == Shown.total
  <2>1. HasMore(at.page, total) /\ Follow(u)
    BY <1>10 DEF LoadMore
  <2>2. total \in Nat /\ total <= MaxPage * PageSize
    <3> DEFINE o == Options(Here, at.page, "wanted")
    <3>1. IsRequest(o) /\ Shown = Find(cat, o)
      BY <1>1, HereTidy
    <3> HIDE DEF o
    <3> QED
      BY <1>2, <3>1, TotalIs
  <2> HIDE DEF total
  <2>3. at.page * PageSize < total
    BY <2>1 DEF HasMore
  <2>4. at.page \in Nat /\ MaxPage \in Nat /\ PageSize \in Nat
    BY <1>1, SizesAre
  <2>5. at.page < MaxPage
    <3>1. SUFFICES ASSUME MaxPage <= at.page
                   PROVE  FALSE
      BY <2>4
    <3>2. MaxPage * PageSize <= at.page * PageSize
      BY <2>4, <3>1, Multiples
    <3> DEFINE a == MaxPage * PageSize
               b == at.page * PageSize
    <3>3. a \in Nat /\ b \in Nat
      BY <2>4, Multiples
    <3>4. a <= b /\ total <= a /\ b < total
      BY <2>2, <2>3, <3>2
    <3> HIDE DEF a, b
    <3> QED
      BY <2>2, <3>3, <3>4
  <2>6. at.page + 1 \in 1..MaxPage
    BY <1>1, <2>4, <2>5
  <2>7. IsAddress(u) /\ Leads(cat, u)
    BY <1>2, <2>6, ShareServed
  <2> QED
    BY <2>1, <2>7, FollowKeeps
<1>11. CASE UNCHANGED visitorVars
  BY <1>1, <1>11 DEF visitorVars, VisitorInv, VisitorTyped, VisitorTypeOK, FollowedServes
<1> QED
  BY <1>4, <1>5, <1>6, <1>7, <1>8, <1>9, <1>10, <1>11 DEF VisitorNext

\* What a visitor sees is of tidy filters, and an address a link or a redirect led
\* to (PageURL, HandleIndex) is canonical, in range, of a tag that is listed, and
\* served unless the tag universe lacks a tag of the list.
THEOREM VisitorInvHolds ==
    VisitorSpec => []VisitorInv
<1>1. VisitorInit => VisitorInv
  BY VisitorStarts
<1>2. VisitorInv /\ [VisitorNext]_visitorVars => VisitorInv'
  BY VisitorSteps
<1> QED
  BY <1>1, <1>2, PTL DEF VisitorSpec

\* Nothing in an address is read two ways, and links lead where they should.
LEMMA NoRedirects ==
    ASSUME VisitorInv
    PROVE  NoRedirectFollows
<1>1. Tidy(Here, cat.rates)
  BY HereTidy DEF VisitorInv
<1>2. ToSet(Here.tags) \cap ToSet(Here.not) = {}
  BY <1>1 DEF Tidy, IsFilters
<1> QED
  BY <1>2 DEF VisitorInv, FollowedServes, Leads, NoRedirectFollows

-----------------------------------------------------------------------------
(* Requests that differ in nothing but how the answer is shown.            *)

\* What decides the matches.
SameMatches(s, n) ==
    n.query = s.query /\ n.tags = s.tags /\ n.not = s.not /\ n.author = s.author
    /\ n.price = s.price /\ n.like = s.like /\ n.minFirst = s.minFirst

\* They have the same matches, in number.
LEMMA SameTotal ==
    ASSUME NEW db, IsDataset(db), NEW o, IsRequest(o), NEW p, IsRequest(p), SameMatches(o, p)
    PROVE  Find(db, o).total = Find(db, p).total
<1> DEFINE s == Servable(db, o)
           n == Servable(db, p)
<1>1. SameMatches(s, n)
  BY ServableIs DEF SameMatches
<1>2. /\ Find(db, o).total = IF Unlike(db, s) THEN 0 ELSE Cardinality(Answers(db, s))
      /\ Find(db, p).total = IF Unlike(db, n) THEN 0 ELSE Cardinality(Answers(db, n))
  BY TotalIs
<1> HIDE DEF s, n
<1>3. Unlike(db, s) <=> Unlike(db, n)
  BY <1>1 DEF Unlike, SameMatches
<1>4. Listed(db, n) = Listed(db, s) /\ LikeTags(db, n) = LikeTags(db, s)
      /\ \A i : ListedUSD(db, n, i) = ListedUSD(db, s, i)
  BY <1>1 DEF SameMatches, Listed, LikeTags, ListedUSD
<1>5. ASSUME NEW like, NEW a, NEW usd, NEW mode
      PROVE  IndexMatches(n, like, a, usd, mode) <=> IndexMatches(s, like, a, usd, mode)
  BY <1>1 DEF IndexMatches, SameMatches
<1>6. ASSUME NEW mode
      PROVE  Admitted(db, n, mode) = Admitted(db, s, mode)
  BY <1>4, <1>5 DEF Admitted
<1>7. ModeOf(db, n) = ModeOf(db, s)
  <2>1. CASE s.query = NoQuery
    BY <1>1, <2>1 DEF ModeOf, SameMatches
  <2>2. CASE s.query # NoQuery
    <3>1. n.query # NoQuery /\ (CanFallBack(n) <=> CanFallBack(s))
      BY <1>1, <2>2 DEF CanFallBack, SameMatches
    <3>2. MatchingDocs(db, n, "all") = MatchingDocs(db, s, "all")
      BY <1>6, <2>2, <3>1, AdmittedByIndex
    <3> QED
      BY <2>2, <3>1, <3>2 DEF ModeOf, Mode
  <2> QED
    BY <2>1, <2>2
<1>8. Answers(db, n) = Answers(db, s)
  BY <1>6, <1>7 DEF Answers
<1> QED
  BY <1>2, <1>3, <1>8

\* They agree in all that is looked at to answer them, the ordering that is
\* used for one included.
SameRequest(s, n) ==
    /\ SameMatches(s, n) /\ ResolvedSort(n) = ResolvedSort(s)
    /\ n.facets = s.facets /\ n.limit = s.limit /\ n.page = s.page

\* Each answers as the other does.
LEMMA SameAnswer ==
    ASSUME NEW db, NEW s, NEW n, SameRequest(s, n)
    PROVE  /\ SearchEngine(db, s) = SearchEngine(db, n)
           /\ SearchIndex(db, s) = SearchIndex(db, n)
           /\ (Filtered(s) <=> Filtered(n))
<1>1. /\ n.query = s.query /\ n.tags = s.tags /\ n.not = s.not /\ n.author = s.author
      /\ n.price = s.price /\ n.like = s.like /\ n.minFirst = s.minFirst
      /\ ResolvedSort(n) = ResolvedSort(s) /\ n.facets = s.facets /\ n.limit = s.limit /\ n.page = s.page
  BY DEF SameRequest, SameMatches
<1>2. /\ (Filtered(s) <=> Filtered(n)) /\ (Unlike(db, s) <=> Unlike(db, n))
      /\ LikeTags(db, s) = LikeTags(db, n) /\ PageLimit(s) = PageLimit(n)
  BY <1>1 DEF Filtered, Unlike, LikeTags, PageLimit
<1>3. EngineFilter(db, s) = EngineFilter(db, n)
  BY <1>1, <1>2 DEF EngineFilter
<1>4. ASSUME NEW f, NEW order
      PROVE  EngineHits(db, s, f, order) = EngineHits(db, n, f, order)
  <2>1. (Everything(s, f) <=> Everything(n, f)) /\ (NewestOnly(s, f) <=> NewestOnly(n, f))
    BY <1>1, <1>2 DEF Everything, NewestOnly
  <2> QED
    BY <1>1, <2>1 DEF EngineHits
<1>5. SearchEngine(db, s) = SearchEngine(db, n)
  BY <1>1, <1>2, <1>3, <1>4 DEF SearchEngine
<1>6. ASSUME NEW mode
      PROVE  MatchingDocs(db, s, mode) = MatchingDocs(db, n, mode)
  <2>1. \A like, a, usd : IndexMatches(n, like, a, usd, mode) <=> IndexMatches(s, like, a, usd, mode)
    BY <1>1 DEF IndexMatches
  <2> QED
    BY <1>2, <2>1 DEF MatchingDocs
<1>7. Mode(db, s) = Mode(db, n)
  BY <1>1, <1>6 DEF Mode, CanFallBack
<1>8. IndexOrder(db, s) = IndexOrder(db, n)
  <2>1. ASSUME NEW i
        PROVE  IndexKey(db, s, i) = IndexKey(db, n, i)
    BY <1>1 DEF IndexKey, Score
  <2> QED
    BY <2>1 DEF IndexOrder
<1>9. ASSUME NEW from, NEW size, NEW facets
      PROVE  QueryIndex(db, s, from, size, facets) = QueryIndex(db, n, from, size, facets)
  BY <1>1, <1>2, <1>6, <1>7, <1>8 DEF QueryIndex, RunQuery
<1>10. SearchUncached(db, s) = SearchUncached(db, n)
  BY <1>1, <1>2, <1>9 DEF SearchUncached
<1>11. InHitCache(s) <=> InHitCache(n)
  BY <1>1, <1>2 DEF InHitCache, HitCacheable
<1>12. SearchIndex(db, s) = SearchIndex(db, n)
  <2> DEFINE size == HitCacheDepth * PageSize
  <2>1. QueryIndex(db, s, 0, size, "wanted") = QueryIndex(db, n, 0, size, "wanted")
    BY <1>9
  <2> QED
    BY Zenon, <1>1, <1>2, <1>10, <1>11, <2>1 DEF SearchIndex
<1> QED
  BY <1>2, <1>5, <1>12

\* Naming the ordering that the server would pick asks for the same.
LEMMA NamedAnswer ==
    ASSUME NEW db, NEW o, IsRequest(o), NEW p, IsRequest(p),
           p = [o EXCEPT !.sort = Default], o.sort = IF o.query = NoQuery THEN "popular" ELSE "relevance"
    PROVE  Find(db, o) = Find(db, p)
<1> DEFINE s == Servable(db, o)
           n == Servable(db, p)
<1>1. SameMatches(o, p) /\ p.facets = o.facets /\ p.limit = o.limit /\ p.page = o.page /\ p.sort = Default
  BY DEF IsRequest, SameMatches
<1>9. /\ s.query = o.query /\ s.tags = o.tags /\ s.not = o.not /\ s.author = o.author
      /\ s.like = o.like /\ s.minFirst = o.minFirst /\ s.limit = o.limit
      /\ s.facets = o.facets /\ s.page = o.page
      /\ s.sort = IF o.sort = "recent" /\ ~HasRecency(db) THEN "popular" ELSE o.sort
      /\ s.price = IF o.price \in DOMAIN Ceiling /\ ~HasPriceBands(db) THEN None ELSE o.price
  BY ServableIs
<1>10. /\ n.query = p.query /\ n.tags = p.tags /\ n.not = p.not /\ n.author = p.author
       /\ n.like = p.like /\ n.minFirst = p.minFirst /\ n.limit = p.limit
       /\ n.facets = p.facets /\ n.page = p.page
       /\ n.sort = IF p.sort = "recent" /\ ~HasRecency(db) THEN "popular" ELSE p.sort
       /\ n.price = IF p.price \in DOMAIN Ceiling /\ ~HasPriceBands(db) THEN None ELSE p.price
  BY ONLY IsRequest(p), ServableIs
<1> HIDE DEF s, n
<1>2. SameMatches(s, n) /\ n.facets = s.facets /\ n.limit = s.limit /\ n.page = s.page
  BY <1>1, <1>9, <1>10 DEF SameMatches
<1>3. s.query = o.query /\ n.query = o.query
  BY <1>1, <1>9, <1>10 DEF SameMatches
<1>4. Default \notin {"popular", "title", "price", "recent", "new", "relevance"}
  BY Zenon DEF Default
<1>5. s.sort = o.sort /\ n.sort = Default
  <2>1. o.sort # "recent" /\ p.sort # "recent"
    BY <1>1, <1>4
  <2> QED
    BY <1>1, <1>9, <1>10, <2>1
<1>6. ResolvedSort(n) = ResolvedSort(s)
  BY <1>3, <1>4, <1>5 DEF ResolvedSort
<1>7. SameRequest(s, n)
  BY <1>2, <1>6 DEF SameRequest
<1>8. /\ SearchEngine(db, s) = SearchEngine(db, n) /\ SearchIndex(db, s) = SearchIndex(db, n)
      /\ (Filtered(s) <=> Filtered(n)) /\ s.query = n.query /\ s.page = n.page
  BY <1>2, <1>3, <1>7, SameAnswer
<1> QED
  BY <1>6, <1>8 DEF Find, s, n

-----------------------------------------------------------------------------
(* What redirects, links and the access log make of an address.            *)

\* A redirect keeps the answer.
LEMMA RedirectKeeps ==
    ASSUME VisitorInv, VisitorNext
    PROVE  RedirectKeepsAnswer
<1> SUFFICES ASSUME Canonical(cat, at) # at, via' = "redirect"
             PROVE  /\ Asked(at') = Shown
                    /\ SortInForce(Parse(at', cat.rates)) = SortInForce(Here)
  BY DEF RedirectKeepsAnswer
<1>1. Redirect
  BY DEF VisitorNext, Open, AnotherDataset, ShowDifferently, Narrow, FollowTag, LoadMore, Follow
<1>2. VisitorTyped /\ IsAddress(at) /\ at.page \in 1..MaxPage
  BY DEF VisitorInv, VisitorTyped, VisitorTypeOK
<1>3. at' = PageURL(Here, at.page)
  <2>1. at.path = "/tag" => at = TagURL(at.tags[1], at.page)
    BY <1>2 DEF IsAddress
  <2>2. at.path # "/tag"
    BY <2>1 DEF Canonical
  <2> QED
    BY <1>1, <2>2 DEF Redirect, Canonical, Here
<1> DEFINE f == Here
           page == at.page
           u == PageURL(f, page)
           g == Parse(u, cat.rates)
           o == Options(f, page, "wanted")
           p == Options(g, page, "wanted")
<1>4. IsDataset(cat) /\ Tidy(f, cat.rates) /\ IsRequest(o) /\ Shown = Find(cat, o)
  BY <1>2, HereTidy
<1>5. page \in Int /\ page \in 1..MaxPage + 1 /\ "wanted" \in {"wanted", "omitted"}
  BY <1>2, SizesAre
<1> HIDE DEF f, page
<1>6. /\ IsAddress(u) /\ u.page = page
      /\ g = [query |-> f.query, tags |-> f.tags, not |-> f.not, author |-> f.author,
              price |-> f.price, sort |-> Named(f), like |-> f.like, cur |-> f.cur]
  BY <1>4, <1>5, PageURLIs
<1>7. Tidy(g, cat.rates)
  BY <1>6, ParseIs
<1>8. at' = u
  BY <1>3 DEF f, page
<1>9. Asked(at') = Find(cat, p)
  BY <1>6, <1>8 DEF Asked
<1> HIDE DEF u, g
<1>10. g.query = f.query /\ g.tags = f.tags /\ g.not = f.not /\ g.author = f.author /\ g.price = f.price
       /\ g.sort = Named(f) /\ g.like = f.like
  BY <1>6
<1>11. IsRequest(p)
  BY <1>5, <1>7, OptionsAre
<1>12. /\ o = [query |-> f.query, tags |-> ToSet(f.tags), not |-> ToSet(f.not), author |-> f.author,
               price |-> f.price, sort |-> f.sort, like |-> f.like, minFirst |-> 0, limit |-> 0,
               facets |-> "wanted", page |-> page]
       /\ p = [query |-> f.query, tags |-> ToSet(f.tags), not |-> ToSet(f.not), author |-> f.author,
               price |-> f.price, sort |-> Named(f), like |-> f.like, minFirst |-> 0, limit |-> 0,
               facets |-> "wanted", page |-> page]
  BY <1>10 DEF Options
<1> HIDE DEF o, p
<1>13. DefaultSort(g) = DefaultSort(f)
  BY <1>10 DEF DefaultSort
<1>14. CASE Named(f) = f.sort
  <2>1. p = o /\ g.sort = f.sort
    BY <1>10, <1>12, <1>14
  <2>2. SortInForce(g) = SortInForce(f)
    BY Zenon, <1>13, <2>1 DEF SortInForce
  <2> QED
    BY <1>4, <1>8, <1>9, <2>1, <2>2 DEF g, f
<1>15. CASE Named(f) # f.sort
  <2>1. Named(f) = Default /\ f.sort = DefaultSort(f) /\ f.sort # Default
    BY Zenon, <1>15 DEF Named
  <2>2. p = [o EXCEPT !.sort = Default]
    BY <1>12, <2>1
  <2>3. o.sort = (IF o.query = NoQuery THEN "popular" ELSE "relevance")
    BY <1>12, <2>1 DEF DefaultSort
  <2>4. Find(cat, o) = Find(cat, p)
    BY <1>4, <1>11, <2>2, <2>3, NamedAnswer
  <2>5. SortInForce(g) = SortInForce(f)
    BY Zenon, <1>10, <1>13, <2>1 DEF SortInForce
  <2> QED
    BY <1>4, <1>8, <1>9, <2>4, <2>5 DEF g, f
<1> QED
  BY <1>14, <1>15

\* The filters agree in what narrows the catalog.
SameNarrowing(f, g) ==
    f.query = g.query /\ f.tags = g.tags /\ f.not = g.not /\ f.author = g.author
    /\ f.price = g.price /\ f.like = g.like

\* The key of the access log is what narrows the catalog.
LEMMA KeyIs ==
    ASSUME NEW u, NEW v, NEW rates
    PROVE  /\ SameNarrowing(Parse(u, rates), Parse(v, rates)) => NarrowingKey(u) = NarrowingKey(v)
           /\ NarrowingKey(u) = NarrowingKey(v) /\ NarrowingKey(u) # <<>> =>
                SameNarrowing(Parse(u, rates), Parse(v, rates))
<1> DEFINE no == <<>>
           Bare1(x) == [Parse(x, no) EXCEPT !.sort = Default]
           Bare2(x) == [Bare1(x) EXCEPT !.cur = Default]
           fields(x) == [query |-> Parse(x, rates).query, tags |-> Parse(x, rates).tags,
                         not |-> Parse(x, rates).not, author |-> Parse(x, rates).author,
                         price |-> Parse(x, rates).price, sort |-> Default,
                         like |-> Parse(x, rates).like, cur |-> Default]
<1>1. ASSUME NEW x
      PROVE  /\ Bare2(x) = fields(x)
             /\ NarrowingKey(x) = IF Bare2(x) = NoFilters THEN <<>> ELSE <<Bare2(x)>>
  <2> HIDE DEF no
  <2>1. /\ Parse(x, no).query = Parse(x, rates).query /\ Parse(x, no).tags = Parse(x, rates).tags
        /\ Parse(x, no).not = Parse(x, rates).not /\ Parse(x, no).author = Parse(x, rates).author
        /\ Parse(x, no).price = Parse(x, rates).price /\ Parse(x, no).like = Parse(x, rates).like
    BY DEF Parse
  <2> DEFINE g == Parse(x, no)
             h == [g EXCEPT !.sort = Default]
  <2>2. g = [query |-> g.query, tags |-> g.tags, not |-> g.not, author |-> g.author,
             price |-> g.price, sort |-> g.sort, like |-> g.like, cur |-> g.cur]
    BY DEF Parse
  <2>3. Bare2(x) = [h EXCEPT !.cur = Default]
    OBVIOUS
  <2>4. /\ g.query = Parse(x, rates).query /\ g.tags = Parse(x, rates).tags
        /\ g.not = Parse(x, rates).not /\ g.author = Parse(x, rates).author
        /\ g.price = Parse(x, rates).price /\ g.like = Parse(x, rates).like
    BY <2>1
  <2> HIDE DEF g
  <2>5. h = [query |-> g.query, tags |-> g.tags, not |-> g.not, author |-> g.author,
             price |-> g.price, sort |-> Default, like |-> g.like, cur |-> g.cur]
    BY <2>2
  <2> HIDE DEF h
  <2>6. [h EXCEPT !.cur = Default] = fields(x)
    BY <2>4, <2>5
  <2>7. NarrowingKey(x) = IF Bare2(x) = NoFilters THEN <<>> ELSE <<Bare2(x)>>
    BY Zenon DEF NarrowingKey, no
  <2> HIDE DEF Bare2, fields
  <2> QED
    BY <2>3, <2>6, <2>7
<1> HIDE DEF Bare2
<1>2. ASSUME SameNarrowing(Parse(u, rates), Parse(v, rates))
      PROVE  NarrowingKey(u) = NarrowingKey(v)
  <2>1. fields(u) = fields(v)
    BY <1>2 DEF SameNarrowing
  <2> HIDE DEF fields
  <2>2. Bare2(u) = Bare2(v)
    BY <1>1, <2>1
  <2>3. /\ NarrowingKey(u) = IF Bare2(u) = NoFilters THEN <<>> ELSE <<Bare2(u)>>
        /\ NarrowingKey(v) = IF Bare2(v) = NoFilters THEN <<>> ELSE <<Bare2(v)>>
    BY <1>1
  <2>4. CASE Bare2(u) = NoFilters
    BY Zenon, <2>2, <2>3, <2>4
  <2>5. CASE Bare2(u) # NoFilters
    <3>1. NarrowingKey(u) = <<Bare2(u)>> /\ NarrowingKey(v) = <<Bare2(v)>>
      BY Zenon, <2>2, <2>3, <2>5
    <3> QED
      BY Zenon, <2>2, <3>1
  <2> QED
    BY <2>4, <2>5
<1>3. ASSUME NarrowingKey(u) = NarrowingKey(v), NarrowingKey(u) # <<>>
      PROVE  SameNarrowing(Parse(u, rates), Parse(v, rates))
  <2> HIDE DEF fields
  <2>1. /\ NarrowingKey(u) = IF Bare2(u) = NoFilters THEN <<>> ELSE <<Bare2(u)>>
        /\ NarrowingKey(v) = IF Bare2(v) = NoFilters THEN <<>> ELSE <<Bare2(v)>>
        /\ Bare2(u) = fields(u) /\ Bare2(v) = fields(v)
    BY <1>1
  <2>2. NarrowingKey(u) = <<Bare2(u)>> /\ NarrowingKey(v) = <<Bare2(v)>>
    BY Zenon, <1>3, <2>1
  <2>3. fields(u) = fields(v)
    <3> DEFINE a == Bare2(u)
               b == Bare2(v)
    <3>1. <<a>> = <<b>>
      BY Zenon, <1>3, <2>2
    <3> HIDE DEF a, b
    <3>2. a = b
      BY ONLY <3>1
    <3> QED
      BY Zenon, <2>1, <3>2 DEF a, b
  <2> QED
    BY <2>3 DEF fields, SameNarrowing
<1> QED
  BY <1>2, <1>3

\* Filters that narrow alike are answered with as many assets, on any page.
LEMMA NarrowingDecides ==
    ASSUME NEW db, IsDataset(db), NEW f, Tidy(f, db.rates), NEW g, Tidy(g, db.rates),
           SameNarrowing(f, g), NEW p \in 1..MaxPage + 1, NEW q \in 1..MaxPage + 1
    PROVE  Find(db, Options(f, p, "wanted")).total = Find(db, Options(g, q, "wanted")).total
<1> DEFINE o == Options(f, p, "wanted")
           n == Options(g, q, "wanted")
<1>1. "wanted" \in {"wanted", "omitted"}
  OBVIOUS
<1>2. IsRequest(o) /\ IsRequest(n)
  BY <1>1, OptionsAre
<1>3. SameMatches(o, n)
  BY DEF SameMatches, Options, SameNarrowing
<1> HIDE DEF o, n
<1>4. Find(db, o).total = Find(db, n).total
  BY <1>2, <1>3, SameTotal
<1> QED
  BY <1>4 DEF o, n

\* The log takes nothing for a re-display that is not one, and no change of the
\* order or the currency for a search.
LEMMA UncountedRedisplays ==
    ASSUME VisitorInv, VisitorNext, VisitorInv'
    PROVE  UncountedIsRedisplay
<1> SUFFICES ASSUME via' = "link", at'.path = "/"
             PROVE  /\ ~IsSearch(at', at) /\ NarrowingKey(at') # <<>> => Asked(at').total = Shown.total
                    /\ at.path = "/" /\ at' \in DisplayAddresses(cat, Here) => ~IsSearch(at', at)
  BY DEF UncountedIsRedisplay
<1>1. VisitorTyped /\ IsAddress(at) /\ at.page \in 1..MaxPage
  BY DEF VisitorInv, VisitorTyped, VisitorTypeOK
<1> DEFINE u == at'
           f == Here
           g == Parse(u, cat.rates)
           shown == Find(cat, Options(f, at.page, "wanted"))
<1>2. IsAddress(u) /\ u.page \in 1..MaxPage
  BY DEF VisitorInv, VisitorTyped, VisitorTypeOK
<1>3. /\ IsDataset(cat) /\ Tidy(f, cat.rates) /\ Shown = shown
      /\ \A h \in FilterLinks(cat, f, Shown) : Tidy(h, cat.rates)
  BY <1>1, HereTidy
<1>4. Tidy(g, cat.rates)
  BY <1>2, ParseIs
<1>5. Asked(u) = Find(cat, Options(g, u.page, "wanted"))
  BY DEF Asked
<1>6. at.page \in 1..MaxPage + 1 /\ u.page \in 1..MaxPage + 1 /\ 1 \in Int /\ "/" # "/tag" /\ at.page + 1 \in Int
  BY <1>1, <1>2, SizesAre
<1>7. f = Parse(at, cat.rates)
  BY DEF Here
<1>8. ASSUME SameNarrowing(f, g)
      PROVE  Asked(u).total = Shown.total
  <2> HIDE DEF u, f, g
  <2>1. shown.total = Find(cat, Options(g, u.page, "wanted")).total
    BY <1>3, <1>4, <1>6, <1>8, NarrowingDecides
  <2> HIDE DEF shown
  <2> QED
    BY <1>3, <1>5, <2>1
<1>9. ASSUME ~IsSearch(u, at), NarrowingKey(u) # <<>>
      PROVE  Asked(u).total = Shown.total
  <2>1. CASE u.page = 1
    <3>1. NarrowingKey(u) = NarrowingKey(at)
      BY <1>9, <2>1 DEF IsSearch
    <3>2. SameNarrowing(g, f)
      BY <1>7, <1>9, <3>1, KeyIs
    <3> HIDE DEF g, f, u
    <3>3. SameNarrowing(f, g)
      BY <3>2 DEF SameNarrowing
    <3> QED
      BY <1>8, <3>3
  <2>2. CASE u.page # 1
    <3>1. ~(\E h : Tidy(h, cat.rates) /\ u = ShareURL(h))
      <4>1. ASSUME NEW h, Tidy(h, cat.rates), u = ShareURL(h)
            PROVE  FALSE
        <5>1. ShareURL(h).page = 1
          BY <1>6, <4>1, PageURLIs DEF ShareURL
        <5> QED
          BY <2>2, <4>1, <5>1
      <4> QED
        BY <4>1
    <3>2. ~ShowDifferently /\ ~Narrow
      <4>1. ~ShowDifferently
        BY <1>1, <3>1, DisplayIs DEF ShowDifferently, Follow
      <4> QED
        BY <1>3, <3>1, <4>1 DEF Narrow, Follow
    <3>3. ~FollowTag
      <4>1. ASSUME NEW t
            PROVE  TagURL(t, 1).path = "/tag"
        BY DEF TagURL, Address
      <4> QED
        BY <1>6, <4>1 DEF FollowTag, Follow
    <3>4. LoadMore
      BY <3>2, <3>3 DEF VisitorNext, Open, Redirect, AnotherDataset
    <3>5. u = PageURL(f, at.page + 1)
      BY <3>4 DEF LoadMore, Follow
    <3> HIDE DEF u, f
    <3>6. g = [query |-> f.query, tags |-> f.tags, not |-> f.not, author |-> f.author,
               price |-> f.price, sort |-> Named(f), like |-> f.like,
               cur |-> Currency(f.cur, cat.rates)]
      BY <1>3, <1>6, <3>5, PageURLIs
    <3> HIDE DEF g
    <3>7. SameNarrowing(f, g)
      BY <3>6 DEF SameNarrowing
    <3> QED
      BY <1>8, <3>7
  <2> QED
    BY <2>1, <2>2
<1>10. ASSUME at.path = "/", u \in DisplayAddresses(cat, f)
       PROVE  ~IsSearch(u, at)
  <2>1. PICK h, x : /\ Tidy(h, cat.rates) /\ u = ShareURL(h)
                    /\ h = [f EXCEPT !.sort = x] \/ h = [f EXCEPT !.cur = x]
    <3>1. Serves(cat, at)
      BY DEF VisitorNext, Open, Redirect, AnotherDataset, ShowDifferently, Narrow, FollowTag, LoadMore,
         Follow
    <3> QED
      BY <1>1, <1>10, <3>1, DisplayIs
  <2>2. SameNarrowing(f, h)
    <3>1. f = [query |-> f.query, tags |-> f.tags, not |-> f.not, author |-> f.author,
               price |-> f.price, sort |-> f.sort, like |-> f.like, cur |-> f.cur]
      BY <1>3, FiltersAre
    <3> HIDE DEF f
    <3> QED
      BY <2>1, <3>1 DEF SameNarrowing
  <2> HIDE DEF u, f
  <2>3. g = [query |-> h.query, tags |-> h.tags, not |-> h.not, author |-> h.author,
             price |-> h.price, sort |-> Named(h), like |-> h.like,
             cur |-> Currency(h.cur, cat.rates)]
    BY <1>6, <2>1, PageURLIs DEF ShareURL
  <2>4. SameNarrowing(g, f)
    <3> HIDE DEF g
    <3> QED
      BY <2>2, <2>3 DEF SameNarrowing
  <2>5. NarrowingKey(u) = NarrowingKey(at)
    BY <1>7, <2>4, KeyIs
  <2> QED
    BY <1>6, <1>10, <2>5 DEF IsSearch
<1> QED
  BY <1>9, <1>10

\* The readings of an address agree (parseFilterValues, PageURL, isSearchRequest),
\* for any datasets, tag universes and addresses typed.  That no link leads to a
\* 404 is for datasets whose tag universe has the tags of the list.
THEOREM LinksKeepMeaningHolds ==
    VisitorSpec => LinksKeepMeaning
<1>1. VisitorInv => NoRedirectFollows
  BY NoRedirects
<1>2. VisitorInv /\ VisitorInv' /\ [VisitorNext]_visitorVars =>
         [RedirectKeepsAnswer /\ UncountedIsRedisplay]_visitorVars
  <2>1. VisitorInv /\ VisitorInv' /\ VisitorNext => RedirectKeepsAnswer /\ UncountedIsRedisplay
    BY RedirectKeeps, UncountedRedisplays
  <2> QED
    BY <2>1
<1> QED
  BY <1>1, <1>2, VisitorInvHolds, PTL DEF LinksKeepMeaning, VisitorSpec

\* SidebarTellsTruth too.
THEOREM SidebarTellsTruthHolds ==
    VisitorSpec => []SidebarTellsTruth
<1>1. VisitorInv => SidebarTellsTruth
  BY SidebarTells, VisitorConstants DEF VisitorInv, VisitorTyped, VisitorTypeOK
<1> QED
  BY <1>1, VisitorInvHolds, PTL

-----------------------------------------------------------------------------
(* The list and the index it was loaded with.                              *)

\* Loading arranges the documents by popularity, equal ones as they stand.
LEMMA LoadedIs ==
    ASSUME NEW docs, docs \in Seq(Asset)
    PROVE  \E g \in [1..Len(docs) -> 1..Len(docs)] :
              /\ Loaded(docs) = [k \in 1..Len(docs) |-> docs[g[k]]]
              /\ \A i \in 1..Len(docs) : \E k \in 1..Len(docs) : g[k] = i
              /\ \A k, l \in 1..Len(docs) : k < l =>
                    /\ g[k] # g[l]
                    /\ docs[g[k]].pop < docs[g[l]].pop \/ (docs[g[k]].pop = docs[g[l]].pop /\ g[k] <= g[l])
<1> DEFINE n == Len(docs)
           D == 1..n
           key == [i \in D |-> docs[i].pop]
           g == OrderBy(key)
<1>1. n \in Nat /\ DOMAIN docs = D /\ \A i \in D : docs[i] \in Asset
  BY SeqIsList
<1>2. key \in [D -> Int]
  <2>1. \A i \in D : docs[i].pop \in Int
    BY <1>1, AssetIs
  <2> HIDE DEF D
  <2> QED
    BY <2>1
<1> HIDE DEF key
<1>3. /\ \A i, j \in D : <<i, j>> \in KeyOrder(key) <=> (key[i] < key[j] \/ (key[i] = key[j] /\ i <= j))
      /\ IsArrangement(g, D, KeyOrder(key))
  BY <1>1, <1>2, KeyOrderIs
<1> HIDE DEF g
<1>4. /\ Len(g) = Cardinality(D) /\ DOMAIN g = 1..Len(g) /\ g \in [1..Len(g) -> D]
      /\ \A k, l \in 1..Len(g) : g[k] = g[l] => k = l
  <2> HIDE DEF D
  <2> QED
    BY <1>3, ArrangementSize
<1>5. Cardinality(D) = n
  BY <1>1, UpToSize
<1>6. g \in [D -> D]
  BY <1>4, <1>5
<1>7. \A i \in D : \E k \in D : g[k] = i
  BY <1>3, <1>4, <1>5 DEF IsArrangement
<1>8. ASSUME NEW k \in D, NEW l \in D, k < l
      PROVE  /\ g[k] # g[l]
             /\ docs[g[k]].pop < docs[g[l]].pop \/ (docs[g[k]].pop = docs[g[l]].pop /\ g[k] <= g[l])
  <2>1. g[k] \in D /\ g[l] \in D /\ g[k] # g[l]
    <3>1. k # l
      BY <1>1, <1>8
    <3> QED
      BY <1>4, <1>5, <1>6, <3>1
  <2>2. <<g[k], g[l]>> \in KeyOrder(key)
    BY <1>3, <1>4, <1>5, <1>8 DEF IsArrangement
  <2>3. key[g[k]] < key[g[l]] \/ (key[g[k]] = key[g[l]] /\ g[k] <= g[l])
    BY <1>3, <2>1, <2>2
  <2>4. key[g[k]] = docs[g[k]].pop /\ key[g[l]] = docs[g[l]].pop
    BY <2>1 DEF key
  <2> QED
    BY <2>1, <2>3, <2>4
<1>9. Loaded(docs) = [k \in D |-> docs[g[k]]]
  BY <1>1 DEF Loaded, g, key
<1> QED
  BY <1>6, <1>7, <1>8, <1>9

\* The ids of a list, in its order.
LEMMA IdsAre ==
    ASSUME NEW n \in Nat, NEW list, DOMAIN list = 1..n
    PROVE  /\ IsList(Ids(list)) /\ Len(Ids(list)) = n /\ DOMAIN Ids(list) = 1..n
           /\ \A k \in 1..n : Ids(list)[k] = list[k].id
<1> DEFINE f == [k \in 1..n |-> list[k].id]
<1>1. Ids(list) = f
  BY DEF Ids
<1>2. f = [k \in 1..n |-> f[k]] /\ \A k \in 1..n : f[k] = list[k].id
  OBVIOUS
<1> HIDE DEF f
<1>3. IsList(f) /\ Len(f) = n /\ DOMAIN f = 1..n
  BY <1>2, ListMade
<1> QED
  BY <1>1, <1>2, <1>3

\* Wrapping makes a number of a number.
LEMMA WrapInt ==
    ASSUME NEW x \in Int
    PROVE  Wrap(x) \in Int
<1> DEFINE b == 2 * MaxInt + 2
           a == x + MaxInt + 1
<1>1. b \in Nat /\ b > 0 /\ a \in Int /\ MaxInt \in Int
  BY SizesAre
<1> HIDE DEF a, b
<1>2. a % b \in Int
  BY <1>1
<1>3. (a % b) - (MaxInt + 1) \in Int
  BY <1>1, <1>2
<1> QED
  BY <1>3 DEF Wrap, a, b

\* A slice has nothing that is not in the list.
LEMMA SliceWithin ==
    ASSUME NEW s, IsList(s), NEW start \in Nat, NEW size \in Nat
    PROVE  /\ IsList(Slice(s, start, size))
           /\ \A i \in 1..Len(Slice(s, start, size)) : \E k \in 1..Len(s) : Slice(s, start, size)[i] = s[k]
<1> DEFINE end == Wrap(start + size)
           e == IF end < start \/ end > Len(s) THEN Len(s) ELSE end
           cut == SubSeq(s, start + 1, e)
           slice == Slice(s, start, size)
<1>1. Len(s) \in Nat
  BY ListIs
<1>2. CASE start >= Len(s)
  <2>1. slice = <<>>
    BY <1>2 DEF Slice
  <2>2. <<>> \in Seq({}) /\ Len(<<>>) = 0
    BY EmptySeq
  <2>5. IsList(<<>>)
    BY <2>2, SeqIsList
  <2>6. 1..Len(<<>>) = 1..0
    BY <2>2
  <2>7. 1..0 = {}
    OBVIOUS
  <2>3. IsList(<<>>) /\ 1..Len(<<>>) = {}
    BY ONLY <2>5, <2>6, <2>7
  <2> HIDE DEF slice
  <2>4. IsList(slice) /\ 1..Len(slice) = {}
    BY <2>1, <2>3
  <2> QED
    BY <2>4 DEF slice
<1>3. CASE ~(start >= Len(s))
  <2>1. slice = cut
    BY <1>3 DEF Slice
  <2>2. end \in Int
    BY WrapInt
  <2>3. e \in Nat /\ e <= Len(s)
    <3> HIDE DEF end
    <3> QED
      BY <1>1, <2>2
  <2> HIDE DEF e, slice
  <2>4. IsList(cut) /\ \A i \in 1..Len(cut) : cut[i] = s[start + i] /\ start + i \in 1..e
    BY <2>3, CutIs
  <2>5. \A k \in 1..e : k \in 1..Len(s)
    BY <1>1, <2>3
  <2> HIDE DEF cut
  <2> QED
    BY <2>1, <2>4, <2>5 DEF slice
<1> QED
  BY <1>2, <1>3

\* A list that is the documents of the index in the order they are loaded in.
IsLoading(db, g) ==
    /\ g \in [1..Len(db.docs) -> 1..Len(db.docs)]
    /\ Len(db.data) = Len(db.docs)
    /\ \A k \in 1..Len(db.data) : db.data[k] = db.docs[g[k]]
    /\ \A i \in 1..Len(db.docs) : \E k \in 1..Len(db.docs) : g[k] = i
    /\ \A k, l \in 1..Len(db.docs) : k < l =>
          /\ g[k] # g[l]
          /\ \/ db.docs[g[k]].pop < db.docs[g[l]].pop
             \/ db.docs[g[k]].pop = db.docs[g[l]].pop /\ g[k] <= g[l]

\* A list built with its index is one.
LEMMA UntornLoading ==
    ASSUME NEW db, IsDataset(db), db.data = Loaded(db.docs)
    PROVE  \E g : IsLoading(db, g)
<1> DEFINE docs == db.docs
           n == Len(docs)
<1>1. docs \in Seq(Asset) /\ n \in Nat
  BY DatasetIs
<1> HIDE DEF docs
<1>2. PICK g \in [1..n -> 1..n] :
              /\ Loaded(docs) = [k \in 1..n |-> docs[g[k]]]
              /\ \A i \in 1..n : \E k \in 1..n : g[k] = i
              /\ \A k, l \in 1..n : k < l =>
                    /\ g[k] # g[l]
                    /\ docs[g[k]].pop < docs[g[l]].pop \/ (docs[g[k]].pop = docs[g[l]].pop /\ g[k] <= g[l])
  BY <1>1, LoadedIs
<1>3. db.data = [k \in 1..n |-> docs[g[k]]]
  BY <1>2 DEF docs
<1>4. Len(db.data) = n /\ \A k \in 1..n : db.data[k] = docs[g[k]]
  BY <1>1, <1>3, ListMade
<1>5. /\ g \in [1..n -> 1..n]
      /\ \A i \in 1..n : \E k \in 1..n : g[k] = i
      /\ \A k, l \in 1..n : k < l =>
            /\ g[k] # g[l]
            /\ docs[g[k]].pop < docs[g[l]].pop \/ (docs[g[k]].pop = docs[g[l]].pop /\ g[k] <= g[l])
  BY ONLY <1>2
<1>6. IsLoading(db, g)
  BY ONLY <1>4, <1>5 DEF IsLoading, docs
<1> QED
  BY ONLY <1>6

\* Where prices count, the index has those of the list.
LEMMA SamePrice ==
    ASSUME NEW db, IsDataset(db), NEW s, Untorn(db, s), NEW g, IsLoading(db, g), NEW i \in 1..Len(db.data)
    PROVE  /\ g[i] \in 1..Len(db.docs) /\ db.data[i] = db.docs[g[i]]
           /\ db.priced => DocUSD(db, g[i]) = PriceUSD(db.data[i], db.rates)
<1>1. g[i] \in 1..Len(db.docs) /\ db.data[i] = db.docs[g[i]]
  BY DEF IsLoading
<1>2. db.priced => db.docRates = db.rates
  BY DEF Untorn
<1> QED
  BY <1>1, <1>2 DEF DocUSD

\* A document is found where its asset is.
LEMMA SameDecision ==
    ASSUME NEW db, IsDataset(db), NEW s, IsRequest(s), s.query = NoQuery, Servable(db, s) = s,
           Untorn(db, s), NEW g, IsLoading(db, g), NEW i \in 1..Len(db.data)
    PROVE  i \in EngineWanted(db, s) <=> g[i] \in MatchingDocs(db, s, "all")
<1> DEFINE a == db.data[i]
           usd == PriceUSD(a, db.rates)
           like == LikeTags(db, s)
<1>1. g[i] \in 1..Len(db.docs) /\ a = db.docs[g[i]] /\ (db.priced => DocUSD(db, g[i]) = usd)
  BY SamePrice
<1>2. DOMAIN db.docs = 1..Len(db.docs)
  BY DatasetIs
<1>3. i \in EngineWanted(db, s) <=> IndexMatches(s, like, a, usd, "all")
  BY EngineDecidesAsIndex
<1>4. g[i] \in MatchingDocs(db, s, "all") <=> IndexMatches(s, like, a, DocUSD(db, g[i]), "all")
  BY <1>1, <1>2 DEF MatchingDocs
<1>5. CASE db.priced
  BY <1>1, <1>3, <1>4, <1>5
<1>6. CASE ~db.priced
  <2>1. ~HasPriceBands(db)
    BY <1>6 DEF HasPriceBands
  <2>2. s.price \notin DOMAIN Ceiling
    <3>1. s.price = IF s.price \in DOMAIN Ceiling /\ ~HasPriceBands(db) THEN None ELSE s.price
      BY ServableIs
    <3> QED
      BY <2>1, <3>1, Bands
  <2>3. \A u, v : PriceQuery(s.price, a, u) <=> PriceQuery(s.price, a, v)
    BY <2>2 DEF PriceQuery
  <2> QED
    BY <1>3, <1>4, <2>3 DEF IndexMatches
<1> QED
  BY <1>5, <1>6

\* What the engine puts before another asset, the index does.
LEMMA SameOrder ==
    ASSUME NEW db, IsDataset(db), NEW s, IsRequest(s), s.query = NoQuery, Untorn(db, s),
           NEW g, IsLoading(db, g), NEW i \in 1..Len(db.data), NEW j \in 1..Len(db.data), i # j,
           <<i, j>> \in KeyOrder(EngineKey(db, ResolvedSort(s)))
    PROVE  g[i] # g[j] /\ <<g[i], g[j]>> \in IndexOrder(db, s)
<1> DEFINE rs == ResolvedSort(s)
           n == Len(db.data)
           key == EngineKey(db, rs)
<1>1. /\ n \in Nat /\ n = Len(db.docs) /\ key \in [1..n -> Int]
  BY DatasetIs, EngineOrderIs DEF IsLoading
<1>2. /\ g[i] \in 1..n /\ db.data[i] = db.docs[g[i]] /\ (db.priced => DocUSD(db, g[i]) = PriceUSD(db.data[i], db.rates))
      /\ g[j] \in 1..n /\ db.data[j] = db.docs[g[j]] /\ (db.priced => DocUSD(db, g[j]) = PriceUSD(db.data[j], db.rates))
  BY <1>1, SamePrice
<1>3. key[i] < key[j] \/ (key[i] = key[j] /\ i <= j)
  <2> HIDE DEF n, key
  <2> QED
    BY <1>1, KeyOrderIs DEF n, key
<1>4. rs \in {"popular", "title", "price", "recent", "new"}
  BY DEF ResolvedSort
<1>5. rs = "price" => db.priced
  BY DEF Untorn, ResolvedSort
<1>6. i < j => /\ g[i] # g[j]
               /\ \/ db.docs[g[i]].pop < db.docs[g[j]].pop
                  \/ db.docs[g[i]].pop = db.docs[g[j]].pop /\ g[i] <= g[j]
  BY <1>1 DEF IsLoading
<1>7. g[i] # g[j]
  BY <1>1, <1>6 DEF IsLoading
<1>8. \/ IndexKey(db, s, g[i]) < IndexKey(db, s, g[j])
      \/ /\ IndexKey(db, s, g[i]) = IndexKey(db, s, g[j])
         /\ \/ db.docs[g[i]].pop < db.docs[g[j]].pop
            \/ (db.docs[g[i]].pop = db.docs[g[j]].pop /\ g[i] <= g[j])
  <2>1. CASE rs = "popular"
    <3>1. key[i] = 0 /\ key[j] = 0
      BY <2>1 DEF EngineKey, SortKey
    <3>2. IndexKey(db, s, g[i]) = db.docs[g[i]].pop /\ IndexKey(db, s, g[j]) = db.docs[g[j]].pop
      BY <2>1 DEF IndexKey
    <3>3. i < j
      BY <1>1, <1>3, <3>1
    <3> QED
      BY <1>6, <3>2, <3>3
  <2>2. CASE rs # "popular"
    <3>1. IndexKey(db, s, g[i]) = key[i] /\ IndexKey(db, s, g[j]) = key[j]
      <4>1. /\ IndexKey(db, s, g[i]) = SortKey(rs, db.data[i], DocUSD(db, g[i]))
            /\ IndexKey(db, s, g[j]) = SortKey(rs, db.data[j], DocUSD(db, g[j]))
        BY <1>2, <1>4, <2>2 DEF IndexKey
      <4>2. /\ key[i] = SortKey(rs, db.data[i], PriceUSD(db.data[i], db.rates))
            /\ key[j] = SortKey(rs, db.data[j], PriceUSD(db.data[j], db.rates))
        BY DEF EngineKey
      <4>3. \A a, u, v : rs # "price" => SortKey(rs, a, u) = SortKey(rs, a, v)
        BY <1>4 DEF SortKey
      <4> QED
        BY <1>2, <1>5, <4>1, <4>2, <4>3
    <3>2. key[i] = key[j] => i < j
      BY <1>1, <1>3
    <3> QED
      BY <1>3, <1>6, <3>1, <3>2
  <2> QED
    BY <2>1, <2>2
<1> QED
  BY <1>1, <1>2, <1>7, <1>8, IndexOrderIs

\* The hits of the engine are those of the index, in its order.
LEMMA SameHits ==
    ASSUME NEW db, IsDataset(db), NEW s, IsRequest(s), s.query = NoQuery, Servable(db, s) = s,
           Untorn(db, s), NEW g, IsLoading(db, g)
    PROVE  IndexHitsOf(db, s, "all") = [k \in 1..Len(EngineHitsOf(db, s)) |-> g[EngineHitsOf(db, s)[k]]]
<1> DEFINE S == EngineWanted(db, s)
           T == MatchingDocs(db, s, "all")
           hits == EngineHitsOf(db, s)
           order == KeyOrder(EngineKey(db, ResolvedSort(s)))
           other == IndexOrder(db, s)
           gS == [x \in S |-> g[x]]
<1>1. IsArrangement(hits, S, order)
  BY EngineHitsAre DEF EngineHitsOf
<1>2. S \subseteq 1..Len(db.data) /\ T \subseteq 1..Len(db.docs) /\ IsOrder(other, T)
  BY IndexHitsAre DEF EngineWanted
<1>3. \A x \in 1..Len(db.data) : x \in S <=> g[x] \in T
  BY SameDecision
<1>4. \A x, y \in S : x # y /\ <<x, y>> \in order => gS[x] # gS[y] /\ <<gS[x], gS[y]>> \in other
  BY <1>2, SameOrder
<1>5. \A t \in T : \E x \in S : gS[x] = t
  BY <1>2, <1>3 DEF IsLoading
<1>6. gS \in [S -> T]
  BY <1>2, <1>3
<1>7. /\ hits \in [1..Len(hits) -> S] /\ Len(hits) \in Nat
  <2> HIDE DEF S, order, hits
  <2> QED
    BY <1>1, ArrangementSize
<1> HIDE DEF S, T, hits, order, other
<1>8. [k \in 1..Len(hits) |-> gS[hits[k]]] = [k \in 1..Len(hits) |-> g[hits[k]]]
  BY <1>7
<1> HIDE DEF gS
<1>9. IsArrangement([k \in 1..Len(hits) |-> gS[hits[k]]], T, other)
  BY <1>1, <1>4, <1>5, <1>6, MappedArranged
<1>10. [k \in 1..Len(hits) |-> gS[hits[k]]] = Arranged(T, other)
  BY <1>2, <1>9, ArrangedOnly
<1> QED
  BY <1>8, <1>10 DEF T, hits, other, IndexHitsOf

\* And so are the assets they stand for.
LEMMA SameFound ==
    ASSUME NEW db, IsDataset(db), NEW s, IsRequest(s), s.query = NoQuery, Servable(db, s) = s,
           Untorn(db, s)
    PROVE  /\ Found(db.data, EngineHitsOf(db, s)) = Found(db.docs, IndexHitsOf(db, s, "all"))
           /\ Len(EngineHitsOf(db, s)) = Len(IndexHitsOf(db, s, "all"))
<1> DEFINE hits == EngineHitsOf(db, s)
           n == Len(hits)
           mapped == IndexHitsOf(db, s, "all")
<1>1. db.data = Loaded(db.docs)
  BY DEF Untorn
<1>2. PICK g : IsLoading(db, g)
  BY <1>1, UntornLoading
<1>3. mapped = [k \in 1..n |-> g[hits[k]]]
  BY <1>2, SameHits
<1>4. IsArrangement(hits, EngineWanted(db, s), KeyOrder(EngineKey(db, ResolvedSort(s))))
  BY EngineHitsAre DEF EngineHitsOf
<1>5. n \in Nat /\ DOMAIN hits = 1..n /\ hits \in [1..n -> EngineWanted(db, s)]
  BY <1>4, ArrangementSize
<1>6. ASSUME NEW k \in 1..n
      PROVE  hits[k] \in 1..Len(db.data) /\ db.data[hits[k]] = db.docs[g[hits[k]]]
  <2>1. hits[k] \in EngineWanted(db, s)
    BY <1>5
  <2>2. hits[k] \in 1..Len(db.data)
    BY <2>1 DEF EngineWanted
  <2> QED
    BY <1>2, <2>2 DEF IsLoading
<1> HIDE DEF hits, mapped
<1>7. Len(mapped) = n /\ DOMAIN mapped = 1..n
  BY <1>3, <1>5, ListMade
<1>8. \A k \in 1..n : mapped[k] = g[hits[k]]
  BY <1>3
<1>9. Found(db.data, hits) = Found(db.docs, mapped)
  BY <1>5, <1>6, <1>7, <1>8 DEF Found
<1> QED
  BY <1>7, <1>9 DEF hits, mapped

\* Every document has its asset, so no hit is dropped.
LEMMA NoneDropped ==
    ASSUME NEW db, IsDataset(db), NEW g, IsLoading(db, g), NEW s, IsRequest(s), NEW mode,
           NEW start \in Nat, NEW size \in Nat, NEW ids, ids = Ids(Found(db.docs, IndexHitsOf(db, s, mode)))
    PROVE  /\ IsList(ids) /\ Len(ids) = Len(IndexHitsOf(db, s, mode)) /\ Len(ids) <= MaxPage * PageSize
           /\ \A k \in 1..Len(ids) : ids[k] \in ToSet(Ids(db.data))
           /\ Kept(Slice(ids, start, size), ToSet(Ids(db.data))) = Slice(ids, start, size)
<1> DEFINE hits == IndexHitsOf(db, s, mode)
           n == Len(hits)
           found == Found(db.docs, hits)
           slice == Slice(ids, start, size)
           T == ToSet(Ids(db.data))
           M == MatchingDocs(db, s, mode)
<1>1. IsArrangement(hits, M, IndexOrder(db, s)) /\ M \subseteq 1..Len(db.docs)
  BY IndexHitsAre DEF IndexHitsOf
<1> HIDE DEF M
<1>2. n \in Nat /\ DOMAIN hits = 1..n /\ hits \in [1..n -> M] /\ n = Cardinality(M)
  BY <1>1, ArrangementSize
<1> HIDE DEF hits
<1>3. DOMAIN found = 1..n /\ \A k \in 1..n : found[k] = db.docs[hits[k]]
  BY <1>2 DEF Found
<1>4. ids = Ids(found)
  BY DEF hits
<1> HIDE DEF found
<1>5. IsList(ids) /\ Len(ids) = n /\ \A k \in 1..n : ids[k] = found[k].id
  BY <1>2, <1>3, <1>4, IdsAre
<1>6. DOMAIN db.data = 1..Len(db.data) /\ Len(db.data) \in Nat /\ Len(db.docs) <= MaxPage * PageSize
      /\ Len(db.docs) \in Nat
  BY DatasetIs
<1>7. /\ IsList(Ids(db.data)) /\ Len(Ids(db.data)) = Len(db.data)
      /\ \A k \in 1..Len(db.data) : Ids(db.data)[k] = db.data[k].id
  BY <1>6, IdsAre
<1>8. ASSUME NEW k \in 1..n
      PROVE  ids[k] \in T
  <2>1. hits[k] \in 1..Len(db.docs)
    BY <1>1, <1>2
  <2>2. PICK i \in 1..Len(db.docs) : g[i] = hits[k]
    BY <2>1 DEF IsLoading
  <2>3. i \in 1..Len(db.data) /\ db.data[i] = db.docs[hits[k]]
    BY <2>2 DEF IsLoading
  <2>4. ids[k] = Ids(db.data)[i]
    BY <1>3, <1>5, <1>7, <2>3
  <2> QED
    BY <1>7, <2>3, <2>4, ListIs
<1>9. n <= MaxPage * PageSize
  <2>1. IsFiniteSet(1..Len(db.docs)) /\ Cardinality(1..Len(db.docs)) = Len(db.docs)
    BY <1>6, UpToSize
  <2>2. Cardinality(M) <= Len(db.docs)
    BY <1>1, <2>1, FS_Subset
  <2>3. MaxPage * PageSize \in Nat
    BY SizesAre
  <2> HIDE DEF n
  <2> QED
    BY <1>2, <1>6, <2>2, <2>3
<1>10. IsList(slice) /\ \A i \in 1..Len(slice) : \E k \in 1..Len(ids) : slice[i] = ids[k]
  BY <1>5, SliceWithin
<1> HIDE DEF slice, T, n
<1>11. \A i \in 1..Len(slice) : slice[i] \in T
  BY <1>5, <1>8, <1>10
<1>12. Kept(slice, T) = slice
  BY <1>10, <1>11, KeptAll
<1> QED
  BY <1>5, <1>8, <1>9, <1>12 DEF slice, T, n, hits

\* Without words there is no second try.
LEMMA NoQueryMode ==
    ASSUME NEW db, NEW s, s.query = NoQuery
    PROVE  Mode(db, s) = "all"
<1>1. Cardinality(s.query.words) = 0
  BY FS_EmptySet DEF NoQuery
<1>2. ~CanFallBack(s)
  BY <1>1 DEF CanFallBack
<1> QED
  BY <1>2 DEF Mode

\* The engine and the index give the same answer to what either can answer.
LEMMA EngineIsIndex ==
    ASSUME NEW db, IsDataset(db), NEW s, IsRequest(s), s.query = NoQuery, Servable(db, s) = s,
           Untorn(db, s)
    PROVE  SearchEngine(db, s) = SearchUncached(db, s)
<1>1. ~(Start(s.page) < 0) /\ Start(s.page) \in Nat
  BY RequestStart
<1>2. CASE Unlike(db, s)
  BY <1>2 DEF SearchEngine, SearchUncached
<1>3. CASE ~Unlike(db, s)
  <2> DEFINE hits == EngineHitsOf(db, s)
             found == Found(db.data, hits)
             mapped == IndexHitsOf(db, s, "all")
             ids == Ids(Found(db.docs, mapped))
             start == Start(s.page)
             size == PageLimit(s)
  <2>1. found = Found(db.docs, mapped) /\ Len(hits) = Len(mapped)
    BY SameFound
  <2>2. SearchEngine(db, s) = [assets |-> Slice(Ids(found), start, size), total |-> Len(hits),
                               tags |-> CASE s.facets # "wanted" -> <<>>
                                          [] s.facets = "wanted" /\ Filtered(s) ->
                                                RankLift(db, Counts(found), s.tags, Len(hits))
                                          [] OTHER -> TagCounts(db),
                               matched |-> "all"]
    BY <1>1, <1>3 DEF SearchEngine, EngineHitsOf, Found
  <2>3. SearchUncached(db, s) = RunQuery(db, s, start, size, s.facets, "all")
    BY <1>1, <1>3, NoQueryMode DEF SearchUncached, QueryIndex
  <2>4. RunQuery(db, s, start, size, s.facets, "all") =
          [assets |-> Kept(Slice(ids, start, size), ToSet(Ids(db.data))), total |-> Len(mapped),
           tags |-> CASE s.facets # "wanted" -> <<>>
                      [] s.facets = "wanted" /\ Filtered(s) ->
                            RankLift(db, Counts(Found(db.docs, mapped)), s.tags, Len(mapped))
                      [] OTHER -> TopTags(Counts(Found(db.docs, mapped))),
           matched |-> IF mapped = <<>> THEN "all" ELSE "all"]
    BY Zenon DEF RunQuery, IndexHitsOf, Found
  <2>5. Kept(Slice(ids, start, size), ToSet(Ids(db.data))) = Slice(ids, start, size)
    <3>1. db.data = Loaded(db.docs)
      BY DEF Untorn
    <3>2. PICK g : IsLoading(db, g)
      BY <3>1, UntornLoading
    <3>3. s.limit \in Nat /\ PageSize \in Nat
      BY SizesAre DEF IsRequest
    <3>4. size \in Nat
      BY <3>3 DEF PageLimit
    <3> HIDE DEF start, size, ids
    <3>5. start \in Nat
      BY <1>1 DEF start
    <3> QED
      BY <3>2, <3>4, <3>5, NoneDropped DEF ids
  <2>6. ~Filtered(s) => TagCounts(db) = TopTags(Counts(found))
    <3> SUFFICES ASSUME ~Filtered(s) PROVE Counts(db.data) = Counts(found)
      BY DEF TagCounts
    <3>1. EngineWanted(db, s) = 1..Len(db.data) /\ DOMAIN db.data = 1..Len(db.data)
      BY NothingFiltered, DatasetIs
    <3>2. IsArrangement(hits, EngineWanted(db, s), KeyOrder(EngineKey(db, ResolvedSort(s))))
      BY EngineHitsAre DEF EngineHitsOf
    <3> HIDE DEF hits
    <3>3. \A t \in Slugs : Counts(found)[t] = Cardinality(Carrying(db.data, 1..Len(db.data), t))
      BY <3>1, <3>2, FoundCounts
    <3>4. \A t \in Slugs : Counts(db.data)[t] = Cardinality(Carrying(db.data, 1..Len(db.data), t))
      BY <3>1 DEF Counts, CountOf, Carrying
    <3>5. Counts(db.data) = [t \in Slugs |-> Counts(db.data)[t]] /\ Counts(found) = [t \in Slugs |-> Counts(found)[t]]
      BY Zenon DEF Counts
    <3> HIDE DEF found
    <3> QED
      BY <3>3, <3>4, <3>5
  <2> HIDE DEF hits, found, mapped, ids, start, size
  <2>7. Slice(Ids(found), start, size) = Slice(ids, start, size)
    BY <2>1 DEF ids
  <2> QED
    BY Zenon, <2>1, <2>2, <2>3, <2>4, <2>5, <2>6, <2>7
<1> QED
  BY <1>2, <1>3

\* An arrangement by a key that is the same everywhere leaves a list as it is.
LEMMA AsTheyStand ==
    ASSUME NEW n \in Nat, NEW key \in [1..n -> Int], \A i \in 1..n : key[i] = 0, NEW s,
           IsArrangement(s, 1..n, KeyOrder(key))
    PROVE  s = [k \in 1..n |-> k]
<1> DEFINE D == 1..n
           same == [k \in D |-> k]
<1>1. IsOrder(KeyOrder(key), D) /\ \A i, j \in D : i <= j => <<i, j>> \in KeyOrder(key)
  BY KeyOrderIs
<1>2. same \in Seq(D) /\ Len(same) = n
  <2>1. same \in [1..n -> D]
    OBVIOUS
  <2> HIDE DEF same, D
  <2> QED
    BY <2>1, FunctionIsSeq
<1>3. IsArrangement(same, D, KeyOrder(key))
  BY <1>1, <1>2 DEF IsArrangement
<1> HIDE DEF D, same
<1>4. same = Arranged(D, KeyOrder(key)) /\ s = Arranged(D, KeyOrder(key))
  BY <1>1, <1>3, ArrangedOnly DEF D
<1> QED
  BY <1>4 DEF D, same

\* The front page as the engine would answer it.
LEMMA BrowseIsEngine ==
    ASSUME NEW db, IsDataset(db), NEW s, IsRequest(s), ~Filtered(s), ResolvedSort(s) = "popular",
           s.facets = "wanted", s.limit = 0
    PROVE  Browse(db, s.page) = SearchEngine(db, s)
<1> DEFINE hits == EngineHitsOf(db, s)
           n == Len(db.data)
           key == EngineKey(db, ResolvedSort(s))
           found == Found(db.data, hits)
<1>1. ~(Start(s.page) < 0) /\ ~Unlike(db, s)
  BY RequestStart, NothingFiltered
<1>2. n \in Nat /\ DOMAIN db.data = 1..n /\ EngineWanted(db, s) = 1..n
  BY NothingFiltered, DatasetIs
<1>3. key \in [1..n -> Int] /\ \A i \in 1..n : key[i] = 0
  BY EngineOrderIs DEF EngineKey, SortKey
<1>4. IsArrangement(hits, 1..n, KeyOrder(key))
  BY <1>2, EngineHitsAre DEF EngineHitsOf
<1>5. hits = [k \in 1..n |-> k]
  <2> HIDE DEF n, key, hits
  <2> QED
    BY <1>2, <1>3, <1>4, AsTheyStand
<1>6. Len(hits) = n
  <2> HIDE DEF hits
  <2> QED
    BY <1>2, <1>5, ListMade
<1>7. SearchEngine(db, s) = [assets |-> Slice(Ids(found), Start(s.page), PageLimit(s)), total |-> Len(hits),
                             tags |-> CASE s.facets # "wanted" -> <<>>
                                        [] s.facets = "wanted" /\ Filtered(s) ->
                                              RankLift(db, Counts(found), s.tags, Len(hits))
                                        [] OTHER -> TagCounts(db),
                             matched |-> "all"]
  BY <1>1 DEF SearchEngine, EngineHitsOf, Found
<1>8. PageLimit(s) = PageSize
  BY DEF PageLimit
<1> HIDE DEF hits
<1>9. Ids(found) = Ids(db.data)
  <2>1. DOMAIN found = 1..n /\ \A k \in 1..n : found[k] = db.data[k]
    BY <1>5 DEF Found
  <2> HIDE DEF found
  <2> QED
    BY <1>2, <2>1 DEF Ids
<1> HIDE DEF found
<1>10. SearchEngine(db, s) = [assets |-> Slice(Ids(found), Start(s.page), PageLimit(s)), total |-> Len(hits),
                              tags |-> TagCounts(db), matched |-> "all"]
  BY Zenon, <1>7
<1> QED
  BY <1>1, <1>6, <1>8, <1>9, <1>10 DEF Browse

\* A slice, element by element.
LEMMA SliceCut ==
    ASSUME NEW s, IsList(s), Len(s) <= MaxInt, NEW start \in Nat, start <= MaxInt, NEW size \in Nat,
           start + size <= 2 * MaxInt + 1, NEW e, e = End(s, start + size),
           NEW r, r = Slice(s, start, size)
    PROVE  /\ e \in Nat /\ e <= Len(s)
           /\ IsList(r) /\ Len(r) \in Nat /\ Len(r) = IF start < e THEN e - start ELSE 0
           /\ \A i \in 1..Len(r) : r[i] = s[start + i] /\ start + i \in 1..e
<1>1. Len(s) \in Nat
  BY ListIs
<1>2. e \in Nat /\ e <= Len(s)
  BY <1>1 DEF End
<1>3. r = SubSeq(s, start + 1, e)
  BY SliceIs
<1>4. /\ IsList(r) /\ Len(r) = IF start < e THEN e - start ELSE 0
      /\ \A i \in 1..Len(r) : r[i] = s[start + i] /\ start + i \in 1..e
  BY <1>2, <1>3, CutIs
<1> QED
  BY <1>2, <1>4, ListIs

\* A page cut from the first of a list is the page of the list.
LEMMA CutOfCut ==
    ASSUME NEW s, IsList(s), Len(s) <= MaxInt, NEW start \in Nat, NEW size \in Nat, NEW depth \in Nat,
           start + size <= depth, depth <= MaxInt
    PROVE  Slice(Slice(s, 0, depth), start, size) = Slice(s, start, size)
<1> DEFINE e == End(s, 0 + depth)
           b == End(s, start + size)
           c == Slice(s, 0, depth)
           d == End(c, start + size)
           x == Slice(c, start, size)
           y == Slice(s, start, size)
<1>1. Len(s) \in Nat /\ MaxInt \in Nat
  BY ListIs, SizesAre
<1>2. 0 \in Nat /\ 0 <= MaxInt /\ 0 + depth <= 2 * MaxInt + 1 /\ start <= MaxInt /\ start + size <= 2 * MaxInt + 1
  BY <1>1
<1>3. /\ e \in Nat /\ e <= Len(s)
      /\ IsList(c) /\ Len(c) \in Nat /\ Len(c) = IF 0 < e THEN e - 0 ELSE 0
      /\ \A i \in 1..Len(c) : c[i] = s[0 + i] /\ 0 + i \in 1..e
  <2> HIDE DEF e, c
  <2>1. e = End(s, 0 + depth) /\ c = Slice(s, 0, depth)
    BY DEF e, c
  <2>2. /\ e \in Nat /\ e <= Len(s)
        /\ IsList(c) /\ Len(c) \in Nat /\ Len(c) = IF 0 < e THEN e - 0 ELSE 0
    BY <1>2, <2>1, SliceCut
  <2>3. \A i \in 1..Len(c) : c[i] = s[0 + i] /\ 0 + i \in 1..e
    BY <1>2, <2>1, SliceCut
  <2> QED
    BY <2>2, <2>3
<1>4. Len(c) = e /\ \A i \in 1..e : c[i] = s[i]
  <2> HIDE DEF e, c
  <2>1. Len(c) = e
    BY <1>3
  <2> QED
    BY <1>3, <2>1
<1>5. /\ b \in Nat /\ IsList(y) /\ Len(y) \in Nat /\ Len(y) = IF start < b THEN b - start ELSE 0
      /\ \A i \in 1..Len(y) : y[i] = s[start + i] /\ start + i \in 1..b
  <2> HIDE DEF b, y
  <2>1. b = End(s, start + size) /\ y = Slice(s, start, size)
    BY DEF b, y
  <2>2. b \in Nat /\ IsList(y) /\ Len(y) \in Nat /\ Len(y) = IF start < b THEN b - start ELSE 0
    BY <1>2, <2>1, SliceCut
  <2>3. \A i \in 1..Len(y) : y[i] = s[start + i] /\ start + i \in 1..b
    BY <1>2, <2>1, SliceCut
  <2> QED
    BY <2>2, <2>3
<1>6. d = b /\ b <= e
  <2>1. e = IF depth > Len(s) THEN Len(s) ELSE depth
    BY DEF End
  <2> HIDE DEF c, e
  <2> QED
    BY <1>1, <1>3, <1>4, <2>1 DEF End
<1>7. Len(c) <= MaxInt
  <2> HIDE DEF c, e
  <2> QED
    BY <1>1, <1>3, <1>4
<1>8. /\ IsList(x) /\ Len(x) \in Nat /\ Len(x) = IF start < d THEN d - start ELSE 0
      /\ \A i \in 1..Len(x) : x[i] = c[start + i]
  <2> HIDE DEF c, d, x
  <2>1. d = End(c, start + size) /\ x = Slice(c, start, size)
    BY DEF d, x
  <2>2. IsList(x) /\ Len(x) \in Nat /\ Len(x) = IF start < d THEN d - start ELSE 0
    BY <1>2, <1>3, <1>7, <2>1, SliceCut
  <2>3. \A i \in 1..Len(x) : x[i] = c[start + i]
    BY <1>2, <1>3, <1>7, <2>1, SliceCut
  <2> QED
    BY <2>2, <2>3
<1> HIDE DEF e, b, c, d, x, y
<1>9. Len(x) = Len(y)
  BY <1>5, <1>6, <1>8
<1>10. \A i \in 1..Len(x) : x[i] = y[i]
  BY <1>3, <1>4, <1>5, <1>6, <1>8, <1>9
<1>11. x = y
  BY <1>5, <1>8, <1>9, <1>10, SameList
<1> QED
  BY <1>11 DEF x, y, c

\* A page cut from an entry of the hit cache is the page the index gives.
LEMMA CacheIsIndex ==
    ASSUME NEW db, IsDataset(db), NEW s, IsRequest(s), Untorn(db, s)
    PROVE  SearchIndex(db, s) = SearchUncached(db, s)
<1> SUFFICES ASSUME InHitCache(s), ~Unlike(db, s), Start(s.page) >= 0
             PROVE  SearchIndex(db, s) = SearchUncached(db, s)
  BY DEF SearchIndex
<1> DEFINE mode == Mode(db, s)
           hits == IndexHitsOf(db, s, mode)
           found == Found(db.docs, hits)
           ids == Ids(found)
           T == ToSet(Ids(db.data))
           start == Start(s.page)
           size == PageLimit(s)
           depth == HitCacheDepth * PageSize
           rows == RankLift(db, Counts(found), s.tags, Len(hits))
           matched == IF hits = <<>> THEN "all" ELSE mode
           entry == QueryIndex(db, s, 0, depth, "wanted")
           direct == QueryIndex(db, s, start, size, s.facets)
<1>1. s.query # NoQuery /\ s.limit = 0 /\ start + size <= depth
  BY DEF InHitCache, HitCacheable
<1>2. Filtered(s)
  BY <1>1 DEF Filtered
<1>3. start \in Nat /\ size \in Nat /\ depth \in Nat /\ depth <= MaxInt /\ MaxPage * PageSize <= MaxInt
      /\ MaxPage * PageSize \in Nat /\ MaxInt \in Nat
  BY <1>1, RequestStart, SizesAre DEF PageLimit
<1>4. db.data = Loaded(db.docs)
  BY DEF Untorn
<1>5. PICK g : IsLoading(db, g)
  BY <1>4, UntornLoading
<1> HIDE DEF start, size, depth
<1>6. \A from, n : \A facets \in {"wanted", "omitted"} : QueryIndex(db, s, from, n, facets) =
        [assets |-> Kept(Slice(ids, from, n), T), total |-> Len(hits),
         tags |-> IF facets = "wanted" THEN rows ELSE <<>>, matched |-> matched]
  <2> TAKE from, n
  <2> TAKE facets \in {"wanted", "omitted"}
  <2>1. QueryIndex(db, s, from, n, facets) =
        [assets |-> Kept(Slice(ids, from, n), T), total |-> Len(hits),
         tags |-> CASE facets # "wanted" -> <<>>
                    [] facets = "wanted" /\ Filtered(s) -> rows
                    [] OTHER -> TopTags(Counts(found)),
         matched |-> matched]
    BY Zenon DEF QueryIndex, RunQuery, IndexHitsOf, Found
  <2> QED
    BY Zenon, <1>2, <2>1
<1> HIDE DEF hits, mode
<1>7. /\ IsList(ids) /\ Len(ids) <= MaxPage * PageSize /\ Len(ids) \in Nat
      /\ Kept(Slice(ids, start, size), T) = Slice(ids, start, size)
      /\ Kept(Slice(ids, 0, depth), T) = Slice(ids, 0, depth)
  <2> HIDE DEF ids, T
  <2>1. 0 \in Nat
    OBVIOUS
  <2>2. IsList(ids) /\ Len(ids) <= MaxPage * PageSize /\ Kept(Slice(ids, start, size), T) = Slice(ids, start, size)
    BY <1>3, <1>5, NoneDropped DEF ids, T, hits
  <2>3. Kept(Slice(ids, 0, depth), T) = Slice(ids, 0, depth)
    BY <1>3, <1>5, <2>1, NoneDropped DEF ids, T, hits
  <2> QED
    BY <2>2, <2>3, ListIs
<1> HIDE DEF ids, T, rows, matched
<1>8. Slice(Slice(ids, 0, depth), start, size) = Slice(ids, start, size)
  BY <1>1, <1>3, <1>7, CutOfCut
<1>9. /\ entry = [assets |-> Slice(ids, 0, depth), total |-> Len(hits), tags |-> rows, matched |-> matched]
      /\ direct = [assets |-> Slice(ids, start, size), total |-> Len(hits),
                   tags |-> IF s.facets = "wanted" THEN rows ELSE <<>>, matched |-> matched]
  <2>1. s.facets \in {"wanted", "omitted"}
    BY DEF IsRequest
  <2>2. entry = [assets |-> Kept(Slice(ids, 0, depth), T), total |-> Len(hits),
                 tags |-> IF "wanted" = "wanted" THEN rows ELSE <<>>, matched |-> matched]
    BY Zenon, <1>6
  <2>3. direct = [assets |-> Kept(Slice(ids, start, size), T), total |-> Len(hits),
                 tags |-> IF s.facets = "wanted" THEN rows ELSE <<>>, matched |-> matched]
    BY Zenon, <1>6, <2>1
  <2> QED
    BY Zenon, <1>7, <2>2, <2>3
<1>10. SearchIndex(db, s) = [entry EXCEPT !.assets = Slice(@, start, size),
                                          !.tags = IF s.facets = "wanted" THEN @ ELSE <<>>]
  BY Zenon DEF SearchIndex, start, size, depth
<1>11. SearchUncached(db, s) = direct
  BY <1>3 DEF SearchUncached, start, size
<1> HIDE DEF entry, direct
<1> QED
  BY <1>8, <1>9, <1>10, <1>11

\* The feed asks for a first page, and leaves the sidebar out.
LEMMA FeedOptionsAre ==
    ASSUME NEW f, NEW rates, Tidy(f, rates), NEW limit \in Nat, NEW o, o = FeedOptions(f, limit)
    PROVE  IsRequest(o) /\ o.facets # "wanted"
<1> DEFINE p == Options(f, 1, "omitted")
<1>1. 1 \in 1..MaxPage + 1 /\ "omitted" \in {"wanted", "omitted"}
  BY SizesAre
<1>2. IsRequest(p) /\ p.facets = "omitted"
  BY <1>1, OptionsAre
<1>3. o = [p EXCEPT !.sort = "new", !.minFirst = 1, !.limit = limit]
  BY DEF FeedOptions
<1> HIDE DEF p
<1>4. o = [query |-> p.query, tags |-> p.tags, not |-> p.not, author |-> p.author,
           price |-> p.price, sort |-> "new", like |-> p.like, minFirst |-> 1,
           limit |-> limit, facets |-> p.facets, page |-> p.page]
  BY <1>2, <1>3 DEF IsRequest
<1> QED
  BY <1>2, <1>4 DEF IsRequest

\* Whatever the visitor's page asks, all that can answer it answer the same.
LEMMA PathsAgreeHere ==
    ASSUME VisitorTyped
    PROVE  PathsAgree
<1> DEFINE asked == {Options(Here, p, facets) : p \in {at.page, at.page + 1}, facets \in {"wanted", "omitted"}}
                        \cup {FeedOptions(Here, 2), FeedOptions(NoFilters, 3)}
<1>1. IsDataset(cat) /\ Tidy(Here, cat.rates) /\ at.page \in 1..MaxPage /\ MaxPage \in Nat
  BY HereTidy, SizesAre DEF VisitorTyped, VisitorTypeOK
<1>2. ASSUME NEW x \in asked
      PROVE  IsRequest(x) /\ (x.facets = "wanted" => x.limit = 0)
  <2>1. CASE x \in {FeedOptions(Here, 2), FeedOptions(NoFilters, 3)}
    <3>1. Tidy(NoFilters, cat.rates)
      BY NoFiltersTidy
    <3> QED
      BY <1>1, <2>1, <3>1, FeedOptionsAre
  <2>2. CASE x \notin {FeedOptions(Here, 2), FeedOptions(NoFilters, 3)}
    <3>1. PICK p \in {at.page, at.page + 1}, facets \in {"wanted", "omitted"} : x = Options(Here, p, facets)
      BY <2>2
    <3>2. p \in 1..MaxPage + 1
      BY <1>1
    <3> QED
      BY <1>1, <3>1, <3>2, OptionsAre
  <2> QED
    BY <2>1, <2>2
<1> HIDE DEF asked
<1>3. ASSUME NEW x \in asked, NEW o, o = Servable(cat, x)
      PROVE  /\ SearchIndex(cat, o) = SearchUncached(cat, o) \/ ~Untorn(cat, o)
             /\ Untorn(cat, o) /\ o.query = NoQuery =>
                  /\ SearchEngine(cat, o) = SearchUncached(cat, o)
                  /\ ~Filtered(o) /\ ResolvedSort(o) = "popular" /\ o.facets = "wanted" =>
                        Browse(cat, o.page) = SearchUncached(cat, o)
  <2>1. IsRequest(o) /\ Servable(cat, o) = o /\ (o.facets = "wanted" => o.limit = 0)
    BY <1>2, <1>3, ServableIs
  <2>2. Untorn(cat, o) => SearchIndex(cat, o) = SearchUncached(cat, o)
    BY <1>1, <2>1, CacheIsIndex
  <2>3. Untorn(cat, o) /\ o.query = NoQuery => SearchEngine(cat, o) = SearchUncached(cat, o)
    BY <1>1, <2>1, EngineIsIndex
  <2>4. ~Filtered(o) /\ ResolvedSort(o) = "popular" /\ o.facets = "wanted" =>
          Browse(cat, o.page) = SearchEngine(cat, o)
    BY <1>1, <2>1, BrowseIsEngine
  <2> QED
    BY <2>2, <2>3, <2>4
<1>4. ASSUME NEW o \in {Servable(cat, x) : x \in asked}
      PROVE  LET byIndex == SearchUncached(cat, o)
             IN  /\ SearchIndex(cat, o) = byIndex \/ ~Untorn(cat, o)
                 /\ Untorn(cat, o) /\ o.query = NoQuery =>
                      /\ SearchEngine(cat, o) = byIndex
                      /\ ~Filtered(o) /\ ResolvedSort(o) = "popular" /\ o.facets = "wanted" =>
                            Browse(cat, o.page) = byIndex
  <2>1. PICK x \in asked : o = Servable(cat, x)
    OBVIOUS
  <2> QED
    BY <1>3, <2>1
<1> QED
  BY ONLY <1>4, SMT DEF PathsAgree, asked

\* Browsing, the engine, the index and the hit cache agree in every session.
THEOREM PathsAgreeHolds ==
    VisitorSpec => []PathsAgree
<1>1. VisitorInv => PathsAgree
  BY PathsAgreeHere DEF VisitorInv
<1> QED
  BY <1>1, VisitorInvHolds, PTL

-----------------------------------------------------------------------------
(* The pages of a list put together again.                                 *)

\* The first pages of a list.
Heads(s, p) == SubSeq(s, 1, End(s, p * PageSize))

\* They are a list, no longer than the pages, and all of it when it fits.
LEMMA HeadsAre ==
    ASSUME NEW s, IsList(s), NEW p \in Nat, NEW r, r = Heads(s, p)
    PROVE  /\ IsList(r) /\ Len(r) \in Nat /\ Len(r) = End(s, p * PageSize)
           /\ Len(r) <= Len(s) /\ Len(r) <= p * PageSize
           /\ r \in Seq(ToSet(s))
           /\ \A i \in 1..Len(r) : r[i] = s[i]
           /\ Len(s) <= p * PageSize => r = s
<1> DEFINE size == p * PageSize
           e == End(s, size)
<1>1. Len(s) \in Nat /\ size \in Nat
  BY ListIs, SizesAre, Multiples
<1> HIDE DEF size
<1>2. e \in Nat /\ e <= Len(s) /\ e <= size /\ 0 \in Nat
  BY <1>1 DEF End
<1>3. r = SubSeq(s, 0 + 1, e)
  BY DEF Heads, size
<1>4. Len(s) <= size => r = s
  <2>1. Len(s) <= size => e = Len(s)
    BY <1>1 DEF End
  <2>2. SubSeq(s, 1, Len(s)) = s
    BY <1>1, <1>2, CutsJoin
  <2> QED
    BY <1>3, <2>1, <2>2
<1> HIDE DEF e
<1>5. /\ IsList(r) /\ Len(r) = IF 0 < e THEN e - 0 ELSE 0
      /\ (\A i \in 1..Len(r) : r[i] = s[0 + i] /\ 0 + i \in 1..e)
      /\ r \in Seq(ToSet(s))
  <2>1. \A a, b \in Nat : b <= Len(s) =>
            /\ IsList(SubSeq(s, a + 1, b)) /\ Len(SubSeq(s, a + 1, b)) = IF a < b THEN b - a ELSE 0
            /\ \A i \in 1..Len(SubSeq(s, a + 1, b)) :
                  SubSeq(s, a + 1, b)[i] = s[a + i] /\ a + i \in 1..b
            /\ SubSeq(s, a + 1, b) \in Seq(ToSet(s))
    BY CutIs
  <2> QED
    BY ONLY <1>2, <1>3, <2>1
<1>6. Len(r) = e
  BY <1>2, <1>5
<1>7. \A i \in 1..Len(r) : r[i] = s[i]
  BY <1>2, <1>5, <1>6
<1> QED
  BY <1>1, <1>2, <1>4, <1>5, <1>6, <1>7 DEF size, e

\* A page more.
LEMMA HeadsGrow ==
    ASSUME NEW s, IsList(s), Len(s) <= MaxInt, NEW p \in 1..MaxPage
    PROVE  /\ Heads(s, p) = Heads(s, p - 1) \o Slice(s, Start(p), PageSize)
           /\ Heads(s, 1) = Slice(s, Start(1), PageSize)
           /\ Slice(s, Start(p), PageSize) \in Seq(ToSet(s))
           /\ Len(s) <= (p - 1) * PageSize => Slice(s, Start(p), PageSize) = <<>>
<1>0. IsList(s)
  OBVIOUS
<1>1. /\ Len(s) \in Nat /\ p \in Nat /\ p - 1 \in Nat /\ p >= 1 /\ p <= MaxPage + 1 /\ 1 <= MaxPage + 1
      /\ MaxInt \in Nat /\ PageSize \in Nat /\ PageSize <= MaxInt
  <2>1. /\ MaxPage \in Nat /\ MaxPage >= 1 /\ PageSize \in Nat /\ MaxInt \in Nat /\ MaxPage * PageSize <= MaxInt
        /\ 1 * PageSize = PageSize /\ 1 \in Nat
    BY SizesAre
  <2> DEFINE most == MaxPage * PageSize
  <2>2. 1 * PageSize <= most /\ most \in Nat
    BY <2>1, Multiples
  <2>3. most <= MaxInt
    BY <2>1
  <2> HIDE DEF most
  <2> QED
    BY <2>1, <2>2, <2>3, ListIs
<1> DEFINE start == (p - 1) * PageSize
           next == p * PageSize
<1>2. start \in Nat /\ Start(p) = start /\ start <= MaxInt /\ Start(1) = 0
  BY <1>1, StartIs, Multiples
<1>3. next = start + PageSize
  <2>1. ((p - 1) + 1) * PageSize = start + PageSize
    BY <1>1, Multiples
  <2>2. (p - 1) + 1 = p
    BY <1>1
  <2> QED
    BY <2>1, <2>2
<1> HIDE DEF start, next
<1> DEFINE a == End(s, start)
           b == End(s, next)
           slice == Slice(s, Start(p), PageSize)
<1>4. /\ a \in Nat /\ b \in Nat /\ a <= b /\ b <= Len(s) /\ (start < Len(s) => a = start)
      /\ (Len(s) <= start => a = Len(s) /\ b = Len(s))
  BY <1>1, <1>2, <1>3 DEF End
<1>5. slice = SubSeq(s, a + 1, b)
  <2> DEFINE cut == SubSeq(s, a + 1, b)
  <2>1. /\ IsList(cut) /\ Len(cut) = IF a < b THEN b - a ELSE 0
        /\ \A i \in 1..Len(cut) : cut[i] = s[a + i]
    <3> HIDE DEF a, b
    <3> QED
      BY ONLY <1>0, <1>1, <1>4, CutIs, SMTT(30) DEF cut
  <2>2. b = End(s, start + PageSize)
    BY <1>3
  <2>3. slice = Slice(s, start, PageSize)
    BY <1>2
  <2> HIDE DEF a, b, slice, cut
  <2>4. start + PageSize <= 2 * MaxInt + 1
    BY <1>1, <1>2
  <2>5. IsList(slice) /\ Len(slice) \in Nat /\ Len(slice) = IF start < b THEN b - start ELSE 0
    BY <1>1, <1>2, <2>2, <2>3, <2>4, SliceCut
  <2>6. \A i \in 1..Len(slice) : slice[i] = s[start + i]
    BY <1>1, <1>2, <2>2, <2>3, <2>4, SliceCut
  <2>7. Len(slice) = Len(cut)
    BY <1>1, <1>2, <1>4, <2>1, <2>5
  <2>8. \A i \in 1..Len(slice) : slice[i] = cut[i]
    <3>1. CASE start < b
      <4>1. a = start
        BY ONLY <1>1, <1>2, <1>4, <3>1
      <4> QED
        BY ONLY <2>1, <2>6, <2>7, <4>1
    <3>2. CASE ~(start < b)
      <4>1. Len(slice) = 0
        BY ONLY <2>5, <3>2
      <4> QED
        BY ONLY <4>1
    <3> QED
      BY ONLY <3>1, <3>2
  <2>9. slice = cut
    BY <2>1, <2>5, <2>7, <2>8, SameList
  <2> QED
    BY <2>9 DEF cut
<1>6. /\ Heads(s, p - 1) = SubSeq(s, 1, a) /\ Heads(s, p) = SubSeq(s, 1, b)
  BY DEF Heads, start, next
<1>7. slice \in Seq(ToSet(s))
  <2> HIDE DEF a, b, slice
  <2> QED
    BY ONLY <1>0, <1>1, <1>4, <1>5, CutIs
<1>8. Heads(s, p) = Heads(s, p - 1) \o slice
  <2> HIDE DEF a, b, slice
  <2> QED
    <3>1. SubSeq(s, 1, a) \o SubSeq(s, a + 1, b) = SubSeq(s, 1, b)
      BY ONLY <1>0, <1>4, CutsJoin
    <3> QED
      BY ONLY <1>5, <1>6, <3>1
<1>9. Heads(s, 1) = Slice(s, Start(1), PageSize)
  <2>1. 0 \in Nat /\ 0 <= MaxInt /\ 0 + PageSize <= 2 * MaxInt + 1
    BY <1>1
  <2>2. Slice(s, 0, PageSize) = SubSeq(s, 0 + 1, End(s, 0 + PageSize))
    BY <1>1, <2>1, SliceIs
  <2>3. 0 + PageSize = 1 * PageSize /\ 0 + 1 = 1
    BY <1>1
  <2> QED
    BY <1>2, <2>2, <2>3 DEF Heads
<1>10. Len(s) <= start => slice = <<>>
  <2>1. start + PageSize <= 2 * MaxInt + 1
    BY <1>1, <1>2
  <2>2. start >= Len(s) => Slice(s, start, PageSize) = <<>>
    BY <1>1, <1>2, <2>1, SliceIs
  <2> QED
    BY <1>1, <1>2, <2>2
<1> QED
  BY <1>7, <1>8, <1>9, <1>10 DEF start

\* No pages, no list.
LEMMA NothingFlattened ==
    ASSUME NEW seqs, seqs = [p \in 1..0 |-> seqs[p]]
    PROVE  FlattenSeq(seqs) = <<>>
<1>1. 0 \in Nat
  OBVIOUS
<1>2. IsList(seqs) /\ Len(seqs) = 0
  BY <1>1, ListMade
<1>3. <<>> \in Seq({}) /\ Len(<<>>) = 0
  BY EmptySeq
<1>4. IsList(<<>>)
  BY <1>3, SeqIsList
<1>5. \A i \in 1..Len(seqs) : seqs[i] = <<>>[i]
  BY <1>2
<1>6. Len(seqs) = Len(<<>>)
  BY <1>2, <1>3
<1>7. seqs = <<>>
  BY <1>2, <1>4, <1>5, <1>6, SameList
<1> QED
  BY <1>2, <1>7 DEF FlattenSeq

\* As many pages as it takes, and no more than may be asked for.
LEMMA PageCountIs ==
    ASSUME NEW total \in Nat, total <= MaxPage * PageSize, NEW n, n = PageCount(total)
    PROVE  /\ n \in 0..MaxPage /\ total <= n * PageSize
           /\ n = 0 <=> total = 0
           /\ n * PageSize < total + PageSize
<1> DEFINE a == total + PageSize - 1
<1>1. PageSize \in Nat \ {0} /\ MaxPage \in Nat /\ PageSize > 0
  BY SizesAre
<1>2. a \in Nat
  BY <1>1
<1>3. n = a \div PageSize
  BY DEF PageCount
<1> HIDE DEF a
<1>4. n \in Nat /\ n * PageSize <= a /\ a < n * PageSize + PageSize
  BY <1>1, <1>2, <1>3, Quotient
<1> DEFINE x == n * PageSize
           most == MaxPage * PageSize
<1>5. x \in Nat /\ most \in Nat /\ (MaxPage < n => most + PageSize <= x) /\ (0 < n => 0 * PageSize + PageSize <= x)
  BY <1>1, <1>4, Multiples
<1>6. 0 * PageSize = 0
  BY <1>1
<1>7. n = 0 => x = 0
  BY <1>6
<1>8. a = total + PageSize - 1
  BY DEF a
<1>9. x <= a /\ a < x + PageSize /\ total <= most
  BY <1>4
<1> HIDE DEF x, most
<1>10. ~(MaxPage < n)
  BY <1>1, <1>5, <1>8, <1>9
<1>11. total <= x /\ (n = 0 <=> total = 0) /\ x < total + PageSize
  BY <1>1, <1>4, <1>5, <1>6, <1>7, <1>8, <1>9
<1> QED
  BY <1>1, <1>4, <1>10, <1>11 DEF x

\* A short list.
LEMMA EmptyList ==
    ASSUME NEW s, IsList(s), Len(s) = 0
    PROVE  s = <<>>
<1>1. <<>> \in Seq({}) /\ Len(<<>>) = 0
  BY EmptySeq
<1>2. IsList(<<>>)
  BY <1>1, SeqIsList
<1>3. Len(s) = Len(<<>>)
  BY <1>1
<1>4. \A i \in 1..Len(s) : s[i] = <<>>[i]
  OBVIOUS
<1> QED
  BY <1>2, <1>3, <1>4, SameList

\* The pages of a list are the list.
LEMMA ListPages ==
    ASSUME NEW s, IsList(s), Len(s) <= MaxPage * PageSize, NEW n, n = PageCount(Len(s)),
           NEW pages, pages = [p \in 1..n |-> pages[p]],
           \A p \in 1..n : pages[p] = Slice(s, Start(p), PageSize)
    PROVE  FlattenSeq(pages) = s
<1> DEFINE most == MaxPage * PageSize
<1>1. Len(s) \in Nat /\ MaxInt \in Nat /\ most \in Nat /\ most <= MaxInt /\ Len(s) <= most
  BY ListIs, SizesAre
<1> HIDE DEF most
<1>2. Len(s) <= MaxInt
  BY <1>1
<1>3. n \in 0..MaxPage /\ Len(s) <= n * PageSize /\ (n = 0 <=> Len(s) = 0)
  BY <1>1, PageCountIs DEF most
<1>4. MaxPage \in Nat
  BY SizesAre
<1>5. CASE n = 0
  <2>1. s = <<>>
    BY <1>3, <1>5, EmptyList
  <2>2. pages = [p \in 1..0 |-> pages[p]]
    BY <1>5
  <2> QED
    BY <2>1, <2>2, NothingFlattened
<1>6. CASE n # 0
  <2> DEFINE parts == [p \in 1..n |-> Heads(s, p)]
  <2>1. n \in Nat /\ n > 0 /\ \A p \in 1..n : p \in 1..MaxPage
    BY <1>3, <1>4, <1>6
  <2>2. IsList(pages) /\ Len(pages) = n
    BY <2>1, ListMade
  <2>3. pages \in Seq(ToSet(pages))
    BY <2>2 DEF IsList
  <2>4. ASSUME NEW i \in 1..n
        PROVE  parts[i] = IF i = 1 THEN pages[i] ELSE parts[i - 1] \o pages[i]
    <3>1. /\ Heads(s, i) = Heads(s, i - 1) \o Slice(s, Start(i), PageSize)
          /\ Heads(s, 1) = Slice(s, Start(1), PageSize)
      BY <1>2, <2>1, HeadsGrow
    <3>2. pages[i] = Slice(s, Start(i), PageSize) /\ parts[i] = Heads(s, i)
      OBVIOUS
    <3>3. i # 1 => i - 1 \in 1..n
      BY <2>1
    <3>4. i # 1 => parts[i - 1] = Heads(s, i - 1)
      BY <3>3
    <3> HIDE DEF parts
    <3> QED
      BY <3>1, <3>2, <3>4
  <2>5. parts[n] = Heads(s, n)
    BY <2>1
  <2> HIDE DEF parts
  <2>6. IsJoined(pages, Len(pages), parts)
    BY <2>2, <2>4 DEF IsJoined
  <2>7. FlattenSeq(pages) = parts[Len(pages)]
    BY <2>1, <2>2, <2>3, <2>6, JoinsTo
  <2>8. Heads(s, n) = s
    BY <1>3, <2>1, HeadsAre
  <2> QED
    BY <2>2, <2>5, <2>7, <2>8
<1> QED
  BY <1>5, <1>6

\* What is kept of no more than there is.
LEMMA KeptShort ==
    ASSUME NEW s, IsList(s), NEW T
    PROVE  IsList(Kept(s, T)) /\ Len(Kept(s, T)) \in Nat /\ Len(Kept(s, T)) <= Len(s)
           /\ (Len(s) = 0 => Kept(s, T) = <<>>)
<1>1. IsList(Kept(s, T)) /\ Len(Kept(s, T)) \in Nat /\ Len(Kept(s, T)) <= Len(s)
  BY KeptIs, KeptHas
<1>2. Len(s) = 0 => Len(Kept(s, T)) = 0
  BY <1>1
<1> QED
  BY <1>1, <1>2, EmptyList

\* The pages of a text search, the first from an entry of the hit cache, whose
\* hits have been mapped to assets already, the others mapped page by page.
AreHitPages(ids, T, n, pages) ==
    /\ pages = [p \in 1..n |-> pages[p]]
    /\ \A p \in 1..n :
          pages[p] = IF p <= HitCacheDepth THEN Slice(Kept(Heads(ids, HitCacheDepth), T), Start(p), PageSize)
                     ELSE Kept(Slice(ids, Start(p), PageSize), T)

\* Together they are all hits that have an asset.
LEMMA HitPages ==
    ASSUME NEW ids, IsList(ids), Len(ids) <= MaxPage * PageSize, NEW T, NEW n, n = PageCount(Len(ids)),
           NEW pages, AreHitPages(ids, T, n, pages)
    PROVE  FlattenSeq(pages) = Kept(ids, T)
<1> DEFINE entry == Kept(Heads(ids, HitCacheDepth), T)
<1>0. /\ pages = [p \in 1..n |-> pages[p]]
      /\ \A p \in 1..n : pages[p] = IF p <= HitCacheDepth THEN Slice(entry, Start(p), PageSize)
                                     ELSE Kept(Slice(ids, Start(p), PageSize), T)
  BY DEF AreHitPages
<1> DEFINE most == MaxPage * PageSize
           depth == HitCacheDepth
<1>1. Len(ids) \in Nat /\ MaxInt \in Nat /\ most \in Nat /\ most <= MaxInt /\ Len(ids) <= most
  BY ListIs, SizesAre
<1> HIDE DEF most
<1>2. Len(ids) <= MaxInt
  BY <1>1
<1>3. n \in 0..MaxPage /\ Len(ids) <= n * PageSize /\ (n = 0 <=> Len(ids) = 0)
  BY <1>1, PageCountIs DEF most
<1>4. MaxPage \in Nat /\ depth \in Nat /\ depth > 0 /\ PageSize \in Nat
  BY SizesAre
<1> HIDE DEF depth
<1> DEFINE first == Heads(ids, depth)
           room == depth * PageSize
           whole == Kept(ids, T)
<1>5. /\ IsList(first) /\ Len(first) \in Nat /\ Len(first) <= Len(ids) /\ Len(first) <= room
      /\ (Len(ids) <= room => first = ids)
  BY <1>4, HeadsAre
<1>6. room \in Nat
  BY <1>4, Multiples
<1> HIDE DEF first, room, entry
<1>7. IsList(entry) /\ Len(entry) \in Nat /\ Len(entry) <= Len(first) /\ entry = Kept(first, T)
  BY <1>5, KeptShort DEF entry, first, depth
<1>8. Len(entry) <= MaxInt /\ Len(entry) <= room
  BY <1>1, <1>2, <1>5, <1>6, <1>7
<1>9. CASE n = 0
  <2>1. whole = <<>>
    BY <1>3, <1>9, KeptShort
  <2>2. pages = [p \in 1..0 |-> pages[p]]
    BY <1>0, <1>9
  <2> QED
    BY <2>1, <2>2, NothingFlattened
<1>10. CASE n # 0
  <2> DEFINE parts == [p \in 1..n |-> IF p <= depth THEN Heads(entry, p) ELSE Kept(Heads(ids, p), T)]
  <2>1. n \in Nat /\ n > 0 /\ \A p \in 1..n : p \in 1..MaxPage
    BY <1>3, <1>4, <1>10
  <2>2. IsList(pages) /\ Len(pages) = n
    BY <1>0, <2>1, ListMade
  <2>3. pages \in Seq(ToSet(pages))
    BY <2>2 DEF IsList
  <2>4. ASSUME NEW i \in 1..n
        PROVE  parts[i] = IF i = 1 THEN pages[i] ELSE parts[i - 1] \o pages[i]
    <3>1. /\ i # 1 => i - 1 \in 1..n
          /\ i \in Nat /\ i - 1 \in Nat
      BY <2>1
    <3>2. CASE i <= depth
      <4>1. /\ Heads(entry, i) = Heads(entry, i - 1) \o Slice(entry, Start(i), PageSize)
            /\ Heads(entry, 1) = Slice(entry, Start(1), PageSize)
        BY <1>7, <1>8, <2>1, HeadsGrow
      <4>2. pages[i] = Slice(entry, Start(i), PageSize) /\ parts[i] = Heads(entry, i)
        BY <1>0, <3>2 DEF depth, entry
      <4>3. i # 1 => parts[i - 1] = Heads(entry, i - 1)
        BY <1>4, <3>1, <3>2
      <4> HIDE DEF parts
      <4> QED
        BY <4>1, <4>2, <4>3
    <3>3. CASE ~(i <= depth)
      <4> DEFINE slice == Slice(ids, Start(i), PageSize)
                 before == Heads(ids, i - 1)
      <4>1. Heads(ids, i) = before \o slice /\ slice \in Seq(ToSet(ids))
        BY <1>2, <2>1, HeadsGrow
      <4>2. before \in Seq(ToSet(ids))
        BY <3>1, HeadsAre
      <4>3. pages[i] = Kept(slice, T) /\ parts[i] = Kept(Heads(ids, i), T)
        BY <1>0, <3>3 DEF depth, entry
      <4>4. i # 1
        BY <1>4, <3>3
      <4>5. parts[i - 1] = IF i - 1 <= depth THEN Heads(entry, i - 1) ELSE Kept(before, T)
        BY <3>1, <4>4
      <4> HIDE DEF parts
      <4>6. parts[i - 1] = Kept(before, T)
        <5>1. CASE i - 1 <= depth
          <6>1. i - 1 = depth
            BY <1>4, <3>1, <3>3, <5>1
          <6>2. Heads(entry, depth) = entry
            BY <1>4, <1>7, <1>8, HeadsAre DEF room
          <6> QED
            BY <1>7, <4>5, <5>1, <6>1, <6>2 DEF first
        <5>2. CASE ~(i - 1 <= depth)
          BY <4>5, <5>2
        <5> QED
          BY <5>1, <5>2
      <4> HIDE DEF slice, before
      <4>7. Kept(before \o slice, T) = Kept(before, T) \o Kept(slice, T)
        BY <4>1, <4>2, KeptConcat
      <4> QED
        BY <4>1, <4>3, <4>4, <4>6, <4>7
    <3> QED
      BY <3>2, <3>3
  <2>5. parts[n] = IF n <= depth THEN Heads(entry, n) ELSE Kept(Heads(ids, n), T)
    BY <2>1
  <2> HIDE DEF parts
  <2>6. IsJoined(pages, Len(pages), parts)
    BY <2>2, <2>4 DEF IsJoined
  <2>7. FlattenSeq(pages) = parts[Len(pages)]
    BY <2>1, <2>2, <2>3, <2>6, JoinsTo
  <2>8. parts[n] = whole
    <3> DEFINE taken == n * PageSize
    <3>1. taken \in Nat /\ Len(ids) <= taken /\ (n <= depth => taken <= room)
      BY <1>3, <1>4, <2>1, Multiples DEF room
    <3> HIDE DEF taken
    <3>2. CASE n <= depth
      <4>1. Len(ids) <= room
        BY <1>1, <1>6, <3>1, <3>2
      <4>2. entry = whole
        BY <1>5, <1>7, <4>1
      <4>3. Len(entry) <= taken
        BY <1>1, <1>5, <1>7, <3>1
      <4>4. Heads(entry, n) = entry
        BY <1>7, <2>1, <4>3, HeadsAre DEF taken
      <4> QED
        BY <2>5, <3>2, <4>2, <4>4
    <3>3. CASE ~(n <= depth)
      <4>1. Heads(ids, n) = ids
        BY <2>1, <3>1, HeadsAre DEF taken
      <4> QED
        BY <2>5, <3>3, <4>1
    <3> QED
      BY <3>2, <3>3
  <2> QED
    BY <2>2, <2>7, <2>8
<1> QED
  BY <1>9, <1>10

-----------------------------------------------------------------------------
(* Requests for other pages of the same search.                            *)

\* The same search, with other pages or without the sidebar.
Likewise(o, x) == SameMatches(o, x) /\ x.sort = o.sort

\* It is served as the other is.
LEMMA LikewiseIs ==
    ASSUME NEW db, NEW o, IsRequest(o), Servable(db, o) = o, NEW x, IsRequest(x), Likewise(o, x)
    PROVE  /\ Servable(db, x) = x /\ ResolvedSort(x) = ResolvedSort(o)
           /\ (Filtered(x) <=> Filtered(o)) /\ (Unlike(db, x) <=> Unlike(db, o))
           /\ x.query = o.query /\ x.like = o.like
<1>1. /\ x.query = o.query /\ x.tags = o.tags /\ x.not = o.not /\ x.author = o.author
      /\ x.price = o.price /\ x.like = o.like /\ x.minFirst = o.minFirst /\ x.sort = o.sort
  BY DEF Likewise, SameMatches
<1>2. /\ ResolvedSort(x) = ResolvedSort(o)
      /\ (Filtered(x) <=> Filtered(o)) /\ (Unlike(db, x) <=> Unlike(db, o))
  BY <1>1 DEF ResolvedSort, Filtered, Unlike
<1> DEFINE s == Servable(db, x)
<1>3. /\ o.sort = IF o.sort = "recent" /\ ~HasRecency(db) THEN "popular" ELSE o.sort
      /\ o.price = IF o.price \in DOMAIN Ceiling /\ ~HasPriceBands(db) THEN None ELSE o.price
  BY ServableIs
<1>4. /\ IsRequest(s)
      /\ s.query = x.query /\ s.tags = x.tags /\ s.not = x.not /\ s.author = x.author
      /\ s.like = x.like /\ s.minFirst = x.minFirst /\ s.limit = x.limit
      /\ s.facets = x.facets /\ s.page = x.page
      /\ s.sort = x.sort /\ s.price = x.price
  BY <1>1, <1>3, ServableIs
<1> HIDE DEF s
<1>5. s = x
  BY <1>4 DEF IsRequest
<1> QED
  BY <1>1, <1>2, <1>5 DEF s

\* The engine finds the same.
LEMMA LikewiseEngine ==
    ASSUME NEW db, IsDataset(db), NEW o, IsRequest(o), Servable(db, o) = o, NEW x, IsRequest(x), Likewise(o, x)
    PROVE  EngineHitsOf(db, x) = EngineHitsOf(db, o)
<1>1. /\ x.query = o.query /\ x.tags = o.tags /\ x.not = o.not /\ x.author = o.author
      /\ x.price = o.price /\ x.like = o.like /\ x.minFirst = o.minFirst
  BY DEF Likewise, SameMatches
<1>2. ResolvedSort(x) = ResolvedSort(o)
  BY LikewiseIs
<1>3. EngineFilter(db, x) = EngineFilter(db, o)
  <2>1. LikeTags(db, x) = LikeTags(db, o)
    BY <1>1 DEF LikeTags
  <2> QED
    BY <1>1, <2>1 DEF EngineFilter
<1>4. EngineWanted(db, x) = EngineWanted(db, o)
  BY <1>3 DEF EngineWanted
<1> DEFINE W == EngineWanted(db, o)
           order == KeyOrder(EngineKey(db, ResolvedSort(o)))
<1>5. IsArrangement(EngineHitsOf(db, x), W, order) /\ IsArrangement(EngineHitsOf(db, o), W, order)
  BY <1>2, <1>4, EngineHitsAre DEF EngineHitsOf
<1>6. IsOrder(order, 1..Len(db.data)) /\ W \subseteq 1..Len(db.data)
  BY EngineOrderIs DEF EngineWanted
<1> DEFINE D == 1..Len(db.data)
<1> HIDE DEF W, order, D
<1>7. IsOrder(order, W)
  BY <1>6, OrderWithin DEF D
<1>8. EngineHitsOf(db, x) = Arranged(W, order)
  BY <1>5, <1>7, ArrangedOnly
<1>9. EngineHitsOf(db, o) = Arranged(W, order)
  BY <1>5, <1>7, ArrangedOnly
<1> QED
  BY <1>8, <1>9

\* And so does the index.
LEMMA LikewiseIndex ==
    ASSUME NEW db, NEW o, IsRequest(o), Servable(db, o) = o, NEW x, IsRequest(x), Likewise(o, x)
    PROVE  IndexHitsOf(db, x, Mode(db, x)) = IndexHitsOf(db, o, Mode(db, o))
<1>1. /\ x.query = o.query /\ x.tags = o.tags /\ x.not = o.not /\ x.author = o.author
      /\ x.price = o.price /\ x.like = o.like /\ x.minFirst = o.minFirst
  BY DEF Likewise, SameMatches
<1>2. ResolvedSort(x) = ResolvedSort(o) /\ LikeTags(db, x) = LikeTags(db, o)
  BY <1>1, LikewiseIs DEF LikeTags
<1>3. ASSUME NEW mode
      PROVE  MatchingDocs(db, x, mode) = MatchingDocs(db, o, mode)
  <2>1. \A like, a, usd : IndexMatches(x, like, a, usd, mode) <=> IndexMatches(o, like, a, usd, mode)
    BY <1>1 DEF IndexMatches
  <2> QED
    BY <1>2, <2>1 DEF MatchingDocs
<1>4. Mode(db, x) = Mode(db, o)
  BY <1>1, <1>3 DEF Mode, CanFallBack
<1>5. IndexOrder(db, x) = IndexOrder(db, o)
  <2>1. ASSUME NEW i
        PROVE  IndexKey(db, x, i) = IndexKey(db, o, i)
    BY <1>1, <1>2 DEF IndexKey, Score
  <2> QED
    BY <2>1 DEF IndexOrder
<1> QED
  BY <1>3, <1>4, <1>5 DEF IndexHitsOf

\* Nothing twice.
AllDifferent(s) == \A k, l \in 1..Len(s) : s[k] = s[l] => k = l

\* The ids of some of a list whose ids are all different.
LEMMA IdsOfHits ==
    ASSUME NEW list, IsAssetList(list), NEW W, W \subseteq 1..Len(list), NEW order, NEW hits,
           IsArrangement(hits, W, order), NEW ids, ids = Ids(Found(list, hits))
    PROVE  /\ IsList(ids) /\ Len(ids) = Cardinality(W) /\ Len(ids) \in Nat
           /\ Len(ids) <= MaxPage * PageSize /\ Len(ids) <= Len(list)
           /\ AllDifferent(ids)
<1> DEFINE n == Len(hits)
           most == MaxPage * PageSize
           found == Found(list, hits)
<1>1. /\ n \in Nat /\ DOMAIN hits = 1..n /\ hits \in [1..n -> W] /\ n = Cardinality(W)
      /\ \A k, l \in 1..n : hits[k] = hits[l] => k = l
  BY ArrangementSize
<1>2. list \in Seq(Asset) /\ IsInjective(Ids(list)) /\ Len(list) <= most /\ most \in Nat
  BY SizesAre DEF IsAssetList
<1>3. Len(list) \in Nat /\ DOMAIN list = 1..Len(list)
  BY <1>2, SeqIsList
<1>4. n <= Len(list)
  <2>1. IsFiniteSet(1..Len(list)) /\ Cardinality(1..Len(list)) = Len(list)
    BY <1>3, UpToSize
  <2>2. Cardinality(W) <= Len(list)
    BY <2>1, FS_Subset
  <2> QED
    BY <1>1, <2>2
<1> HIDE DEF most
<1>5. DOMAIN found = 1..n /\ \A k \in 1..n : found[k] = list[hits[k]]
  BY <1>1 DEF Found
<1> HIDE DEF found
<1>6. ids = Ids(found)
  BY DEF found
<1>7. IsList(ids) /\ Len(ids) = n /\ \A k \in 1..n : ids[k] = found[k].id
  BY <1>1, <1>5, <1>6, IdsAre
<1>8. DOMAIN Ids(list) = 1..Len(list) /\ \A k \in 1..Len(list) : Ids(list)[k] = list[k].id
  BY <1>3, IdsAre
<1>9. ASSUME NEW k \in 1..n, NEW l \in 1..n, ids[k] = ids[l]
      PROVE  k = l
  <2>1. hits[k] \in 1..Len(list) /\ hits[l] \in 1..Len(list)
    BY <1>1
  <2>2. Ids(list)[hits[k]] = Ids(list)[hits[l]]
    BY <1>5, <1>7, <1>8, <1>9, <2>1
  <2>3. hits[k] = hits[l]
    BY <1>2, <1>8, <2>1, <2>2 DEF IsInjective
  <2> QED
    BY <1>1, <2>3
<1>10. n <= most
  BY <1>1, <1>2, <1>3, <1>4
<1>11. AllDifferent(ids)
  BY <1>7, <1>9 DEF AllDifferent
<1> QED
  BY <1>1, <1>4, <1>7, <1>10, <1>11 DEF most

\* A page that load-more adds.
Paged(o, p) == [o EXCEPT !.page = p, !.facets = IF p = 1 THEN "wanted" ELSE "omitted"]

\* It asks for another page of the same search.
LEMMA PagedIs ==
    ASSUME NEW o, IsRequest(o), NEW p \in 1..MaxPage
    PROVE  /\ IsRequest(Paged(o, p)) /\ Likewise(o, Paged(o, p))
           /\ Paged(o, p).page = p /\ Paged(o, p).limit = o.limit
<1> DEFINE facets == IF p = 1 THEN "wanted" ELSE "omitted"
           x == Paged(o, p)
<1>1. facets \in {"wanted", "omitted"} /\ p \in 1..MaxPage + 1
  BY SizesAre
<1> HIDE DEF facets
<1>2. x = [o EXCEPT !.page = p, !.facets = facets]
  BY DEF Paged, facets
<1> HIDE DEF x
<1>3. x = [query |-> o.query, tags |-> o.tags, not |-> o.not, author |-> o.author,
           price |-> o.price, sort |-> o.sort, like |-> o.like, minFirst |-> o.minFirst,
           limit |-> o.limit, facets |-> facets, page |-> p]
  BY <1>2 DEF IsRequest
<1>4. IsRequest(x) /\ Likewise(o, x) /\ x.page = p /\ x.limit = o.limit
  BY <1>1, <1>3 DEF IsRequest, Likewise, SameMatches
<1> QED
  BY <1>4 DEF x

\* All in one page.
LEMMA WholeIs ==
    ASSUME NEW o, IsRequest(o), NEW size \in Nat, NEW x,
           x = [query |-> o.query, tags |-> o.tags, not |-> o.not, author |-> o.author,
                price |-> o.price, sort |-> o.sort, like |-> o.like, minFirst |-> o.minFirst,
                limit |-> size, facets |-> o.facets, page |-> 1]
    PROVE  IsRequest(x) /\ Likewise(o, x) /\ x.page = 1 /\ x.limit = size
<1>1. 1 \in 1..MaxPage + 1
  BY SizesAre
<1> QED
  BY <1>1 DEF IsRequest, Likewise, SameMatches

\* A slice that is large enough.
LEMMA SliceWhole ==
    ASSUME NEW s, IsList(s), Len(s) <= MaxInt, NEW size \in Nat, Len(s) <= size, size <= 2 * MaxInt + 1
    PROVE  Slice(s, Start(1), size) = s
<1>1. Len(s) \in Nat /\ MaxInt \in Nat /\ 0 \in Nat /\ 0 <= MaxInt /\ 0 + size <= 2 * MaxInt + 1
  BY ListIs, SizesAre
<1>2. Start(1) = 0
  <2>1. 1 \in Nat /\ 1 >= 1 /\ 1 <= MaxPage + 1
    BY SizesAre
  <2> QED
    BY <2>1, StartIs
<1>3. Slice(s, 0, size) = SubSeq(s, 0 + 1, End(s, 0 + size))
  BY <1>1, SliceIs
<1>4. End(s, 0 + size) = Len(s)
  BY <1>1 DEF End
<1>5. SubSeq(s, 1, Len(s)) = s
  BY <1>1, CutsJoin
<1> QED
  BY <1>2, <1>3, <1>4, <1>5

\* What Find does with a request that is served as it is.
LEMMA FindRoute ==
    ASSUME NEW db, NEW x, Servable(db, x) = x
    PROVE  Find(db, x) = IF ~Filtered(x) /\ ResolvedSort(x) = "popular" THEN Browse(db, x.page)
                         ELSE IF x.query = NoQuery THEN SearchEngine(db, x)
                         ELSE SearchIndex(db, x)
BY DEF Find

\* A search whose pages are those of a list.
HasPages(db, o, s) ==
    /\ IsList(s) /\ Len(s) = Find(db, o).total /\ Len(s) <= MaxPage * PageSize /\ AllDifferent(s)
    /\ \A x : IsRequest(x) /\ Likewise(o, x) /\ x.limit = 0 =>
                 Find(db, x).assets = Slice(s, Start(x.page), PageSize)

\* The front page's is.
LEMMA BrowsePages ==
    ASSUME NEW db, IsDataset(db), NEW o, IsRequest(o), Servable(db, o) = o,
           ~Filtered(o), ResolvedSort(o) = "popular"
    PROVE  HasPages(db, o, Ids(db.data))
<1> DEFINE s == Ids(db.data)
           n == Len(db.data)
<1>1. n \in Nat /\ n <= MaxPage * PageSize /\ DOMAIN db.data = 1..n
  BY DatasetIs
<1>2. IsList(s) /\ Len(s) = n /\ DOMAIN s = 1..n
  BY <1>1, IdsAre
<1>3. IsInjective(s)
  BY DEF IsDataset, IsAssetList
<1>4. Find(db, o).total = n
  BY FindRoute DEF Browse
<1> HIDE DEF s
<1>5. AllDifferent(s)
  BY <1>2, <1>3 DEF IsInjective, AllDifferent
<1>6. ASSUME NEW x, IsRequest(x), Likewise(o, x)
      PROVE  Find(db, x).assets = Slice(s, Start(x.page), PageSize)
  <2>1. Servable(db, x) = x /\ ~Filtered(x) /\ ResolvedSort(x) = "popular"
    BY <1>6, LikewiseIs
  <2>2. ~(Start(x.page) < 0)
    BY <1>6, RequestStart
  <2>3. Find(db, x) = Browse(db, x.page)
    BY <2>1, FindRoute
  <2> QED
    BY <2>2, <2>3 DEF Browse, s
<1> QED
  BY <1>1, <1>2, <1>4, <1>5, <1>6 DEF HasPages, s

\* And so are the engine's, whose list is also what it gives in one page.
LEMMA EnginePages ==
    ASSUME NEW db, IsDataset(db), NEW o, IsRequest(o), Servable(db, o) = o, o.query = NoQuery,
           ~(~Filtered(o) /\ ResolvedSort(o) = "popular"), ~Unlike(db, o)
    PROVE  HasPages(db, o, AllIn(db, o).assets)
<1> DEFINE hits == EngineHitsOf(db, o)
           W == EngineWanted(db, o)
           s == Ids(Found(db.data, hits))
           size == Len(db.data) + Len(db.docs)
           w == [o EXCEPT !.limit = size, !.page = 1]
<1>1. IsArrangement(hits, W, KeyOrder(EngineKey(db, ResolvedSort(o)))) /\ W \subseteq 1..Len(db.data)
  BY EngineHitsAre DEF EngineHitsOf, EngineWanted
<1>2. IsAssetList(db.data)
  BY DEF IsDataset
<1> HIDE DEF hits, W
<1>3. /\ IsList(s) /\ Len(s) = Cardinality(W) /\ Len(s) \in Nat
      /\ Len(s) <= MaxPage * PageSize /\ Len(s) <= Len(db.data)
      /\ AllDifferent(s)
  <2> DEFINE order == KeyOrder(EngineKey(db, ResolvedSort(o)))
             list == db.data
  <2>1. s = Ids(Found(list, hits)) /\ IsArrangement(hits, W, order) /\ W \subseteq 1..Len(list) /\ IsAssetList(list)
    BY <1>1, <1>2
  <2> HIDE DEF s, order, list
  <2>2. /\ IsList(s) /\ Len(s) = Cardinality(W) /\ Len(s) \in Nat
        /\ Len(s) <= MaxPage * PageSize /\ Len(s) <= Len(list)
    BY ONLY <2>1, IdsOfHits
  <2>3. AllDifferent(s)
    BY ONLY <2>1, IdsOfHits
  <2> QED
    BY <2>2, <2>3 DEF list
<1> HIDE DEF s
<1>4. ASSUME NEW x, IsRequest(x), Likewise(o, x)
      PROVE  /\ Find(db, x).assets = Slice(s, Start(x.page), PageLimit(x))
             /\ Find(db, x).total = Len(s)
  <2>1. /\ Servable(db, x) = x /\ x.query = NoQuery /\ ~Unlike(db, x)
        /\ ~(~Filtered(x) /\ ResolvedSort(x) = "popular")
    BY <1>4, LikewiseIs
  <2>2. Find(db, x) = SearchEngine(db, x)
    BY <2>1, FindRoute
  <2>3. /\ SearchEngine(db, x).total = Cardinality(EngineWanted(db, x))
        /\ SearchEngine(db, x).assets =
             Slice(Ids(Found(db.data, EngineHitsOf(db, x))), Start(x.page), PageLimit(x))
    BY <1>4, <2>1, EngineAnswers
  <2>4. EngineHitsOf(db, x) = hits
    BY <1>4, LikewiseEngine DEF hits
  <2>5. IsArrangement(hits, EngineWanted(db, x), KeyOrder(EngineKey(db, ResolvedSort(x))))
    BY <1>4, <2>4, EngineHitsAre DEF EngineHitsOf
  <2>6. Len(hits) = Cardinality(W) /\ Len(hits) = Cardinality(EngineWanted(db, x))
    BY <1>1, <2>5, ArrangementSize
  <2> QED
    BY <1>3, <2>2, <2>3, <2>4, <2>6 DEF s
<1>5. Likewise(o, o)
  BY DEF Likewise, SameMatches
<1>6. Find(db, o).total = Len(s)
  BY <1>4, <1>5
<1>7. /\ Len(db.data) \in Nat /\ Len(db.docs) \in Nat /\ Len(db.data) <= MaxInt /\ Len(db.docs) <= MaxInt
      /\ MaxInt \in Nat
  BY DatasetIs, SizesAre
<1>8. size \in Nat /\ size <= 2 * MaxInt + 1 /\ Len(s) <= size /\ Len(s) <= MaxInt
  <2> DEFINE a == Len(db.data)
             b == Len(db.docs)
             c == Len(s)
  <2>1. c \in Nat /\ c <= a
    BY <1>3
  <2>2. a \in Nat /\ b \in Nat /\ a <= MaxInt /\ b <= MaxInt /\ MaxInt \in Nat
    BY <1>7
  <2> HIDE DEF a, b, c
  <2>3. a + b \in Nat /\ a + b <= 2 * MaxInt + 1 /\ c <= a + b /\ c <= MaxInt
    BY ONLY <2>1, <2>2
  <2> QED
    BY ONLY <2>3 DEF a, b, c
<1> HIDE DEF size
<1>9. IsRequest(w) /\ Likewise(o, w) /\ w.page = 1 /\ w.limit = size
  <2>1. size \in Nat
    BY <1>8
  <2>3. w = [o EXCEPT !.limit = size, !.page = 1]
    OBVIOUS
  <2> HIDE DEF w
  <2>2. w = [query |-> o.query, tags |-> o.tags, not |-> o.not, author |-> o.author,
                price |-> o.price, sort |-> o.sort, like |-> o.like, minFirst |-> o.minFirst,
                limit |-> size, facets |-> o.facets, page |-> 1]
    BY ONLY IsRequest(o), <2>3 DEF IsRequest
  <2> QED
    BY ONLY IsRequest(o), <2>1, <2>2, WholeIs
<1>10. AllIn(db, o) = Find(db, w)
  BY DEF AllIn, size
<1> HIDE DEF w
<1>11. Find(db, w).assets = Slice(s, Start(1), PageLimit(w))
  BY <1>4, <1>9
<1>12. PageLimit(w) \in Nat /\ PageLimit(w) >= Len(s) /\ PageLimit(w) <= 2 * MaxInt + 1
  <2>1. PageSize \in Nat /\ PageSize <= MaxInt
    <3> DEFINE most == MaxPage * PageSize
    <3>1. PageSize \in Nat /\ MaxPage \in Nat /\ MaxPage >= 1 /\ most <= MaxInt /\ 1 \in Nat /\ 1 * PageSize = PageSize
      BY SizesAre
    <3>2. 1 * PageSize <= most /\ most \in Nat
      BY <3>1, Multiples
    <3> HIDE DEF most
    <3> QED
      BY <1>7, <3>1, <3>2
  <2> QED
    BY <1>3, <1>7, <1>8, <1>9, <2>1 DEF PageLimit
<1>13. Slice(s, Start(1), PageLimit(w)) = s
  BY <1>3, <1>8, <1>12, SliceWhole
<1>14. AllIn(db, o).assets = s
  BY <1>10, <1>11, <1>13
<1>15. \A x : IsRequest(x) /\ x.limit = 0 => PageLimit(x) = PageSize
  BY DEF PageLimit
<1>16. HasPages(db, o, s)
  BY <1>3, <1>4, <1>6, <1>15 DEF HasPages
<1> QED
  BY <1>14, <1>16

\* Load-more puts the list together and stops.
LEMMA PagesCovered ==
    ASSUME NEW db, NEW o, IsRequest(o), Servable(db, o) = o, o.limit = 0,
           o.page \in 1..MaxPage, NEW s, HasPages(db, o, s), NEW total, total = Find(db, o).total
    PROVE  /\ Chain(db, o, total) = s /\ IsInjective(s)
           /\ o.page > PageCount(total) => Find(db, o).assets = <<>>
<1> DEFINE n == PageCount(total)
           pages == [p \in 1..n |-> Find(db, Paged(o, p)).assets]
           most == MaxPage * PageSize
<1>1. /\ IsList(s) /\ Len(s) = total /\ Len(s) <= most /\ AllDifferent(s)
      /\ \A x : IsRequest(x) /\ Likewise(o, x) /\ x.limit = 0 =>
                   Find(db, x).assets = Slice(s, Start(x.page), PageSize)
  BY DEF HasPages
<1>2. total \in Nat /\ total <= most /\ DOMAIN s = 1..Len(s)
  BY <1>1, ListIs
<1>3. most \in Nat /\ most <= MaxInt /\ MaxPage \in Nat /\ MaxInt \in Nat /\ PageSize \in Nat
  BY SizesAre
<1>4. n \in 0..MaxPage /\ total <= n * PageSize
  BY <1>2, PageCountIs
<1>5. Chain(db, o, total) = FlattenSeq(pages)
  BY DEF Chain, Paged
<1>6. ASSUME NEW p \in 1..n
      PROVE  pages[p] = Slice(s, Start(p), PageSize)
  <2>1. p \in 1..MaxPage
    BY <1>3, <1>4
  <2>2. /\ IsRequest(Paged(o, p)) /\ Likewise(o, Paged(o, p))
        /\ Paged(o, p).page = p /\ Paged(o, p).limit = 0
    BY <2>1, PagedIs
  <2>3. Find(db, Paged(o, p)).assets = Slice(s, Start(p), PageSize)
    BY <1>1, <2>2
  <2> QED
    BY <2>3
<1>7. pages = [p \in 1..n |-> pages[p]]
  OBVIOUS
<1>8. n = PageCount(Len(s))
  BY <1>1
<1> HIDE DEF n, pages
<1>9. FlattenSeq(pages) = s
  <2>1. IsList(s) /\ Len(s) <= MaxPage * PageSize
    BY <1>1
  <2>2. \A p \in 1..n : pages[p] = Slice(s, Start(p), PageSize)
    BY <1>6
  <2> QED
    BY Zenon, <1>7, <1>8, <2>1, <2>2, ListPages
<1>10. IsInjective(s)
  BY <1>1, <1>2 DEF AllDifferent, IsInjective
<1>11. ASSUME o.page > n
       PROVE  Find(db, o).assets = <<>>
  <2> DEFINE p == o.page
  <2>1. Likewise(o, o)
    BY DEF Likewise, SameMatches
  <2>2. Find(db, o).assets = Slice(s, Start(p), PageSize)
    BY <1>1, <2>1
  <2>3. p \in 1..MaxPage /\ p \in Nat /\ p - 1 \in Nat /\ n \in Nat /\ n <= p - 1
    BY <1>3, <1>4, <1>11
  <2> HIDE DEF p, most
  <2> DEFINE a == n * PageSize
             b == (p - 1) * PageSize
  <2>4. a <= b /\ a \in Nat /\ b \in Nat
    BY <1>3, <2>3, Multiples
  <2> HIDE DEF a, b
  <2>5. Len(s) <= b /\ Len(s) <= MaxInt
    BY <1>1, <1>2, <1>3, <1>4, <2>4 DEF a
  <2>6. Slice(s, Start(p), PageSize) = <<>>
    BY ONLY <1>1, <2>3, <2>5, HeadsGrow DEF b
  <2> QED
    BY <2>2, <2>6
<1> QED
  BY <1>5, <1>9, <1>10, <1>11 DEF n

-----------------------------------------------------------------------------
(* The pages of a text search.                                             *)

\* The ids of its hits, and those that have an asset.
HitIds(db, o) == Ids(Found(db.docs, IndexHitsOf(db, o, Mode(db, o))))
Assets(db) == ToSet(Ids(db.data))

\* As many as Find says, all different.
LEMMA HitIdsAre ==
    ASSUME NEW db, IsDataset(db), NEW o, IsRequest(o), Servable(db, o) = o, o.query # NoQuery,
           ~Unlike(db, o), NEW ids, ids = HitIds(db, o)
    PROVE  /\ IsList(ids) /\ Len(ids) = Find(db, o).total /\ Len(ids) <= MaxPage * PageSize
           /\ Len(ids) \in Nat /\ Len(ids) <= Len(db.docs)
           /\ AllDifferent(ids)
<1> DEFINE W == Answers(db, o)
           mode == Mode(db, o)
           hits == IndexHitsOf(db, o, mode)
           order == IndexOrder(db, o)
           list == db.docs
<1>1. W = MatchingDocs(db, o, mode)
  BY AdmittedByIndex DEF Answers, ModeOf
<1>2. IsArrangement(hits, W, order) /\ W \subseteq 1..Len(list)
  BY <1>1, IndexHitsAre DEF IndexHitsOf
<1>3. IsAssetList(list) /\ ids = Ids(Found(list, hits))
  BY DEF IsDataset, HitIds
<1>4. Find(db, o).total = Cardinality(W)
  BY FindAnswers
<1> HIDE DEF W, hits, order, list
<1>5. /\ IsList(ids) /\ Len(ids) = Cardinality(W) /\ Len(ids) \in Nat
      /\ Len(ids) <= MaxPage * PageSize /\ Len(ids) <= Len(list)
      /\ AllDifferent(ids)
  BY ONLY <1>2, <1>3, IdsOfHits
<1> QED
  BY <1>4, <1>5 DEF list

\* What the index gives a request like another.
LEMMA LikewiseHits ==
    ASSUME NEW db, IsDataset(db), NEW o, IsRequest(o), Servable(db, o) = o, o.query # NoQuery,
           NEW x, IsRequest(x), Likewise(o, x), NEW from, NEW size, NEW facets
    PROVE  QueryIndex(db, x, from, size, facets).assets = Kept(Slice(HitIds(db, o), from, size), Assets(db))
<1>1. x.query # NoQuery
  BY LikewiseIs
<1>2. QueryIndex(db, x, from, size, facets).assets =
        Kept(Slice(HitIds(db, x), from, size), Assets(db))
  BY <1>1, QueryAnswers DEF HitIds, Assets
<1>3. HitIds(db, x) = HitIds(db, o)
  BY LikewiseIndex DEF HitIds
<1> QED
  BY <1>2, <1>3

\* A page within an entry of the hit cache.
LEMMA InEntry ==
    ASSUME NEW x, IsRequest(x), x.query # NoQuery
    PROVE  /\ x.limit = 0 => (InHitCache(x) <=> x.page <= HitCacheDepth)
           /\ x.limit # 0 => ~InHitCache(x)
<1> DEFINE p == x.page
           depth == HitCacheDepth
           start == (p - 1) * PageSize
           room == depth * PageSize
<1>1. p \in Nat /\ p >= 1 /\ p - 1 \in Nat /\ Start(p) = start
  BY RequestStart
<1>2. PageSize \in Nat /\ PageSize > 0 /\ depth \in Nat
  BY SizesAre
<1>3. p * PageSize = start + PageSize
  <2>1. ((p - 1) + 1) * PageSize = start + PageSize
    BY <1>1, <1>2, Multiples
  <2>2. (p - 1) + 1 = p
    BY <1>1
  <2> QED
    BY <2>1, <2>2
<1>4. /\ p <= depth => p * PageSize <= room
      /\ depth < p => room + PageSize <= p * PageSize
      /\ p * PageSize \in Nat /\ room \in Nat
  BY <1>1, <1>2, Multiples
<1>5. x.limit = 0 => (InHitCache(x) <=> start + PageSize <= room)
  BY <1>1 DEF InHitCache, HitCacheable, PageLimit
<1>6. x.limit # 0 => ~InHitCache(x)
  BY DEF InHitCache, HitCacheable
<1> HIDE DEF start, room
<1>7. start + PageSize <= room <=> p <= depth
  <2> DEFINE next == p * PageSize
  <2>1. (p <= depth => next <= room) /\ (depth < p => room + PageSize <= next) /\ next \in Nat /\ room \in Nat
    BY <1>4
  <2>2. next = start + PageSize
    BY <1>3
  <2> HIDE DEF next, p, depth
  <2>3. p \in Nat /\ depth \in Nat /\ PageSize \in Nat /\ PageSize > 0
    BY <1>1, <1>2
  <2> QED
    BY ONLY <2>1, <2>2, <2>3
<1> QED
  BY <1>5, <1>6, <1>7

\* A page is cut from an entry, whose hits are those with an asset, or mapped
\* to assets after it is cut.
LEMMA HitPage ==
    ASSUME NEW db, IsDataset(db), NEW o, IsRequest(o), Servable(db, o) = o, o.query # NoQuery,
           ~Unlike(db, o), NEW ids, ids = HitIds(db, o), NEW T, T = Assets(db),
           NEW x, IsRequest(x), Likewise(o, x)
    PROVE  /\ x.limit = 0 => Find(db, x).assets =
                IF x.page <= HitCacheDepth
                  THEN Slice(Kept(Heads(ids, HitCacheDepth), T), Start(x.page), PageSize)
                  ELSE Kept(Slice(ids, Start(x.page), PageSize), T)
           /\ x.limit # 0 => Find(db, x).assets = Kept(Slice(ids, Start(x.page), PageLimit(x)), T)
<1> DEFINE depth == HitCacheDepth * PageSize
           start == Start(x.page)
           size == PageLimit(x)
           entry == QueryIndex(db, x, 0, depth, "wanted")
           direct == QueryIndex(db, x, start, size, x.facets)
<1>1. Servable(db, x) = x /\ x.query # NoQuery /\ Filtered(x) /\ ~Unlike(db, x)
  BY LikewiseIs DEF Filtered
<1>2. Find(db, x) = SearchIndex(db, x)
  BY ONLY <1>1, FindRoute
<1>3. start \in Nat /\ start >= 0 /\ ~(start < 0)
  BY RequestStart
<1>4. entry.assets = Kept(Slice(ids, 0, depth), T) /\ direct.assets = Kept(Slice(ids, start, size), T)
  BY LikewiseHits
<1>5. ~InHitCache(x) => SearchIndex(db, x).assets = Kept(Slice(ids, start, size), T)
  <2>1. ~InHitCache(x) => SearchIndex(db, x) = direct
    BY <1>1, <1>3 DEF SearchIndex, SearchUncached
  <2> QED
    BY <1>4, <2>1
<1>6. InHitCache(x) => SearchIndex(db, x).assets = Slice(entry.assets, start, size)
  <2> SUFFICES ASSUME InHitCache(x) PROVE SearchIndex(db, x).assets = Slice(entry.assets, start, size)
    OBVIOUS
  <2>1. SearchIndex(db, x) = [entry EXCEPT !.assets = Slice(@, start, size),
                                           !.tags = IF x.facets = "wanted" THEN @ ELSE <<>>]
    BY Zenon, <1>1, <1>3 DEF SearchIndex
  <2>2. entry = [assets |-> entry.assets, total |-> entry.total, tags |-> entry.tags, matched |-> entry.matched]
    BY <1>1, QueryAnswers
  <2> DEFINE assets == Slice(entry.assets, start, size)
             tags == IF x.facets = "wanted" THEN entry.tags ELSE <<>>
  <2> HIDE DEF entry
  <2>3. SearchIndex(db, x) = [entry EXCEPT !.assets = assets, !.tags = tags]
    BY <2>1, <2>2
  <2> HIDE DEF assets, tags
  <2>4. SearchIndex(db, x).assets = assets
    BY <2>2, <2>3
  <2> QED
    BY <2>4 DEF assets
<1>7. x.limit = 0 => size = PageSize
  BY DEF PageLimit
<1>8. Slice(ids, 0, depth) = Heads(ids, HitCacheDepth)
  <2>1. IsList(ids) /\ Len(ids) <= MaxPage * PageSize /\ Len(ids) \in Nat
    BY HitIdsAre
  <2>2. depth \in Nat /\ depth <= MaxInt /\ MaxInt \in Nat /\ MaxPage * PageSize <= MaxInt
        /\ MaxPage * PageSize \in Nat
    BY SizesAre
  <2> HIDE DEF depth
  <2>3. 0 \in Nat /\ 0 <= MaxInt /\ 0 + depth <= 2 * MaxInt + 1 /\ 0 + depth = depth /\ 0 + 1 = 1
        /\ Len(ids) <= MaxInt
    BY <2>1, <2>2
  <2>4. Slice(ids, 0, depth) = SubSeq(ids, 0 + 1, End(ids, 0 + depth))
    BY ONLY <2>1, <2>2, <2>3, SliceIs
  <2> QED
    BY <2>3, <2>4 DEF Heads, depth
<1> HIDE DEF entry, direct, start, size, depth
<1> QED
  BY <1>1, <1>2, <1>4, <1>5, <1>6, <1>7, <1>8, InEntry DEF start, size

\* What the index gives in one page is all its hits that have an asset.
LEMMA AllHits ==
    ASSUME NEW db, IsDataset(db), NEW o, IsRequest(o), Servable(db, o) = o, o.query # NoQuery,
           ~Unlike(db, o), NEW ids, ids = HitIds(db, o), NEW T, T = Assets(db)
    PROVE  AllIn(db, o).assets = Kept(ids, T)
<1> DEFINE size == Len(db.data) + Len(db.docs)
           w == [o EXCEPT !.limit = size, !.page = 1]
           depth == HitCacheDepth
<1>1. /\ IsList(ids) /\ Len(ids) <= MaxPage * PageSize /\ Len(ids) \in Nat /\ Len(ids) <= Len(db.docs)
  BY HitIdsAre
<1>2. size \in Nat /\ size <= 2 * MaxInt + 1 /\ Len(ids) <= size /\ Len(ids) <= MaxInt
  <2> DEFINE a == Len(db.data)
             b == Len(db.docs)
             c == Len(ids)
  <2>1. a \in Nat /\ b \in Nat /\ a <= MaxInt /\ b <= MaxInt /\ MaxInt \in Nat
    BY DatasetIs, SizesAre
  <2>2. c \in Nat /\ c <= b
    BY <1>1
  <2> HIDE DEF a, b, c
  <2>3. a + b \in Nat /\ a + b <= 2 * MaxInt + 1 /\ c <= a + b /\ c <= MaxInt
    BY ONLY <2>1, <2>2
  <2> QED
    BY ONLY <2>3 DEF a, b, c
<1>3. AllIn(db, o) = Find(db, w)
  BY DEF AllIn
<1> HIDE DEF size
<1>4. w = [o EXCEPT !.limit = size, !.page = 1]
  OBVIOUS
<1> HIDE DEF w
<1>5. w = [query |-> o.query, tags |-> o.tags, not |-> o.not, author |-> o.author,
           price |-> o.price, sort |-> o.sort, like |-> o.like, minFirst |-> o.minFirst,
           limit |-> size, facets |-> o.facets, page |-> 1]
  BY ONLY IsRequest(o), <1>4 DEF IsRequest
<1>6. IsRequest(w) /\ Likewise(o, w) /\ w.page = 1 /\ w.limit = size
  BY ONLY IsRequest(o), <1>2, <1>5, WholeIs
<1>7. /\ w.limit = 0 => Find(db, w).assets =
                IF w.page <= depth
                  THEN Slice(Kept(Heads(ids, depth), T), Start(w.page), PageSize)
                  ELSE Kept(Slice(ids, Start(w.page), PageSize), T)
      /\ w.limit # 0 => Find(db, w).assets = Kept(Slice(ids, Start(w.page), PageLimit(w)), T)
  BY <1>6, HitPage
<1>8. CASE size = 0
  <2>1. depth \in Nat /\ depth >= 1 /\ PageSize \in Nat /\ MaxInt \in Nat
    BY SizesAre
  <2> HIDE DEF depth
  <2>2. Len(ids) = 0
    BY <1>1, <1>2, <1>8
  <2> DEFINE room == depth * PageSize
  <2>3. room \in Nat
    BY <2>1, Multiples
  <2>4. Heads(ids, depth) = ids
    <3>1. Len(ids) <= room
      BY <2>2, <2>3
    <3> QED
      BY <1>1, <2>1, <3>1, HeadsAre
  <2> DEFINE kept == Kept(ids, T)
  <2>5. IsList(kept) /\ Len(kept) = 0
    <3>1. IsList(kept) /\ Len(kept) \in Nat /\ Len(kept) <= Len(ids)
      BY <1>1, KeptShort
    <3> HIDE DEF kept
    <3> QED
      BY <2>2, <3>1
  <2>6. Find(db, w).assets = Slice(kept, Start(1), PageSize)
    BY <1>6, <1>7, <1>8, <2>1, <2>4
  <2>7. PageSize <= MaxInt
    <3> DEFINE most == MaxPage * PageSize
    <3>1. PageSize \in Nat /\ MaxPage \in Nat /\ MaxPage >= 1 /\ most <= MaxInt /\ 1 \in Nat /\ 1 * PageSize = PageSize
      BY SizesAre
    <3>2. 1 * PageSize <= most /\ most \in Nat
      BY <3>1, Multiples
    <3> HIDE DEF most
    <3> QED
      BY <2>1, <3>1, <3>2
  <2> HIDE DEF kept
  <2>8. Len(kept) <= MaxInt /\ Len(kept) <= PageSize /\ PageSize <= 2 * MaxInt + 1
    BY <2>1, <2>5, <2>7
  <2>9. Slice(kept, Start(1), PageSize) = kept
    BY <2>1, <2>5, <2>8, SliceWhole
  <2> QED
    BY <1>3, <2>6, <2>9 DEF kept
<1>9. CASE size # 0
  <2>1. PageLimit(w) = size
    BY <1>2, <1>6, <1>9 DEF PageLimit
  <2>2. Find(db, w).assets = Kept(Slice(ids, Start(1), size), T)
    BY <1>6, <1>7, <1>9, <2>1
  <2>3. Slice(ids, Start(1), size) = ids
    BY <1>1, <1>2, SliceWhole
  <2> QED
    BY <1>3, <2>2, <2>3
<1> QED
  BY <1>8, <1>9

\* What is kept of a list without repetitions has none.
LEMMA KeptDiffer ==
    ASSUME NEW s, IsList(s), AllDifferent(s), NEW T
    PROVE  IsInjective(Kept(s, T))
<1> DEFINE r == Kept(s, T)
<1>1. /\ \A k, l \in 1..Len(r) : k < l =>
            \E i, j \in 1..Len(s) : i < j /\ r[k] = s[i] /\ r[l] = s[j]
      /\ IsList(r) /\ Len(r) \in Nat /\ Len(s) \in Nat
  BY KeptHas, KeptIs, ListIs
<1> HIDE DEF r
<1>2. DOMAIN r = 1..Len(r)
  BY <1>1, ListIs
<1>3. ASSUME NEW k \in 1..Len(r), NEW l \in 1..Len(r), k < l
      PROVE  r[k] # r[l]
  <2>1. PICK i \in 1..Len(s), j \in 1..Len(s) : i < j /\ r[k] = s[i] /\ r[l] = s[j]
    BY <1>1, <1>3
  <2>2. i # j
    BY <1>1, <2>1
  <2> QED
    BY <2>1, <2>2 DEF AllDifferent
<1>4. \A k, l \in 1..Len(r) : k < l \/ l < k \/ k = l
  BY <1>1
<1>5. \A k, l \in 1..Len(r) : r[k] = r[l] => k = l
  BY <1>3, <1>4
<1>6. IsInjective(r)
  BY <1>2, <1>5 DEF IsInjective
<1> QED
  BY <1>6 DEF r

\* Load-more puts the hits together too.
LEMMA HitsCovered ==
    ASSUME NEW db, IsDataset(db), NEW o, IsRequest(o), Servable(db, o) = o, o.query # NoQuery,
           ~Unlike(db, o), o.limit = 0, o.page \in 1..MaxPage, NEW total, total = Find(db, o).total
    PROVE  /\ Chain(db, o, total) = AllIn(db, o).assets /\ IsInjective(AllIn(db, o).assets)
           /\ o.page > PageCount(total) => Find(db, o).assets = <<>>
<1> DEFINE ids == HitIds(db, o)
           T == Assets(db)
           depth == HitCacheDepth
           entry == Kept(Heads(ids, depth), T)
           n == PageCount(total)
           pages == [p \in 1..n |-> Find(db, Paged(o, p)).assets]
           most == MaxPage * PageSize
<1>1. /\ IsList(ids) /\ Len(ids) = total /\ Len(ids) <= most /\ Len(ids) \in Nat /\ AllDifferent(ids)
  BY HitIdsAre
<1>2. AllIn(db, o).assets = Kept(ids, T)
  BY AllHits
<1>3. most \in Nat /\ most <= MaxInt /\ MaxPage \in Nat /\ MaxInt \in Nat /\ PageSize \in Nat /\ depth \in Nat
  BY SizesAre
<1>4. n \in 0..MaxPage /\ total <= n * PageSize
  BY <1>1, PageCountIs
<1>5. Chain(db, o, total) = FlattenSeq(pages)
  BY DEF Chain, Paged
<1>6. ASSUME NEW x, IsRequest(x), Likewise(o, x), x.limit = 0
      PROVE  Find(db, x).assets = IF x.page <= depth THEN Slice(entry, Start(x.page), PageSize)
                                  ELSE Kept(Slice(ids, Start(x.page), PageSize), T)
  BY <1>6, HitPage
<1> HIDE DEF ids, T, entry, depth
<1>7. ASSUME NEW p \in 1..n
      PROVE  pages[p] = IF p <= depth THEN Slice(entry, Start(p), PageSize)
                        ELSE Kept(Slice(ids, Start(p), PageSize), T)
  <2>1. p \in 1..MaxPage
    BY <1>3, <1>4
  <2>2. /\ IsRequest(Paged(o, p)) /\ Likewise(o, Paged(o, p))
        /\ Paged(o, p).page = p /\ Paged(o, p).limit = 0
    BY <2>1, PagedIs
  <2>3. Find(db, Paged(o, p)).assets = IF p <= depth THEN Slice(entry, Start(p), PageSize)
                                       ELSE Kept(Slice(ids, Start(p), PageSize), T)
    BY <1>6, <2>2
  <2> QED
    BY <2>3
<1>8. pages = [p \in 1..n |-> pages[p]]
  OBVIOUS
<1>9. n = PageCount(Len(ids))
  BY <1>1
<1> HIDE DEF n, pages
<1>10. FlattenSeq(pages) = Kept(ids, T)
  <2>1. IsList(ids) /\ Len(ids) <= MaxPage * PageSize
    BY <1>1
  <2>2. entry = Kept(Heads(ids, HitCacheDepth), T)
    BY DEF entry, depth
  <2>3. \A p \in 1..n : pages[p] = IF p <= HitCacheDepth THEN Slice(entry, Start(p), PageSize)
                                   ELSE Kept(Slice(ids, Start(p), PageSize), T)
    BY <1>7 DEF depth
  <2>4. AreHitPages(ids, T, n, pages)
    BY <1>8, <2>2, <2>3 DEF AreHitPages
  <2> QED
    BY ONLY <1>9, <2>1, <2>4, HitPages
<1>11. IsInjective(Kept(ids, T))
  BY <1>1, KeptDiffer
<1>12. ASSUME o.page > n
       PROVE  Find(db, o).assets = <<>>
  <2> DEFINE p == o.page
  <2>1. Likewise(o, o)
    BY DEF Likewise, SameMatches
  <2>2. Find(db, o).assets = IF p <= depth THEN Slice(entry, Start(p), PageSize)
                             ELSE Kept(Slice(ids, Start(p), PageSize), T)
    BY <1>6, <2>1
  <2>3. p \in 1..MaxPage /\ p \in Nat /\ p - 1 \in Nat /\ n \in Nat /\ n <= p - 1
    BY <1>3, <1>4, <1>12
  <2> HIDE DEF p, most
  <2> DEFINE a == n * PageSize
             b == (p - 1) * PageSize
  <2>4. a <= b /\ a \in Nat /\ b \in Nat
    BY <1>3, <2>3, Multiples
  <2> HIDE DEF a, b
  <2>5. Len(ids) <= b /\ Len(ids) <= MaxInt
    BY <1>1, <1>3, <1>4, <2>4 DEF a
  <2>6. Slice(ids, Start(p), PageSize) = <<>>
    BY ONLY <1>1, <2>3, <2>5, HeadsGrow DEF b
  <2>7. Kept(<<>>, T) = <<>>
    <3>1. <<>> \in Seq({}) /\ Len(<<>>) = 0
      BY EmptySeq
    <3>2. IsList(<<>>)
      BY <3>1, SeqIsList
    <3> QED
      BY <3>1, <3>2, KeptShort
  <2>8. IsList(entry) /\ Len(entry) <= b /\ Len(entry) <= MaxInt
    <3> DEFINE first == Heads(ids, depth)
    <3>1. IsList(first) /\ Len(first) \in Nat /\ Len(first) <= Len(ids)
      BY <1>1, <1>3, HeadsAre
    <3> HIDE DEF first
    <3>2. entry = Kept(first, T)
      BY DEF entry, first
    <3>3. IsList(entry) /\ Len(entry) \in Nat /\ Len(entry) <= Len(first)
      BY <3>1, <3>2, KeptShort
    <3> QED
      BY <1>1, <1>3, <2>4, <2>5, <3>1, <3>3
  <2>9. Slice(entry, Start(p), PageSize) = <<>>
    BY ONLY <2>3, <2>8, HeadsGrow DEF b
  <2> QED
    BY <2>2, <2>6, <2>7, <2>9
<1> QED
  BY <1>2, <1>5, <1>10, <1>11, <1>12 DEF n

\* Nothing is like an asset that is not there.
LEMMA UnlikeCovered ==
    ASSUME NEW db, IsDataset(db), NEW o, IsRequest(o), Servable(db, o) = o, Unlike(db, o),
           NEW total, total = Find(db, o).total
    PROVE  /\ Chain(db, o, total) = AllIn(db, o).assets /\ IsInjective(AllIn(db, o).assets)
           /\ Find(db, o).assets = <<>>
<1> DEFINE size == Len(db.data) + Len(db.docs)
           w == [o EXCEPT !.limit = size, !.page = 1]
           n == PageCount(total)
           pages == [p \in 1..n |-> Find(db, Paged(o, p)).assets]
<1>1. Find(db, o) = Empty
  BY FindAnswers
<1>2. total = 0
  BY <1>1 DEF Empty
<1>3. Find(db, o).assets = <<>>
  BY <1>1 DEF Empty
<1>4. size \in Nat
  <2> DEFINE a == Len(db.data)
             b == Len(db.docs)
  <2>1. a \in Nat /\ b \in Nat
    BY DatasetIs
  <2> HIDE DEF a, b
  <2>2. a + b \in Nat
    BY ONLY <2>1
  <2> QED
    BY ONLY <2>2 DEF a, b
<1>5. AllIn(db, o) = Find(db, w)
  BY DEF AllIn
<1> HIDE DEF size
<1>6. w = [o EXCEPT !.limit = size, !.page = 1]
  OBVIOUS
<1> HIDE DEF w
<1>7. w = [query |-> o.query, tags |-> o.tags, not |-> o.not, author |-> o.author,
           price |-> o.price, sort |-> o.sort, like |-> o.like, minFirst |-> o.minFirst,
           limit |-> size, facets |-> o.facets, page |-> 1]
  BY ONLY IsRequest(o), <1>6 DEF IsRequest
<1>8. IsRequest(w) /\ Likewise(o, w)
  BY ONLY IsRequest(o), <1>4, <1>7, WholeIs
<1>9. Unlike(db, w) /\ Servable(db, w) = w
  BY <1>8, LikewiseIs
<1>10. Find(db, w) = Empty
  BY <1>8, <1>9, FindAnswers
<1>11. AllIn(db, o).assets = <<>>
  BY <1>5, <1>10 DEF Empty
<1>12. n = 0
  <2>1. 0 \in Nat /\ 0 <= MaxPage * PageSize
    BY SizesAre
  <2> QED
    BY <1>2, <2>1, PageCountIs
<1>13. Chain(db, o, total) = FlattenSeq(pages)
  BY DEF Chain, Paged
<1>14. pages = [p \in 1..0 |-> pages[p]]
  BY <1>12
<1> HIDE DEF pages
<1>15. FlattenSeq(pages) = <<>>
  BY <1>14, NothingFlattened
<1>16. IsInjective(<<>>)
  <2>1. <<>> \in Seq({}) /\ Len(<<>>) = 0
    BY EmptySeq
  <2>2. DOMAIN <<>> = 1..0
    BY <2>1, LenProperties
  <2> QED
    BY <2>2 DEF IsInjective
<1> QED
  BY <1>3, <1>11, <1>13, <1>15, <1>16

\* Whatever the visitor's page asks, load-more shows all of it, once.
LEMMA PagesCoverHere ==
    ASSUME VisitorTyped
    PROVE  PagesCoverMatches
<1> DEFINE asked == Options(Here, at.page, "wanted")
           o == Servable(cat, asked)
           total == Find(cat, o).total
           browsed == ~Filtered(o) /\ ResolvedSort(o) = "popular"
           all == IF browsed THEN Ids(cat.data) ELSE AllIn(cat, o).assets
<1>1. IsDataset(cat) /\ Tidy(Here, cat.rates) /\ IsRequest(asked) /\ Shown = Find(cat, asked)
  BY HereTidy
<1>2. at.page \in 1..MaxPage /\ MaxPage \in Nat
  BY SizesAre DEF VisitorTyped, VisitorTypeOK
<1>3. asked.page = at.page /\ asked.limit = 0
  <2>1. at.page \in 1..MaxPage + 1 /\ "wanted" \in {"wanted", "omitted"}
    BY <1>2
  <2> QED
    BY <1>1, <2>1, OptionsAre
<1> HIDE DEF asked
<1>4. IsRequest(o) /\ Servable(cat, o) = o /\ o.limit = 0 /\ o.page = at.page /\ o.page \in 1..MaxPage
  BY <1>1, <1>2, <1>3, ServableIs
<1>5. Shown = Find(cat, o)
  BY <1>1, <1>4 DEF Find
<1> HIDE DEF o
<1>6. /\ Chain(cat, o, total) = all /\ IsInjective(all)
      /\ o.page > PageCount(total) => Find(cat, o).assets = <<>>
  <2>1. CASE browsed
    <3>1. HasPages(cat, o, Ids(cat.data))
      BY ONLY <1>1, <1>4, <2>1, BrowsePages
    <3>2. /\ Chain(cat, o, total) = Ids(cat.data) /\ IsInjective(Ids(cat.data))
          /\ o.page > PageCount(total) => Find(cat, o).assets = <<>>
      BY ONLY <1>4, <3>1, PagesCovered
    <3> QED
      BY <2>1, <3>2
  <2>2. CASE ~browsed
    <3>1. all = AllIn(cat, o).assets
      BY <2>2
    <3>2. CASE Unlike(cat, o)
      BY ONLY <1>1, <1>4, <3>1, <3>2, UnlikeCovered
    <3>3. CASE ~Unlike(cat, o) /\ o.query = NoQuery
      <4>1. HasPages(cat, o, AllIn(cat, o).assets)
        BY ONLY <1>1, <1>4, <2>2, <3>3, EnginePages
      <4>2. /\ Chain(cat, o, total) = AllIn(cat, o).assets /\ IsInjective(AllIn(cat, o).assets)
            /\ o.page > PageCount(total) => Find(cat, o).assets = <<>>
        BY ONLY <1>4, <4>1, PagesCovered
      <4> QED
        BY <3>1, <4>2
    <3>4. CASE ~Unlike(cat, o) /\ o.query # NoQuery
      BY ONLY <1>1, <1>4, <3>1, <3>4, HitsCovered
    <3> QED
      BY <3>2, <3>3, <3>4
  <2> QED
    BY <2>1, <2>2
<1> QED
  BY ONLY <1>4, <1>5, <1>6 DEF PagesCoverMatches, o, asked

\* In every session load-more shows every match once and stops.
THEOREM PagesCoverMatchesHolds ==
    VisitorSpec => []PagesCoverMatches
<1>1. VisitorInv => PagesCoverMatches
  BY PagesCoverHere DEF VisitorInv
<1> QED
  BY <1>1, VisitorInvHolds, PTL
================================================================================
