--------------------------- MODULE QueryPath_proofs ---------------------------
(***************************************************************************)
(* The safety properties of QueryPath for any number of requests, keys,    *)
(* entries and refreshes.  The argument: whoever is between RLock and      *)
(* RUnlock keeps the dataset in place, so what it searched, what it filled *)
(* an entry with and what it waits for are all of the loaded list; and a   *)
(* swap, which nobody is within, leaves no entry behind.                   *)
(***************************************************************************)
EXTENDS QueryPath, SequenceTheorems, TLAPS

Places == {"new", "lock", "look", "search", "fill", "store", "signal", "wait", "answer", "end"}

ReqRecords == [pc: Places, key: Keys \cup {None}, reading: Nat,
               waits: Requests \cup {None}, entry: Nat]
FlightRecords == [of: Nat, gen: Nat, done: BOOLEAN, how: {"running", "ok", "error", "panic"}]

Typed ==
    /\ dataset \in Nat /\ index \in Nat /\ gen \in Nat /\ oldIndex \in Nat
    /\ refresh \in {"rest", "lock", "close"} /\ reuse \in BOOLEAN
    /\ readers \subseteq Requests
    /\ ll \in Seq(Keys)
    /\ flights \in [Keys -> Requests \cup {None}]
    /\ flight \in [Requests -> FlightRecords]
    /\ req \in [Requests -> ReqRecords]

\* The open index is the one the dataset is searched through, and an index on
\* its way out is another one.
DatasetInv ==
    /\ gen = dataset /\ index <= dataset
    /\ dataset # 0 => index # 0
    /\ index # 0 => index \in open
    /\ refresh = "lock" => IF reuse THEN index # 0 ELSE dataset + 1 \in open
    /\ refresh = "close" => oldIndex # index

CacheInv ==
    /\ ToSet(ll) = DOMAIN items /\ IsInjective(ll) /\ Len(ll) <= MaxEntries
    /\ \A k \in DOMAIN items : items[k] = dataset

Holds(r) == req[r].pc \in {"look", "search", "fill", "store", "signal", "wait", "answer"}
Fills(r) == req[r].pc \in {"fill", "store"}

\* What a request knows while it holds the lock.
RequestInv(r) ==
    /\ r \in readers <=> Holds(r)
    /\ Holds(r) => dataset # 0 /\ flight[r].of \in {dataset, Nothing}
    /\ req[r].reading # 0 => Holds(r) /\ req[r].reading = index
    /\ req[r].pc \in {"new", "lock"} => flight[r].of = Nothing
    /\ Fills(r) => req[r].key \in Keys /\ flights[req[r].key] = r /\ req[r].key \notin DOMAIN items
    /\ req[r].pc = "store" /\ flight[r].how = "ok" => flight[r].of = dataset
    /\ req[r].pc = "wait" => req[r].waits \in Requests /\ flight[req[r].waits].of \in {dataset, Nothing}
    /\ req[r].pc = "answer" => req[r].entry \in {dataset, Nothing}

\* A flight in the map is one that is being filled.
FlightsInv == \A k \in Keys :
    flights[k] # None => flights[k] \in Requests /\ Fills(flights[k]) /\ req[flights[k]].key = k

QueryInv ==
    /\ Typed /\ DatasetInv /\ CacheInv /\ FlightsInv
    /\ \A r \in Requests : RequestInv(r)
-----------------------------------------------------------------------------
(* The list of the hit cache.                                              *)

\* Moving an element to the front shifts those before it by one.
LEMMA MovedToFront ==
  ASSUME NEW S, NEW list \in Seq(S), NEW i \in 1..Len(list)
  PROVE  /\ MoveToFront(list, i) \in Seq(S)
         /\ Len(MoveToFront(list, i)) = Len(list)
         /\ MoveToFront(list, i)[1] = list[i]
         /\ \A j \in 2..Len(list) :
              MoveToFront(list, i)[j] = IF j <= i THEN list[j - 1] ELSE list[j]
<1> DEFINE a == SubSeq(list, 1, i - 1)
           b == SubSeq(list, i + 1, Len(list))
<1>1. /\ Len(list) \in Nat /\ \A j \in 1..Len(list) : list[j] \in S
      /\ i \in Int /\ 1 <= i /\ i <= Len(list)
  BY LenProperties
<1>2. a \in Seq(S) /\ Len(a) = i - 1 /\ \A j \in 1..i - 1 : a[j] = list[j]
  <2>1. \A j \in 1..i - 1 : list[j] \in S
    BY <1>1
  <2>2. /\ a \in Seq(S) /\ Len(a) = IF 1 <= i - 1 THEN (i - 1) - 1 + 1 ELSE 0
        /\ \A j \in 1..(i - 1) - 1 + 1 : a[j] = list[1 + j - 1]
    BY <1>1, <2>1, SubSeqProperties
  <2> QED
    BY <1>1, <2>2
<1>3. /\ b \in Seq(S) /\ Len(b) = Len(list) - i
      /\ \A j \in 1..Len(list) - i : b[j] = list[i + j]
  <2>1. \A j \in i + 1..Len(list) : list[j] \in S
    BY <1>1
  <2>2. /\ b \in Seq(S) /\ Len(b) = IF i + 1 <= Len(list) THEN Len(list) - (i + 1) + 1 ELSE 0
        /\ \A j \in 1..Len(list) - (i + 1) + 1 : b[j] = list[(i + 1) + j - 1]
    BY <1>1, <2>1, SubSeqProperties
  <2> QED
    BY <1>1, <2>2
<1> HIDE DEF a, b
<1>4. /\ a \o b \in Seq(S) /\ Len(a \o b) = Len(list) - 1
      /\ \A j \in 1..Len(list) - 1 : (a \o b)[j] = IF j <= i - 1 THEN list[j] ELSE list[j + 1]
  <2>1. /\ a \o b \in Seq(S) /\ Len(a \o b) = Len(a) + Len(b)
        /\ \A j \in 1..Len(a) + Len(b) : (a \o b)[j] = IF j <= Len(a) THEN a[j] ELSE b[j - Len(a)]
    BY <1>2, <1>3, ConcatProperties
  <2>2. ASSUME NEW j \in 1..Len(list) - 1
        PROVE  (a \o b)[j] = IF j <= i - 1 THEN list[j] ELSE list[j + 1]
    <3>1. (a \o b)[j] = IF j <= i - 1 THEN a[j] ELSE b[j - (i - 1)]
      BY <1>1, <1>2, <1>3, <2>1
    <3>2. CASE j <= i - 1
      BY <1>1, <1>2, <3>1, <3>2
    <3>3. CASE ~(j <= i - 1)
      <4>1. j - (i - 1) \in 1..Len(list) - i /\ i + (j - (i - 1)) = j + 1
        BY <1>1, <3>3
      <4> QED
        BY <1>3, <3>1, <3>3, <4>1
    <3> QED
      BY <3>2, <3>3
  <2> QED
    BY <1>1, <1>2, <1>3, <2>1, <2>2
<1>5. <<list[i]>> \in Seq(S) /\ Len(<<list[i]>>) = 1 /\ <<list[i]>>[1] = list[i]
  BY <1>1
<1>6. MoveToFront(list, i) = <<list[i]>> \o (a \o b)
  BY DEF MoveToFront, RemoveAt, a, b
<1>7. /\ <<list[i]>> \o (a \o b) \in Seq(S)
      /\ Len(<<list[i]>> \o (a \o b)) = Len(list)
      /\ \A j \in 1..Len(list) : (<<list[i]>> \o (a \o b))[j] =
            IF j <= 1 THEN <<list[i]>>[j] ELSE (a \o b)[j - 1]
  <2> DEFINE h == <<list[i]>>
             t == a \o b
  <2>1. h \in Seq(S) /\ t \in Seq(S) /\ Len(h) = 1 /\ Len(t) = Len(list) - 1
    BY <1>4, <1>5
  <2> HIDE DEF h, t
  <2>2. /\ h \o t \in Seq(S) /\ Len(h \o t) = Len(h) + Len(t)
        /\ \A j \in 1..Len(h) + Len(t) : (h \o t)[j] = IF j <= Len(h) THEN h[j] ELSE t[j - Len(h)]
    BY <2>1, ConcatProperties
  <2>3. /\ h \o t \in Seq(S) /\ Len(h \o t) = Len(list)
        /\ \A j \in 1..Len(list) : (h \o t)[j] = IF j <= 1 THEN h[j] ELSE t[j - 1]
    BY <1>1, <2>1, <2>2
  <2> QED
    BY <2>3 DEF h, t
<1>8. ASSUME NEW j \in 2..Len(list)
      PROVE  (<<list[i]>> \o (a \o b))[j] = IF j <= i THEN list[j - 1] ELSE list[j]
  <2>1. (<<list[i]>> \o (a \o b))[j] = (a \o b)[j - 1] /\ j - 1 \in 1..Len(list) - 1
    BY <1>1, <1>7
  <2>2. (a \o b)[j - 1] = IF j - 1 <= i - 1 THEN list[j - 1] ELSE list[(j - 1) + 1]
    BY <1>4, <2>1
  <2>3. (j - 1 <= i - 1 <=> j <= i) /\ (j - 1) + 1 = j
    BY <1>1
  <2> QED
    BY <2>1, <2>2, <2>3
<1> QED
  BY <1>1, <1>5, <1>6, <1>7, <1>8

\* Moving an entry to the front of the list neither loses nor doubles one.
LEMMA MoveKeepsKeys ==
  ASSUME NEW S, NEW list \in Seq(S), NEW i \in 1..Len(list), IsInjective(list)
  PROVE  ToSet(MoveToFront(list, i)) = ToSet(list) /\ IsInjective(MoveToFront(list, i))
<1> DEFINE m == MoveToFront(list, i)
           From(j) == IF j = 1 THEN i ELSE IF j <= i THEN j - 1 ELSE j
<1>1. /\ m \in Seq(S) /\ Len(m) = Len(list) /\ m[1] = list[i]
      /\ \A j \in 2..Len(list) : m[j] = IF j <= i THEN list[j - 1] ELSE list[j]
  BY MovedToFront
<1> HIDE DEF m
<1>2. DOMAIN m = 1..Len(list) /\ DOMAIN list = 1..Len(list) /\ Len(list) \in Nat
  BY <1>1, LenProperties
<1>3. \A j \in 1..Len(list) : From(j) \in 1..Len(list) /\ m[j] = list[From(j)]
  BY <1>1, <1>2
<1>4. \A j \in 1..Len(list) : \E k \in 1..Len(list) : From(k) = j
  <2>1. SUFFICES ASSUME NEW j \in 1..Len(list) PROVE \E k \in 1..Len(list) : From(k) = j
    OBVIOUS
  <2>2. CASE j = i
    <3>1. 1 \in 1..Len(list) /\ From(1) = j
      BY <1>2, <2>2
    <3> QED
      BY <3>1
  <2>3. CASE j < i
    <3>1. j + 1 \in 1..Len(list) /\ From(j + 1) = j
      BY <1>2, <2>3
    <3> QED
      BY <3>1
  <2>4. CASE j > i
    <3>1. From(j) = j
      BY <1>2, <2>4
    <3> QED
      BY <3>1
  <2> QED
    BY <1>2, <2>2, <2>3, <2>4
<1>5. \A j, k \in 1..Len(list) : From(j) = From(k) => j = k
  BY <1>2
<1> HIDE DEF From
<1>6. ToSet(m) = ToSet(list)
  <2>1. ASSUME NEW j \in 1..Len(list) PROVE m[j] \in ToSet(list)
    BY <1>2, <1>3 DEF ToSet
  <2>2. ASSUME NEW j \in 1..Len(list) PROVE list[j] \in ToSet(m)
    <3>1. PICK k \in 1..Len(list) : From(k) = j
      BY <1>4
    <3>2. m[k] = list[j]
      BY <1>3, <3>1
    <3> QED
      BY <1>2, <3>2 DEF ToSet
  <2>3. ToSet(m) \subseteq ToSet(list)
    BY <1>2, <2>1 DEF ToSet
  <2>4. ToSet(list) \subseteq ToSet(m)
    BY <1>2, <2>2 DEF ToSet
  <2> QED
    BY <2>3, <2>4
<1>7. IsInjective(m)
  BY <1>2, <1>3, <1>5 DEF IsInjective
<1> QED
  BY <1>6, <1>7 DEF m

\* What is kept when a new key is put in front.
LEMMA EvictKeeps ==
  ASSUME NEW S, NEW list \in Seq(S), NEW k \in S, MaxEntries \in Nat \ {0},
         Len(list) <= MaxEntries, IsInjective(list), k \notin ToSet(list)
  PROVE  /\ Evict(<<k>> \o list) \in Seq(S)
         /\ Len(Evict(<<k>> \o list)) <= MaxEntries
         /\ IsInjective(Evict(<<k>> \o list))
         /\ k \in ToSet(Evict(<<k>> \o list))
         /\ ToSet(Evict(<<k>> \o list)) \subseteq {k} \cup ToSet(list)
<1> DEFINE h == <<k>>
           e == h \o list
           v == Evict(e)
<1>1. h \in Seq(S) /\ Len(h) = 1 /\ h[1] = k
  BY DEF h
<1>2. Len(list) \in Nat /\ DOMAIN list = 1..Len(list)
  BY LenProperties
<1> HIDE DEF h
<1>3. /\ e \in Seq(S) /\ Len(e) = 1 + Len(list)
      /\ \A j \in 1..1 + Len(list) : e[j] = IF j <= 1 THEN h[j] ELSE list[j - 1]
  <2>1. /\ e \in Seq(S) /\ Len(e) = Len(h) + Len(list)
        /\ \A j \in 1..Len(h) + Len(list) : e[j] = IF j <= Len(h) THEN h[j] ELSE list[j - Len(h)]
    BY <1>1, ConcatProperties
  <2> HIDE DEF e
  <2> QED
    BY <1>1, <1>2, <2>1
<1> HIDE DEF e
<1>4. e[1] = k /\ \A j \in 2..1 + Len(list) : e[j] = list[j - 1] /\ j - 1 \in 1..Len(list)
  BY <1>1, <1>2, <1>3
<1>5. /\ v \in Seq(S) /\ 1 <= Len(v) /\ Len(v) <= MaxEntries /\ Len(v) <= 1 + Len(list)
      /\ \A j \in 1..Len(v) : v[j] = e[j]
  <2>1. CASE Len(e) > MaxEntries
    <3>1. v = SubSeq(e, 1, Len(e) - 1)
      BY <2>1 DEF Evict, Front
    <3>2. \A j \in 1..Len(e) - 1 : e[j] \in S
      BY <1>2, <1>3, LenProperties
    <3>3. /\ SubSeq(e, 1, Len(e) - 1) \in Seq(S)
          /\ Len(SubSeq(e, 1, Len(e) - 1)) = IF 1 <= Len(e) - 1 THEN (Len(e) - 1) - 1 + 1 ELSE 0
          /\ \A j \in 1..(Len(e) - 1) - 1 + 1 : SubSeq(e, 1, Len(e) - 1)[j] = e[1 + j - 1]
      BY <1>2, <1>3, <3>2, SubSeqProperties
    <3> HIDE DEF v
    <3> QED
      BY <1>2, <1>3, <2>1, <3>1, <3>3
  <2>2. CASE ~(Len(e) > MaxEntries)
    <3>1. v = e
      BY <2>2 DEF Evict
    <3> HIDE DEF v
    <3> QED
      BY <1>2, <1>3, <2>2, <3>1
  <2> QED
    BY <2>1, <2>2
<1> HIDE DEF v
<1>6. DOMAIN v = 1..Len(v) /\ Len(v) \in Nat
  BY <1>5, LenProperties
<1>7. k \in ToSet(v)
  BY <1>4, <1>5, <1>6 DEF ToSet
<1>8. ToSet(v) \subseteq {k} \cup ToSet(list)
  <2>1. SUFFICES ASSUME NEW j \in 1..Len(v) PROVE v[j] = k \/ v[j] \in ToSet(list)
    BY <1>6 DEF ToSet
  <2>2. CASE j = 1
    BY <1>4, <1>5, <2>2
  <2>3. CASE j # 1
    <3>1. v[j] = list[j - 1] /\ j - 1 \in DOMAIN list
      BY <1>2, <1>4, <1>5, <1>6, <2>3
    <3> QED
      BY <3>1 DEF ToSet
  <2> QED
    BY <2>2, <2>3
<1>9. IsInjective(v)
  <2>1. SUFFICES ASSUME NEW i \in 1..Len(v), NEW j \in 1..Len(v), v[i] = v[j], i < j PROVE FALSE
    BY <1>6 DEF IsInjective
  <2>2. v[j] = list[j - 1] /\ j - 1 \in DOMAIN list /\ j > 1
    BY <1>2, <1>4, <1>5, <1>6, <2>1
  <2>3. CASE i = 1
    BY <1>4, <1>5, <2>1, <2>2, <2>3 DEF ToSet
  <2>4. CASE i # 1
    <3>1. v[i] = list[i - 1] /\ i - 1 \in DOMAIN list /\ i - 1 # j - 1
      BY <1>2, <1>4, <1>5, <1>6, <2>1, <2>4
    <3> QED
      BY <2>1, <2>2, <3>1 DEF IsInjective
  <2> QED
    BY <2>3, <2>4
<1> QED
  BY <1>5, <1>7, <1>8, <1>9 DEF v, e, h
-----------------------------------------------------------------------------
(* Steps.                                                                  *)

\* Before the first request the cache is empty and no query runs.
LEMMA QueryInit == Init => QueryInv
<1> SUFFICES ASSUME Init PROVE QueryInv
  OBVIOUS
<1>1. Typed
  <2>1. <<>> \in Seq(Keys)
    OBVIOUS
  <2> QED
    BY <2>1, QueryBounds DEF Init, Typed, Fresh, Nothing, FlightRecords, ReqRecords, Places
<1>2. DatasetInv
  BY DEF Init, DatasetInv
<1>3. CacheInv
  <2>1. DOMAIN <<>> = {} /\ Len(<<>>) = 0
    OBVIOUS
  <2> QED
    BY <2>1, QueryBounds DEF Init, CacheInv, ToSet, IsInjective
<1>4. FlightsInv
  BY DEF Init, FlightsInv
<1>5. \A r \in Requests : RequestInv(r)
  BY DEF Init, RequestInv, Holds, Fills, Fresh, Nothing
<1> QED
  BY <1>1, <1>2, <1>3, <1>4, <1>5 DEF QueryInv

\* A step of one request leaves the records and flights of the others alone.
Apart(r) ==
    /\ \A x \in Requests \ {r} : req'[x] = req[x] /\ flight'[x] = flight[x]
                                 /\ (x \in readers' <=> x \in readers)
    /\ UNCHANGED <<loaded, refresher, gen>>

\* A step of a request that fills nothing, before or after.
LEMMA PlainStep ==
  ASSUME QueryInv, NEW r \in Requests, Apart(r),
         req' \in [Requests -> ReqRecords], readers' \subseteq Requests,
         flight' \in [Requests -> FlightRecords], flight'[r].of = flight[r].of,
         ll' \in Seq(Keys), CacheInv', DOMAIN items' = DOMAIN items, flights' = flights,
         ~Fills(r), req'[r].pc \notin {"fill", "store"},
         RequestInv(r)'
  PROVE  QueryInv'
<1>1. Typed'
  BY DEF QueryInv, Typed, Apart, loaded, refresher
<1>2. DatasetInv'
  BY DEF QueryInv, DatasetInv, Apart, loaded, refresher
<1>3. FlightsInv'
  <2>1. SUFFICES ASSUME NEW k \in Keys, flights[k] # None
                 PROVE  /\ flights[k] \in Requests /\ Fills(flights[k])'
                        /\ req'[flights[k]].key = k
    BY DEF FlightsInv, Fills
  <2>2. flights[k] \in Requests /\ Fills(flights[k]) /\ req[flights[k]].key = k
    BY <2>1 DEF QueryInv, FlightsInv
  <2>3. flights[k] # r
    BY <2>2
  <2> QED
    BY <2>2, <2>3 DEF Apart, Fills
<1>4. ASSUME NEW x \in Requests PROVE RequestInv(x)'
  <2>1. \A y \in Requests : flight'[y].of = flight[y].of
    BY DEF Apart
  <2>2. CASE x # r
    BY <2>1, <2>2 DEF QueryInv, RequestInv, Holds, Fills, Apart, loaded, refresher
  <2> QED
    BY <2>2
<1> QED
  BY <1>1, <1>2, <1>3, <1>4 DEF QueryInv

\* The steps up to the hit cache, past it, and out.
LEMMA OutsideStep ==
  ASSUME QueryInv, NEW r \in Requests,
         \/ Arrive(r) \/ RLock(r) \/ SearchDirectly(r) \/ EndSearch(r)
         \/ Join(r) \/ Wake(r) \/ Answer(r)
  PROVE  QueryInv'
<1>1. /\ req \in [Requests -> ReqRecords] /\ req[r] \in ReqRecords
      /\ flight \in [Requests -> FlightRecords] /\ flights \in [Keys -> Requests \cup {None}]
      /\ dataset \in Nat /\ index \in Nat /\ readers \subseteq Requests /\ ll \in Seq(Keys)
      /\ RequestInv(r)
  BY DEF QueryInv, Typed
<1>2. UNCHANGED <<loaded, refresher, hits>>
  BY DEF Arrive, RLock, SearchDirectly, EndSearch, Join, Wake, Answer
<1>3. /\ ll' = ll /\ items' = items /\ flights' = flights /\ flight' = flight /\ CacheInv'
  BY <1>2 DEF hits, loaded, QueryInv, CacheInv
<1>4. req' \in [Requests -> ReqRecords] /\ \A x \in Requests \ {r} : req'[x] = req[x]
  <2>1. CASE Arrive(r)
    BY <1>1, <2>1 DEF Arrive, ReqRecords, Places
  <2>2. CASE RLock(r)
    <3>1. CASE dataset = 0
      <4>1. req' = [req EXCEPT ![r].pc = "end"]
        BY <2>2, <3>1 DEF RLock
      <4> QED
        BY <1>1, <4>1 DEF ReqRecords, Places
    <3>2. CASE dataset # 0
      <4>1. PICK k \in Keys \cup {None} : req' = [req EXCEPT ![r].pc = "look", ![r].key = k]
        BY <2>2, <3>2 DEF RLock
      <4> QED
        BY <1>1, <4>1 DEF ReqRecords, Places
    <3> QED
      BY <3>1, <3>2
  <2>3. CASE SearchDirectly(r)
    BY <1>1, <2>3 DEF SearchDirectly, ReqRecords, Places
  <2>4. CASE EndSearch(r)
    BY <1>1, <2>4 DEF EndSearch, ReqRecords, Places, Nothing
  <2>5. CASE Join(r)
    <3>1. flights[req[r].key] \in Requests \cup {None}
      BY <1>1, <2>5 DEF Join, Cacheable, ReqRecords
    <3> QED
      BY <1>1, <2>5, <3>1 DEF Join, ReqRecords, Places
  <2>6. CASE Wake(r)
    <3>1. flight[req[r].waits].of \in Nat
      BY <1>1, <2>6 DEF Wake, At, RequestInv, Nothing
    <3> QED
      BY <1>1, <2>6, <3>1 DEF Wake, ReqRecords, Places
  <2>7. CASE Answer(r)
    BY <1>1, <2>7 DEF Answer, Fresh, ReqRecords, Places, Nothing
  <2> QED
    BY <2>1, <2>2, <2>3, <2>4, <2>5, <2>6, <2>7
<1>5. Apart(r)
  BY <1>1, <1>2, <1>3, <1>4 DEF Apart, hits, Arrive, RLock, SearchDirectly, EndSearch, Join, Wake,
     Answer
<1>6. readers' \subseteq Requests
  BY <1>1 DEF Arrive, RLock, SearchDirectly, EndSearch, Join, Wake, Answer
<1>7. ~Fills(r) /\ req'[r].pc \notin {"fill", "store"}
  <2>1. ~Fills(r)
    BY DEF Fills, At, Arrive, RLock, SearchDirectly, EndSearch, Join, Wake, Answer
  <2>3. CASE RLock(r)
    <3>1. CASE dataset = 0
      BY <1>1, <2>1, <2>3, <3>1 DEF RLock, ReqRecords
    <3>2. CASE dataset # 0
      <4>1. PICK k \in Keys \cup {None} : req' = [req EXCEPT ![r].pc = "look", ![r].key = k]
        BY <2>3, <3>2 DEF RLock
      <4> QED
        BY <1>1, <2>1, <4>1 DEF ReqRecords
    <3> QED
      BY <3>1, <3>2
  <2>4. CASE EndSearch(r)
    BY <1>1, <2>1, <2>4 DEF EndSearch, ReqRecords
  <2>5. CASE Wake(r)
    BY <1>1, <2>1, <2>5 DEF Wake, ReqRecords
  <2>6. CASE Answer(r)
    BY <1>1, <2>1, <2>6 DEF Answer, Fresh
  <2>7. CASE Arrive(r) \/ SearchDirectly(r) \/ Join(r)
    BY <1>1, <2>1, <2>7 DEF Arrive, SearchDirectly, Join, ReqRecords
  <2> QED
    BY <2>1, <2>3, <2>4, <2>5, <2>6, <2>7
<1>8. RequestInv(r)'
  <2>0. dataset' = dataset /\ index' = index /\ readers \subseteq Requests
    BY <1>1, <1>2 DEF loaded
  <2>1. CASE Arrive(r)
    <3>1. /\ req[r].pc = "new" /\ req'[r] = [req[r] EXCEPT !.pc = "lock"] /\ readers' = readers
      BY <1>1, <2>1 DEF Arrive, At
    <3>2. req'[r].pc = "lock" /\ req'[r].reading = req[r].reading
      BY <1>1, <3>1 DEF ReqRecords
    <3> QED
      BY <1>1, <1>3, <2>0, <3>1, <3>2 DEF RequestInv, Holds, Fills
  <2>2. CASE RLock(r)
    <3>1. CASE dataset = 0
      <4>1. /\ req[r].pc = "lock" /\ req'[r] = [req[r] EXCEPT !.pc = "end"] /\ readers' = readers
        BY <1>1, <2>2, <3>1 DEF RLock, At
      <4>2. req'[r].pc = "end" /\ req'[r].reading = req[r].reading
        BY <1>1, <4>1 DEF ReqRecords
      <4> QED
        BY <1>1, <1>3, <2>0, <4>1, <4>2 DEF RequestInv, Holds, Fills
    <3>2. CASE dataset # 0
      <4>1. /\ req[r].pc = "lock" /\ readers' = readers \cup {r}
            /\ \E k \in Keys \cup {None} : req' = [req EXCEPT ![r].pc = "look", ![r].key = k]
        BY <2>2, <3>2 DEF RLock, At
      <4>2. req'[r].pc = "look" /\ req'[r].reading = req[r].reading
        BY <1>1, <4>1 DEF ReqRecords
      <4> QED
        BY <1>1, <1>3, <2>0, <3>2, <4>1, <4>2 DEF RequestInv, Holds, Fills
    <3> QED
      BY <3>1, <3>2
  <2>3. CASE SearchDirectly(r)
    <3>1. /\ req[r].pc = "look" /\ readers' = readers
          /\ req'[r] = [req[r] EXCEPT !.pc = "search", !.reading = index]
      BY <1>1, <2>3 DEF SearchDirectly, At
    <3>2. req'[r].pc = "search" /\ req'[r].reading = index
      BY <1>1, <3>1 DEF ReqRecords
    <3> QED
      BY <1>1, <1>3, <2>0, <3>1, <3>2 DEF RequestInv, Holds, Fills
  <2>4. CASE EndSearch(r)
    <3>1. PICK e \in {dataset, Nothing} :
             req' = [req EXCEPT ![r].pc = "answer", ![r].reading = 0, ![r].entry = e]
      BY <2>4 DEF EndSearch
    <3>2. req[r].pc = "search" /\ readers' = readers
      BY <2>4 DEF EndSearch, At
    <3>3. req'[r].pc = "answer" /\ req'[r].reading = 0 /\ req'[r].entry = e
      BY <1>1, <3>1 DEF ReqRecords
    <3> QED
      BY <1>1, <1>3, <2>0, <3>1, <3>2, <3>3 DEF RequestInv, Holds, Fills
  <2>5. CASE Join(r)
    <3>1. /\ req[r].pc = "look" /\ req[r].key \in Keys /\ flights[req[r].key] # None
          /\ readers' = readers
          /\ req'[r] = [req[r] EXCEPT !.pc = "wait", !.waits = flights[req[r].key]]
      BY <1>1, <2>5 DEF Join, At, Cacheable, ReqRecords
    <3>2. req'[r].pc = "wait" /\ req'[r].waits = flights[req[r].key] /\ req'[r].reading = req[r].reading
      BY <1>1, <3>1 DEF ReqRecords
    <3>3. flights[req[r].key] \in Requests /\ Fills(flights[req[r].key])
      BY <3>1 DEF QueryInv, FlightsInv
    <3>4. flight[flights[req[r].key]].of \in {dataset, Nothing}
      BY <3>3 DEF QueryInv, RequestInv, Fills, Holds
    <3> QED
      BY <1>1, <1>3, <2>0, <3>1, <3>2, <3>3, <3>4 DEF RequestInv, Holds, Fills
  <2>6. CASE Wake(r)
    <3>1. /\ req[r].pc = "wait" /\ readers' = readers
          /\ req'[r] = [req[r] EXCEPT !.pc = "answer", !.waits = None,
                                      !.entry = flight[req[r].waits].of]
      BY <1>1, <2>6 DEF Wake, At
    <3>2. /\ req'[r].pc = "answer" /\ req'[r].entry = flight[req[r].waits].of
          /\ req'[r].reading = req[r].reading
      BY <1>1, <3>1 DEF ReqRecords
    <3> QED
      BY <1>1, <1>3, <2>0, <3>1, <3>2 DEF RequestInv, Holds, Fills
  <2>7. CASE Answer(r)
    <3>1. req[r].pc = "answer" /\ readers' = readers \ {r} /\ req'[r] = [Fresh EXCEPT !.pc = "end"]
      BY <1>1, <2>7 DEF Answer, At
    <3>2. req'[r].pc = "end" /\ req'[r].reading = 0
      BY <3>1 DEF Fresh
    <3> QED
      BY <1>1, <1>3, <2>0, <3>1, <3>2 DEF RequestInv, Holds, Fills
  <2> QED
    BY <2>1, <2>2, <2>3, <2>4, <2>5, <2>6, <2>7
<1> QED
  BY <1>1, <1>3, <1>4, <1>5, <1>6, <1>7, <1>8, PlainStep

\* The invariant outlives an answer from the cache.
LEMMA HitStep ==
  ASSUME QueryInv, NEW r \in Requests, Hit(r)
  PROVE  QueryInv'
<1>1. /\ req \in [Requests -> ReqRecords] /\ req[r] \in ReqRecords /\ ll \in Seq(Keys)
      /\ flight \in [Requests -> FlightRecords] /\ readers \subseteq Requests
      /\ dataset \in Nat /\ RequestInv(r) /\ CacheInv
  BY DEF QueryInv, Typed
<1>2. /\ req[r].pc = "look" /\ req[r].key \in DOMAIN items
      /\ req' = [req EXCEPT ![r].pc = "answer", ![r].entry = items[req[r].key]]
      /\ UNCHANGED <<loaded, refresher, readers, gen, items, flights, flight>>
  BY DEF Hit, At, Cached
<1>3. PICK i \in DOMAIN ll : ll' = MoveToFront(ll, i)
  BY DEF Hit
<1>4. i \in 1..Len(ll)
  BY <1>1, <1>3, LenProperties
<1>5. /\ ll' \in Seq(Keys) /\ Len(ll') = Len(ll)
      /\ ToSet(ll') = ToSet(ll) /\ IsInjective(ll')
  BY <1>1, <1>3, <1>4, MovedToFront, MoveKeepsKeys DEF CacheInv
<1>6. dataset' = dataset /\ items' = items
  BY <1>2 DEF loaded
<1>7. CacheInv'
  BY <1>1, <1>5, <1>6 DEF CacheInv
<1>8. items[req[r].key] = dataset
  BY <1>1, <1>2 DEF CacheInv
<1>9. /\ req' \in [Requests -> ReqRecords] /\ \A x \in Requests \ {r} : req'[x] = req[x]
      /\ req'[r].pc = "answer" /\ req'[r].entry = dataset /\ req'[r].reading = req[r].reading
  BY <1>1, <1>2, <1>8 DEF ReqRecords, Places
<1>10. Apart(r)
  BY <1>2, <1>9 DEF Apart
<1>11. RequestInv(r)'
  BY <1>1, <1>2, <1>6, <1>9 DEF RequestInv, Holds, Fills, loaded
<1>12. ~Fills(r)
  BY <1>2 DEF Fills
<1> QED
  BY <1>1, <1>2, <1>5, <1>6, <1>7, <1>9, <1>10, <1>11, <1>12, PlainStep

\* Both leave done and gen, of which nothing depends here.
LEMMA SignalStep ==
  ASSUME QueryInv, NEW r \in Requests, Signal(r)
  PROVE  QueryInv'
<1>1. /\ req \in [Requests -> ReqRecords] /\ req[r] \in ReqRecords /\ ll \in Seq(Keys)
      /\ flight \in [Requests -> FlightRecords] /\ flight[r] \in FlightRecords
      /\ readers \subseteq Requests /\ RequestInv(r) /\ CacheInv
  BY DEF QueryInv, Typed
<1>2. /\ req[r].pc = "signal"
      /\ flight' = [flight EXCEPT ![r].done = TRUE]
      /\ req' = [req EXCEPT ![r].pc = "answer", ![r].entry = flight[r].of]
      /\ UNCHANGED <<loaded, refresher, readers, gen, ll, items, flights>>
  BY DEF Signal, At
<1>3. /\ flight' \in [Requests -> FlightRecords] /\ flight'[r].of = flight[r].of
      /\ \A x \in Requests \ {r} : flight'[x] = flight[x]
  <2>1. /\ flight'[r] = [flight[r] EXCEPT !.done = TRUE]
        /\ \A x \in Requests \ {r} : flight'[x] = flight[x]
    BY <1>1, <1>2
  <2>2. flight'[r] = [of |-> flight[r].of, gen |-> flight[r].gen, done |-> TRUE,
                      how |-> flight[r].how]
    BY <1>1, <2>1 DEF FlightRecords
  <2>3. flight'[r] \in FlightRecords
    BY <1>1, <2>2 DEF FlightRecords
  <2> QED
    BY <1>1, <1>2, <2>1, <2>2, <2>3
<1>4. /\ req' \in [Requests -> ReqRecords] /\ \A x \in Requests \ {r} : req'[x] = req[x]
      /\ req'[r].pc = "answer" /\ req'[r].entry = flight[r].of
      /\ req'[r].reading = req[r].reading
  <2>1. flight[r].of \in Nat
    BY <1>1 DEF FlightRecords
  <2> QED
    BY <1>1, <1>2, <2>1 DEF ReqRecords, Places
<1>5. CacheInv' /\ dataset' = dataset
  BY <1>1, <1>2 DEF CacheInv, loaded
<1>6. Apart(r)
  BY <1>2, <1>3, <1>4 DEF Apart
<1>7. RequestInv(r)'
  BY <1>1, <1>2, <1>3, <1>4, <1>5 DEF RequestInv, Holds, Fills, loaded
<1>8. ~Fills(r)
  BY <1>2 DEF Fills
<1> QED
  BY <1>1, <1>2, <1>3, <1>4, <1>5, <1>6, <1>7, <1>8, PlainStep

\* The invariant outlives a request that becomes the leader of its key.
LEMMA LeadStep ==
  ASSUME QueryInv, NEW r \in Requests, Lead(r)
  PROVE  QueryInv'
<1>1. /\ req \in [Requests -> ReqRecords] /\ req[r] \in ReqRecords
      /\ flight \in [Requests -> FlightRecords] /\ flight[r] \in FlightRecords
      /\ flights \in [Keys -> Requests \cup {None}]
      /\ index \in Nat /\ gen \in Nat /\ RequestInv(r)
  BY DEF QueryInv, Typed
<1> DEFINE key == req[r].key
<1>2. /\ req[r].pc = "look" /\ key \in Keys /\ key \notin DOMAIN items /\ flights[key] = None
      /\ flights' = [flights EXCEPT ![key] = r]
      /\ flight' = [flight EXCEPT ![r].gen = gen]
      /\ req' = [req EXCEPT ![r].pc = "fill", ![r].reading = index]
      /\ UNCHANGED <<loaded, refresher, readers, gen, ll, items>>
  BY <1>1 DEF Lead, At, Cached, Cacheable, ReqRecords
<1>3. /\ dataset' = dataset /\ index' = index /\ open' = open
      /\ refresh' = refresh /\ reuse' = reuse /\ oldIndex' = oldIndex
  BY <1>2 DEF loaded, refresher
<1>4. /\ req' \in [Requests -> ReqRecords] /\ \A x \in Requests \ {r} : req'[x] = req[x]
      /\ req'[r].pc = "fill" /\ req'[r].reading = index /\ req'[r].key = key
  BY <1>1, <1>2 DEF ReqRecords, Places
<1>5. /\ flight' \in [Requests -> FlightRecords]
      /\ \A x \in Requests : flight'[x].of = flight[x].of /\ flight'[x].how = flight[x].how
  <2>1. /\ flight'[r] = [flight[r] EXCEPT !.gen = gen]
        /\ \A x \in Requests \ {r} : flight'[x] = flight[x]
    BY <1>1, <1>2
  <2>2. flight'[r] = [of |-> flight[r].of, gen |-> gen, done |-> flight[r].done,
                      how |-> flight[r].how]
    BY <1>1, <2>1 DEF FlightRecords
  <2>3. flight'[r] \in FlightRecords
    <3>1. flight[r].done \in BOOLEAN
      BY <1>1 DEF FlightRecords
    <3> QED
      BY <1>1, <2>2, <3>1 DEF FlightRecords
  <2>4. flight'[r].of = flight[r].of /\ flight'[r].how = flight[r].how
    BY <2>2
  <2>5. flight' \in [Requests -> FlightRecords]
    BY <1>1, <1>2, <2>1, <2>3
  <2> QED
    BY <2>1, <2>4, <2>5
<1> HIDE DEF key
<1>6. flights' \in [Keys -> Requests \cup {None}] /\ flights'[key] = r
      /\ \A k \in Keys \ {key} : flights'[k] = flights[k]
  BY <1>1, <1>2
<1>7. Typed'
  BY <1>2, <1>3, <1>4, <1>5, <1>6 DEF QueryInv, Typed
<1>8. DatasetInv' /\ CacheInv'
  BY <1>2, <1>3 DEF QueryInv, DatasetInv, CacheInv
<1>9. FlightsInv'
  <2>1. SUFFICES ASSUME NEW k \in Keys, flights'[k] # None
                 PROVE  /\ flights'[k] \in Requests /\ req'[flights'[k]].pc \in {"fill", "store"}
                        /\ req'[flights'[k]].key = k
    BY DEF FlightsInv, Fills
  <2>2. CASE k = key
    BY <1>4, <1>6, <2>2 DEF Fills
  <2>3. CASE k # key
    <3>1. flights'[k] = flights[k] /\ flights[k] \in Requests /\ Fills(flights[k])
          /\ req[flights[k]].key = k
      BY <1>6, <2>1, <2>3 DEF QueryInv, FlightsInv
    <3>2. flights[k] # r
      BY <1>2, <3>1 DEF Fills
    <3> QED
      BY <1>4, <3>1, <3>2 DEF Fills
  <2> QED
    BY <2>2, <2>3
<1>10. ASSUME NEW x \in Requests PROVE RequestInv(x)'
  <2>1. CASE x = r
    BY <1>1, <1>2, <1>3, <1>4, <1>5, <1>6, <2>1 DEF RequestInv, Holds, Fills
  <2>2. CASE x # r
    <3>1. RequestInv(x) /\ req'[x] = req[x]
      BY <1>4, <2>2 DEF QueryInv
    <3>2. Fills(x) => req[x].key \in Keys /\ req[x].key # key
      BY <1>2, <3>1, QueryBounds DEF RequestInv
    <3>3. Fills(x) => flights'[req[x].key] = flights[req[x].key]
      BY ONLY <1>6, <3>2
    <3>4. UNCHANGED <<readers, items>> /\ x \in Requests
      BY <1>2
    <3> QED
      BY ONLY <1>3, <1>5, <3>1, <3>3, <3>4, SMTT(30) DEF RequestInv, Holds, Fills
  <2> QED
    BY <2>1, <2>2
<1> QED
  BY <1>7, <1>8, <1>9, <1>10 DEF QueryInv

\* The invariant outlives the leader's query, answered, failed or panicking.
LEMMA FillStep ==
  ASSUME QueryInv, NEW r \in Requests, Fill(r)
  PROVE  QueryInv'
<1>1. /\ req \in [Requests -> ReqRecords] /\ req[r] \in ReqRecords
      /\ flight \in [Requests -> FlightRecords] /\ flight[r] \in FlightRecords
      /\ dataset \in Nat /\ RequestInv(r)
  BY DEF QueryInv, Typed
<1>2. PICK how \in {"ok", "error", "panic"} :
         flight' = [flight EXCEPT ![r].how = how,
                                  ![r].of = IF how = "ok" THEN dataset ELSE Nothing]
  BY DEF Fill
<1>3. /\ req[r].pc = "fill"
      /\ req' = [req EXCEPT ![r].pc = "store", ![r].reading = 0]
      /\ UNCHANGED <<loaded, refresher, readers, gen, ll, items, flights>>
  BY DEF Fill, At
<1>4. /\ dataset' = dataset /\ index' = index /\ open' = open
      /\ refresh' = refresh /\ reuse' = reuse /\ oldIndex' = oldIndex
  BY <1>3 DEF loaded, refresher
<1>5. /\ req' \in [Requests -> ReqRecords] /\ \A x \in Requests \ {r} : req'[x] = req[x]
      /\ req'[r].pc = "store" /\ req'[r].reading = 0 /\ req'[r].key = req[r].key
  BY <1>1, <1>3 DEF ReqRecords, Places
<1>6. /\ flight' \in [Requests -> FlightRecords] /\ \A x \in Requests \ {r} : flight'[x] = flight[x]
      /\ flight'[r].of \in {dataset, Nothing} /\ (flight'[r].how = "ok" => flight'[r].of = dataset)
  <2> DEFINE of == IF how = "ok" THEN dataset ELSE Nothing
  <2>1. of \in {dataset, Nothing} /\ of \in Nat /\ (how = "ok" => of = dataset)
    BY <1>1 DEF Nothing
  <2>2. flight' = [flight EXCEPT ![r].how = how, ![r].of = of]
    BY <1>2
  <2> HIDE DEF of
  <2>3. /\ flight'[r] = [flight[r] EXCEPT !.how = how, !.of = of]
        /\ \A x \in Requests \ {r} : flight'[x] = flight[x]
    BY <1>1, <2>2
  <2>4. flight'[r] = [of |-> of, gen |-> flight[r].gen, done |-> flight[r].done, how |-> how]
    BY <1>1, <2>3 DEF FlightRecords
  <2>5. flight[r].done \in BOOLEAN
    BY <1>1 DEF FlightRecords
  <2>6. flight'[r] \in FlightRecords
    BY <1>1, <2>1, <2>4, <2>5 DEF FlightRecords
  <2>7. flight' \in [Requests -> FlightRecords]
    BY <1>1, <2>2, <2>3, <2>6
  <2> QED
    BY <2>1, <2>3, <2>4, <2>7
<1>7. Typed'
  BY <1>3, <1>4, <1>5, <1>6 DEF QueryInv, Typed
<1>8. DatasetInv' /\ CacheInv'
  BY <1>3, <1>4 DEF QueryInv, DatasetInv, CacheInv
<1>9. FlightsInv'
  <2>1. SUFFICES ASSUME NEW k \in Keys, flights[k] # None
                 PROVE  /\ flights[k] \in Requests /\ req'[flights[k]].pc \in {"fill", "store"}
                        /\ req'[flights[k]].key = k
    BY <1>3 DEF FlightsInv, Fills
  <2>2. flights[k] \in Requests /\ Fills(flights[k]) /\ req[flights[k]].key = k
    BY <2>1 DEF QueryInv, FlightsInv
  <2> QED
    BY <1>5, <2>2 DEF Fills
<1>10. ASSUME NEW x \in Requests PROVE RequestInv(x)'
  <2>1. \A y \in Requests : flight[y].of \in {dataset, Nothing} => flight'[y].of \in {dataset, Nothing}
    BY <1>6
  <2>2. CASE x = r
    BY <1>1, <1>3, <1>4, <1>5, <1>6, <2>2 DEF RequestInv, Holds, Fills
  <2>3. CASE x # r
    <3>1. RequestInv(x) /\ req'[x] = req[x] /\ flight'[x] = flight[x]
      BY <1>5, <1>6, <2>3 DEF QueryInv
    <3> QED
      BY <1>3, <1>4, <2>1, <3>1 DEF RequestInv, Holds, Fills
  <2> QED
    BY <2>2, <2>3
<1> QED
  BY <1>7, <1>8, <1>9, <1>10 DEF QueryInv

\* The invariant outlives the leader's storing of its answer, eviction included.
LEMMA StoreStep ==
  ASSUME QueryInv, NEW r \in Requests, Store(r)
  PROVE  QueryInv'
<1> DEFINE k == req[r].key
           kept == flight[r].how = "ok" /\ flight[r].gen = gen
           list == Evict(<<k>> \o ll)
<1>1. /\ req \in [Requests -> ReqRecords] /\ req[r] \in ReqRecords
      /\ flight \in [Requests -> FlightRecords] /\ flight[r] \in FlightRecords
      /\ flights \in [Keys -> Requests \cup {None}] /\ ll \in Seq(Keys)
      /\ dataset \in Nat /\ RequestInv(r) /\ CacheInv
  BY DEF QueryInv, Typed
<1>2. /\ req[r].pc = "store" /\ k \in Keys /\ flights[k] = r /\ k \notin DOMAIN items
      /\ flight[r].how = "ok" => flight[r].of = dataset
  BY <1>1 DEF Store, At, RequestInv, Fills
<1>3. /\ flights' = [flights EXCEPT ![k] = None]
      /\ ll' = IF kept THEN list ELSE ll
      /\ items' = IF kept THEN [j \in ToSet(list) |->
                                  IF j = k THEN flight[r].of ELSE items[j]]
                          ELSE items
      /\ flight' = [flight EXCEPT ![r].gen = 0]
      /\ req' = [req EXCEPT ![r].pc = "signal"]
      /\ UNCHANGED <<loaded, refresher, readers, gen>>
  BY <1>2 DEF Store
<1>4. /\ dataset' = dataset /\ index' = index /\ open' = open
      /\ refresh' = refresh /\ reuse' = reuse /\ oldIndex' = oldIndex
  BY <1>3 DEF loaded, refresher
<1>5. /\ list \in Seq(Keys) /\ Len(list) <= MaxEntries /\ IsInjective(list)
      /\ ToSet(list) \subseteq {k} \cup ToSet(ll)
  <2>1. k \notin ToSet(ll) /\ IsInjective(ll) /\ Len(ll) <= MaxEntries
    BY <1>1, <1>2 DEF CacheInv
  <2> HIDE DEF k
  <2> QED
    BY <1>1, <1>2, <2>1, EvictKeeps, QueryBounds
<1> HIDE DEF list, k
<1>6. /\ ll' \in Seq(Keys) /\ DOMAIN items' \subseteq {k} \cup DOMAIN items /\ CacheInv'
  <2>1. CASE kept
    <3>1. /\ ll' = list
          /\ items' = [j \in ToSet(list) |-> IF j = k THEN flight[r].of ELSE items[j]]
      BY <1>3, <2>1
    <3>2. DOMAIN items' = ToSet(list) /\ ToSet(ll) = DOMAIN items
      BY <1>1, <3>1 DEF CacheInv
    <3>3. \A j \in ToSet(list) : items'[j] = dataset
      <4>1. SUFFICES ASSUME NEW j \in ToSet(list) PROVE items'[j] = dataset
        OBVIOUS
      <4>2. CASE j = k
        BY <1>2, <2>1, <3>1, <4>2
      <4>3. CASE j # k
        <5>1. j \in DOMAIN items
          BY <1>5, <3>2, <4>3
        <5> QED
          BY <1>1, <3>1, <4>3, <5>1 DEF CacheInv
      <4> QED
        BY <4>2, <4>3
    <3> QED
      BY <1>4, <1>5, <3>1, <3>2, <3>3 DEF CacheInv
  <2>2. CASE ~kept
    BY <1>1, <1>3, <1>4, <2>2 DEF CacheInv
  <2> QED
    BY <2>1, <2>2
<1>7. /\ req' \in [Requests -> ReqRecords] /\ \A x \in Requests \ {r} : req'[x] = req[x]
      /\ req'[r].pc = "signal" /\ req'[r].reading = req[r].reading
  BY <1>1, <1>3 DEF ReqRecords, Places
<1>8. /\ flight' \in [Requests -> FlightRecords]
      /\ \A x \in Requests : flight'[x].of = flight[x].of /\ flight'[x].how = flight[x].how
  <2>1. /\ flight'[r] = [flight[r] EXCEPT !.gen = 0]
        /\ \A x \in Requests \ {r} : flight'[x] = flight[x]
    BY <1>1, <1>3
  <2>2. flight'[r] = [of |-> flight[r].of, gen |-> 0, done |-> flight[r].done,
                      how |-> flight[r].how]
    BY <1>1, <2>1 DEF FlightRecords
  <2>3. flight[r].done \in BOOLEAN
    BY <1>1 DEF FlightRecords
  <2>4. flight'[r] \in FlightRecords
    BY <1>1, <2>2, <2>3 DEF FlightRecords
  <2>5. flight' \in [Requests -> FlightRecords]
    BY <1>1, <1>3, <2>1, <2>4
  <2>6. flight'[r].of = flight[r].of /\ flight'[r].how = flight[r].how
    BY <2>2
  <2> QED
    BY <2>1, <2>5, <2>6
<1>9. /\ flights' \in [Keys -> Requests \cup {None}] /\ flights'[k] = None
      /\ \A j \in Keys \ {k} : flights'[j] = flights[j]
  BY <1>1, <1>2, <1>3
<1>10. Typed'
  BY <1>3, <1>4, <1>6, <1>7, <1>8, <1>9 DEF QueryInv, Typed
<1>11. DatasetInv'
  BY <1>3, <1>4 DEF QueryInv, DatasetInv
<1>12. FlightsInv'
  <2>1. SUFFICES ASSUME NEW j \in Keys, flights'[j] # None
                 PROVE  /\ flights'[j] \in Requests /\ req'[flights'[j]].pc \in {"fill", "store"}
                        /\ req'[flights'[j]].key = j
    BY DEF FlightsInv, Fills
  <2>2. j # k
    BY <1>9, <2>1
  <2>3. flights'[j] = flights[j] /\ flights[j] \in Requests /\ Fills(flights[j])
        /\ req[flights[j]].key = j
    BY <1>9, <2>1, <2>2 DEF QueryInv, FlightsInv
  <2>4. flights[j] # r
    BY <2>2, <2>3 DEF k
  <2> QED
    BY <1>7, <2>3, <2>4 DEF Fills
<1>13. ASSUME NEW x \in Requests PROVE RequestInv(x)'
  <2>1. CASE x = r
    BY <1>1, <1>2, <1>3, <1>4, <1>7, <1>8, <2>1 DEF RequestInv, Holds, Fills
  <2>2. CASE x # r
    <3>1. RequestInv(x) /\ req'[x] = req[x]
      BY <1>7, <2>2 DEF QueryInv
    <3>2. Fills(x) => req[x].key \in Keys /\ req[x].key # k
      BY <1>2, <2>2, <3>1 DEF RequestInv
    <3>3. Fills(x) => flights'[req[x].key] = x /\ req[x].key \notin DOMAIN items'
      BY <1>6, <1>9, <3>1, <3>2 DEF RequestInv
    <3> QED
      BY <1>3, <1>4, <1>8, <3>1, <3>2, <3>3 DEF RequestInv, Holds, Fills
  <2> QED
    BY <2>1, <2>2
<1> QED
  BY <1>6, <1>10, <1>11, <1>12, <1>13 DEF QueryInv

\* Nobody holds the lock in a swap, so no request depends on the old dataset.
LEMMA SwapStep ==
  ASSUME QueryInv, Swap
  PROVE  QueryInv'
<1>1. /\ dataset \in Nat /\ index \in Nat /\ gen \in Nat /\ DatasetInv
  BY DEF QueryInv, Typed
<1>2. /\ refresh = "lock" /\ readers = {} /\ dataset' = dataset + 1
      /\ index' = IF reuse THEN index ELSE dataset + 1
      /\ oldIndex' = IF reuse THEN 0 ELSE index
      /\ gen' = gen + 1 /\ ll' = <<>> /\ items' = <<>> /\ refresh' = "close"
      /\ UNCHANGED <<open, reuse, readers, flights, flight, req>>
  BY DEF Swap
<1>3. Typed'
  BY <1>1, <1>2 DEF QueryInv, Typed
<1>4. DatasetInv'
  BY <1>1, <1>2 DEF DatasetInv
<1>5. CacheInv'
  <2>1. DOMAIN <<>> = {} /\ Len(<<>>) = 0
    OBVIOUS
  <2> QED
    BY <1>2, <2>1, QueryBounds DEF CacheInv, ToSet, IsInjective
<1>6. FlightsInv'
  BY <1>2 DEF QueryInv, FlightsInv, Fills
<1>7. ASSUME NEW x \in Requests PROVE RequestInv(x)'
  <2>1. RequestInv(x) /\ ~Holds(x) /\ ~Fills(x)
    BY <1>2 DEF QueryInv, RequestInv, Holds, Fills
  <2>2. req[x].pc \notin {"wait", "answer", "store"} /\ req[x].reading = 0
    BY <2>1 DEF RequestInv, Holds
  <2> QED
    BY <1>2, <2>1, <2>2 DEF RequestInv, Holds, Fills
<1> QED
  BY <1>3, <1>4, <1>5, <1>6, <1>7 DEF QueryInv

\* What surrounds the swap touches neither requests nor cache.
LEMMA AroundSwap ==
  ASSUME QueryInv, LoadNext \/ CloseOld
  PROVE  QueryInv'
<1>1. /\ dataset' = dataset /\ index' = index
      /\ UNCHANGED <<readers, gen, ll, items, flights, flight, req>>
  BY DEF LoadNext, CloseOld, hits
<1>2. /\ dataset \in Nat /\ index \in Nat /\ reuse \in BOOLEAN /\ oldIndex \in Nat /\ DatasetInv
  BY DEF QueryInv, Typed
<1>3. Typed' /\ DatasetInv'
  <2>1. CASE LoadNext
    <3>1. /\ reuse' \in BOOLEAN /\ (reuse' => index # 0) /\ oldIndex' = oldIndex
          /\ open' = IF reuse' THEN open ELSE open \cup {dataset + 1}
          /\ refresh' = "lock"
      BY <2>1 DEF LoadNext
    <3> QED
      BY <1>1, <1>2, <3>1 DEF QueryInv, Typed, DatasetInv
  <2>2. CASE CloseOld
    <3>1. /\ refresh = "close" /\ open' = open \ {oldIndex} /\ oldIndex' = 0
          /\ refresh' = "rest" /\ reuse' = reuse
      BY <2>2 DEF CloseOld
    <3> QED
      BY <1>1, <1>2, <3>1 DEF QueryInv, Typed, DatasetInv
  <2> QED
    BY <2>1, <2>2
<1>4. CacheInv' /\ FlightsInv'
  BY <1>1 DEF QueryInv, CacheInv, FlightsInv, Fills
<1>5. ASSUME NEW x \in Requests PROVE RequestInv(x)'
  BY <1>1 DEF QueryInv, RequestInv, Holds, Fills
<1> QED
  BY <1>3, <1>4, <1>5 DEF QueryInv

\* The invariant outlives a step that changes nothing.
LEMMA Stutter ==
  ASSUME QueryInv, UNCHANGED vars
  PROVE  QueryInv'
<1>1. /\ UNCHANGED <<dataset, index, open, refresh, reuse, oldIndex, readers, gen, ll, items>>
      /\ UNCHANGED <<flights, flight, req>>
  BY DEF vars, loaded, refresher, hits
<1>2. Typed' /\ DatasetInv' /\ CacheInv' /\ FlightsInv'
  BY <1>1 DEF QueryInv, Typed, DatasetInv, CacheInv, FlightsInv, Fills
<1>3. ASSUME NEW x \in Requests PROVE RequestInv(x)'
  BY <1>1 DEF QueryInv, RequestInv, Holds, Fills
<1> QED
  BY <1>2, <1>3 DEF QueryInv

(* What holds between any two steps.                                       *)
THEOREM QueriesAreOfLoaded == Spec => []QueryInv
<1>1. Init => QueryInv
  BY QueryInit
<1>2. QueryInv /\ [Next]_vars => QueryInv'
  <2> SUFFICES ASSUME QueryInv, [Next]_vars PROVE QueryInv'
    OBVIOUS
  <2>1. CASE LoadNext
    BY <2>1, AroundSwap
  <2>2. CASE RefreshStep
    BY <2>2, SwapStep, AroundSwap DEF RefreshStep
  <2>3. CASE \E r \in Requests : Arrive(r) \/ Step(r)
    <3>1. PICK r \in Requests : Arrive(r) \/ Step(r)
      BY <2>3
    <3>2. CASE Hit(r)
      BY <3>2, HitStep
    <3>3. CASE Lead(r)
      BY <3>3, LeadStep
    <3>4. CASE Fill(r)
      BY <3>4, FillStep
    <3>5. CASE Store(r)
      BY <3>5, StoreStep
    <3>6. CASE Signal(r)
      BY <3>6, SignalStep
    <3>7. CASE \/ Arrive(r) \/ RLock(r) \/ SearchDirectly(r) \/ EndSearch(r)
               \/ Join(r) \/ Wake(r) \/ Answer(r)
      BY <3>7, OutsideStep
    <3> QED
      BY <3>1, <3>2, <3>3, <3>4, <3>5, <3>6, <3>7 DEF Step
  <2>4. CASE UNCHANGED vars
    BY <2>4, Stutter
  <2> QED
    BY <2>1, <2>2, <2>3, <2>4 DEF Next
<1> QED
  BY <1>1, <1>2, PTL DEF Spec

(* hitCache's list and map stay together, its entries are of the loaded    *)
(* list, and a fill is its flight's own (hitcache.go).                     *)
THEOREM CacheIsConsistent == Spec => []HitCacheInv
<1>1. QueryInv => HitCacheInv
  <2> SUFFICES ASSUME QueryInv PROVE HitCacheInv
    OBVIOUS
  <2>1. ASSUME NEW r \in Requests, At(r, "fill") \/ At(r, "store")
        PROVE  flights[req[r].key] = r
    BY <2>1 DEF QueryInv, RequestInv, Fills, At
  <2> QED
    BY <2>1 DEF QueryInv, CacheInv, HitCacheInv
<1> QED
  BY <1>1, QueriesAreOfLoaded, PTL

(* Whatever fills a page, a search, the cache or another request's fill, it *)
(* is of the list its positions are looked up in (search.go searchIndex).  *)
THEOREM AnswersAreOfServed == Spec => []AnswerOfServed
<1>1. QueryInv => AnswerOfServed
  BY DEF QueryInv, RequestInv, AnswerOfServed, At
<1> QED
  BY <1>1, QueriesAreOfLoaded, PTL

(* A search's index is open until the search is over, although the refresh *)
(* closes the old one outside the lock (cache.go doRefresh).               *)
THEOREM SearchesAnOpenIndex == Spec => []NoSearchOnClosed
<1>1. QueryInv => NoSearchOnClosed
  BY DEF QueryInv, RequestInv, DatasetInv, NoSearchOnClosed
<1> QED
  BY <1>1, QueriesAreOfLoaded, PTL
==============================================================================
