---------------------------- MODULE Search_proofs ----------------------------
(***************************************************************************)
(* What a search finds and what a link asks for, for every dataset, every  *)
(* request and every size of page, cache and sidebar.  The arithmetic of   *)
(* pages; the list the engine returns and the list the index returns, as   *)
(* the arrangements by an order of the assets each of them admits; the     *)
(* rows of the sidebar; and how an address is read and written.  Module    *)
(* Pages_proofs follows a visitor with them.                               *)
(***************************************************************************)
EXTENDS Queries, ListTheorems

-----------------------------------------------------------------------------
(* The arithmetic of pages.                                                *)

\* The sizes are positive, and the tags are finitely many numbers.
LEMMA SizesAre ==
    /\ PageSize \in Nat /\ PageSize > 0 /\ MaxPage \in Nat /\ MaxPage > 0
    /\ HitCacheDepth \in Nat /\ HitCacheDepth > 0 /\ MaxFacetTags \in Nat /\ MaxFacetTags > 0
    /\ MaxInt \in Nat /\ MaxInt > 0 /\ MaxPage * PageSize <= MaxInt
    /\ HitCacheDepth * PageSize <= MaxInt
    /\ MaxTags \in Nat /\ MaxTags > 0 /\ MaxNotTags \in Nat /\ MaxNotTags > 0
    /\ Unranked \in Nat /\ UnknownPrice \in Nat
    /\ IsFiniteSet(Slugs) /\ Slugs \subseteq Nat /\ \A t \in Slugs : t >= 1
<1>1. Slugs = 1..Cardinality(Slugs) /\ IsFiniteSet(Slugs) /\ Cardinality(Slugs) \in Nat
  BY EngineConstants, FS_CardinalityType
<1>2. Slugs \subseteq Nat /\ \A t \in Slugs : t >= 1
  BY <1>1
<1>3. /\ {PageSize, HitCacheDepth, MaxFacetTags, MaxInt, Unranked, UnknownPrice} \subseteq Nat \ {0}
      /\ HitCacheDepth * PageSize <= MaxInt
  BY EngineConstants
<1>4. {MaxTags, MaxNotTags, MaxPage} \subseteq Nat \ {0} /\ MaxPage * PageSize <= MaxInt
  BY FilterConstants
<1> QED
  BY <1>1, <1>2, <1>3, <1>4

\* A number below the modulus is its own remainder, and one below twice the
\* modulus loses it once.
LEMMA Remainder ==
    ASSUME NEW b \in Nat, b > 0, NEW a \in Nat
    PROVE  /\ a < b => a % b = a
           /\ b <= a /\ a < b + b => a % b = a - b
<1>1. ASSUME a < b PROVE a % b = a
  BY <1>1
<1>2. ASSUME b <= a, a < b + b PROVE a % b = a - b
  BY <1>2
<1> QED
  BY <1>1, <1>2

\* What fits the word stays; twice the largest number and one wraps to below 0.
LEMMA WrapIs ==
    ASSUME NEW x \in Nat
    PROVE  /\ x <= MaxInt => Wrap(x) = x
           /\ MaxInt < x /\ x <= 2 * MaxInt + 1 => Wrap(x) < 0 /\ Wrap(x) \in Int
<1> DEFINE b == 2 * MaxInt + 2
           a == x + MaxInt + 1
<1>1. MaxInt \in Nat
  BY SizesAre
<1>2. b \in Nat /\ b > 0 /\ a \in Nat
  BY <1>1
<1>3. /\ a < b => a % b = a
      /\ b <= a /\ a < b + b => a % b = a - b
  <2> HIDE DEF a, b
  <2> QED
    BY <1>2, Remainder
<1>4. Wrap(x) = (a % b) - (MaxInt + 1)
  BY DEF Wrap
<1>5. x <= MaxInt => a < b
  BY <1>1
<1>6. MaxInt < x /\ x <= 2 * MaxInt + 1 => b <= a /\ a < b + b
  BY <1>1
<1>7. ASSUME x <= MaxInt PROVE Wrap(x) = x
  <2>1. Wrap(x) = a - (MaxInt + 1)
    BY <1>3, <1>4, <1>5, <1>7
  <2> QED
    BY <2>1, <1>1
<1>8. ASSUME MaxInt < x, x <= 2 * MaxInt + 1 PROVE Wrap(x) < 0 /\ Wrap(x) \in Int
  <2>1. Wrap(x) = a - b - (MaxInt + 1)
    BY <1>3, <1>4, <1>6, <1>8
  <2> QED
    BY <2>1, <1>1, <1>8
<1> QED
  BY <1>7, <1>8

\* The first asset of a page has the number it should have.
LEMMA StartIs ==
    ASSUME NEW page \in Nat, page >= 1, page <= MaxPage + 1
    PROVE  /\ Start(page) = (page - 1) * PageSize /\ Start(page) \in Nat /\ Start(page) <= MaxInt
           /\ Start(1) = 0
<1> DEFINE m == page - 1
<1>1. m \in Nat /\ m <= MaxPage
  BY SizesAre
<1>2. m * PageSize \in Nat /\ m * PageSize <= MaxPage * PageSize
  <2> HIDE DEF m
  <2> QED
    BY <1>1, SizesAre, Multiples
<1>3. m * PageSize <= MaxInt
  <2> DEFINE x == m * PageSize
             y == MaxPage * PageSize
  <2>1. x \in Nat /\ x <= y /\ y <= MaxInt /\ y \in Nat /\ MaxInt \in Nat
    BY <1>2, SizesAre, Multiples
  <2> HIDE DEF x, y
  <2>2. x <= MaxInt
    BY <2>1
  <2> QED
    BY <2>2 DEF x
<1>4. Wrap(m * PageSize) = m * PageSize
  BY <1>2, <1>3, WrapIs
<1>5. Start(page) = Wrap(m * PageSize)
  BY DEF Start
<1>6. Start(1) = 0
  <2>1. Start(1) = Wrap((1 - 1) * PageSize) /\ (1 - 1) * PageSize = 0
    BY SizesAre DEF Start
  <2> QED
    BY <2>1, SizesAre, WrapIs
<1> QED
  BY <1>2, <1>3, <1>4, <1>5, <1>6

\* Where a stretch of a list ends that should be so long.
End(s, n) == IF n > Len(s) THEN Len(s) ELSE n

\* A slice is the stretch it should be, whether or not its end wraps.
LEMMA SliceIs ==
    ASSUME NEW s, IsList(s), Len(s) <= MaxInt,
           NEW start \in Nat, start <= MaxInt, NEW size \in Nat, start + size <= 2 * MaxInt + 1
    PROVE  /\ Slice(s, start, size) = SubSeq(s, start + 1, End(s, start + size))
           /\ start >= Len(s) => Slice(s, start, size) = <<>>
<1> DEFINE end == Wrap(start + size)
           last == End(s, start + size)
<1>0. Len(s) \in Nat /\ MaxInt \in Nat /\ start + size \in Nat
  BY SizesAre, ListIs
<1>1. CASE start >= Len(s)
  <2>1. Slice(s, start, size) = <<>>
    BY <1>1 DEF Slice
  <2>2. last < start + 1 /\ last \in Int /\ start + 1 \in Int
    BY <1>0, <1>1 DEF End
  <2>3. SubSeq(s, start + 1, last) = <<>>
    <3> HIDE DEF last
    <3> QED
      BY <2>2, SubSeqEmpty
  <2> QED
    BY <2>1, <2>3
<1>2. CASE start < Len(s)
  <2>1. Slice(s, start, size)
          = SubSeq(s, start + 1, IF end < start \/ end > Len(s) THEN Len(s) ELSE end)
    <3>1. ~(start >= Len(s))
      BY <1>0, <1>2
    <3> QED
      BY <3>1, Zenon DEF Slice
  <2>2. (IF end < start \/ end > Len(s) THEN Len(s) ELSE end) = last
    <3>1. CASE start + size <= MaxInt
      <4>1. end = start + size
        BY <1>0, <3>1, WrapIs
      <4> QED
        BY <4>1, <1>0 DEF End
    <3>2. CASE start + size > MaxInt
      <4>1. end < 0 /\ end \in Int
        BY <1>0, <3>2, WrapIs
      <4>2. end < start /\ start + size > Len(s)
        <5> HIDE DEF end
        <5> QED
          BY <4>1, <3>2, <1>0
      <4> QED
        BY <4>2 DEF End
    <3> QED
      BY <3>1, <3>2, <1>0
  <2>3. ~(start >= Len(s))
    BY <1>0, <1>2
  <2> HIDE DEF last
  <2>4. Slice(s, start, size) = SubSeq(s, start + 1, last)
    BY <2>1, <2>2
  <2> QED
    BY <2>3, <2>4 DEF last
<1> QED
  BY <1>0, <1>1, <1>2

-----------------------------------------------------------------------------
(* Datasets, requests, and the orders they are sorted in.                  *)

\* A request as Options and FeedOptions make them.
IsRequest(o) ==
    /\ o = [query |-> o.query, tags |-> o.tags, not |-> o.not, author |-> o.author,
            price |-> o.price, sort |-> o.sort, like |-> o.like, minFirst |-> o.minFirst,
            limit |-> o.limit, facets |-> o.facets, page |-> o.page]
    /\ o.query \in [words : SUBSET STRING, quoted : BOOLEAN] /\ IsFiniteSet(o.query.words)
    /\ o.tags \subseteq Slugs /\ o.not \subseteq Slugs
    /\ o.price \in PriceFilters \cup {None}
    /\ o.minFirst \in Nat /\ o.limit \in Nat /\ o.facets \in {"wanted", "omitted"}
    /\ o.page \in 1..MaxPage + 1

\* What an asset is, field by field.
LEMMA AssetIs ==
    ASSUME NEW a \in Asset
    PROVE  /\ a.id # None /\ a.pop \in Nat /\ a.title \in Nat /\ a.amount \in Nat /\ a.recency \in Nat
           /\ a.first \in Nat /\ a.tags \subseteq Slugs
BY DEF Asset

\* The lists of a dataset.
LEMMA DatasetIs ==
    ASSUME NEW db, IsDataset(db)
    PROVE  /\ db.data \in Seq(Asset) /\ IsList(db.data) /\ Len(db.data) \in Nat /\ Len(db.data) <= MaxInt
           /\ DOMAIN db.data = 1..Len(db.data) /\ \A i \in 1..Len(db.data) : db.data[i] \in Asset
           /\ db.docs \in Seq(Asset) /\ IsList(db.docs) /\ Len(db.docs) \in Nat /\ Len(db.docs) <= MaxInt
           /\ DOMAIN db.docs = 1..Len(db.docs) /\ \A i \in 1..Len(db.docs) : db.docs[i] \in Asset
           /\ Len(db.data) <= MaxPage * PageSize /\ Len(db.docs) <= MaxPage * PageSize
<1> DEFINE x == MaxPage * PageSize
<1>1. x \in Int /\ x <= MaxInt /\ MaxInt \in Int
  BY SizesAre
<1>2. /\ db.data \in Seq(Asset) /\ Len(db.data) <= x
      /\ db.docs \in Seq(Asset) /\ Len(db.docs) <= x
  BY DEF IsDataset, IsAssetList
<1> HIDE DEF x
<1>3. /\ IsList(db.data) /\ Len(db.data) \in Nat /\ DOMAIN db.data = 1..Len(db.data)
      /\ \A i \in 1..Len(db.data) : db.data[i] \in Asset
  BY <1>2, SeqIsList
<1>4. /\ IsList(db.docs) /\ Len(db.docs) \in Nat /\ DOMAIN db.docs = 1..Len(db.docs)
      /\ \A i \in 1..Len(db.docs) : db.docs[i] \in Asset
  BY <1>2, SeqIsList
<1>5. Len(db.data) <= MaxInt /\ Len(db.docs) <= MaxInt
  BY <1>1, <1>2, <1>3, <1>4
<1> QED
  BY <1>2, <1>3, <1>4, <1>5 DEF x

\* A price is a natural number.
LEMMA PriceIs ==
    ASSUME NEW a \in Asset, NEW rates, IsRates(rates)
    PROVE  PriceUSD(a, rates) \in Nat
<1>1. UnknownPrice \in Nat /\ a.amount \in Nat
  BY SizesAre, AssetIs
<1>2. a.cur \in DOMAIN rates => rates[a.cur] \in Nat
  BY DEF IsRates
<1>3. a.cur \in DOMAIN rates => a.amount * rates[a.cur] \in Nat
  BY <1>1, <1>2
<1> QED
  BY <1>1, <1>3 DEF PriceUSD

\* Every key an asset is sorted by is a number.
LEMMA SortKeyIs ==
    ASSUME NEW a \in Asset, NEW usd \in Nat, NEW sort
    PROVE  SortKey(sort, a, usd) \in Int
<1>1. a.title \in Nat /\ a.recency \in Nat /\ a.first \in Nat /\ Unranked \in Nat
  BY SizesAre, AssetIs
<1>2. RecencyRank(a) \in Nat
  BY <1>1 DEF RecencyRank
<1>3. -a.first \in Int
  BY <1>1
<1> QED
  BY <1>1, <1>2, <1>3 DEF SortKey

\* Keys order the numbers up to n, equal ones as they stand.
LEMMA KeyOrderIs ==
    ASSUME NEW n \in Nat, NEW key \in [1..n -> Int]
    PROVE  /\ IsOrder(KeyOrder(key), 1..n)
           /\ \A i, j \in 1..n : <<i, j>> \in KeyOrder(key) <=> (key[i] < key[j] \/ (key[i] = key[j] /\ i <= j))
           /\ IsArrangement(OrderBy(key), 1..n, KeyOrder(key))
<1>1. DOMAIN key = 1..n
  OBVIOUS
<1>2. ASSUME NEW i \in 1..n, NEW j \in 1..n
      PROVE  <<i, j>> \in KeyOrder(key) <=> (key[i] < key[j] \/ (key[i] = key[j] /\ i <= j))
  BY <1>1 DEF KeyOrder
<1>3. \A i \in 1..n : key[i] \in Int /\ i \in Int
  OBVIOUS
<1>4. ASSUME NEW i \in 1..n, NEW j \in 1..n
      PROVE  /\ <<i, j>> \in KeyOrder(key) \/ <<j, i>> \in KeyOrder(key)
             /\ <<i, j>> \in KeyOrder(key) /\ <<j, i>> \in KeyOrder(key) => i = j
  <2> DEFINE x == key[i]
             y == key[j]
  <2>1. x \in Int /\ y \in Int /\ i \in Int /\ j \in Int
    OBVIOUS
  <2>2. <<i, j>> \in KeyOrder(key) <=> (x < y \/ (x = y /\ i <= j))
    BY <1>2
  <2>3. <<j, i>> \in KeyOrder(key) <=> (y < x \/ (y = x /\ j <= i))
    BY <1>2
  <2> HIDE DEF x, y
  <2> QED
    BY <2>1, <2>2, <2>3
<1>5. ASSUME NEW i \in 1..n, NEW j \in 1..n, NEW k \in 1..n,
             <<i, j>> \in KeyOrder(key), <<j, k>> \in KeyOrder(key)
      PROVE  <<i, k>> \in KeyOrder(key)
  <2> DEFINE x == key[i]
             y == key[j]
             z == key[k]
  <2>1. x \in Int /\ y \in Int /\ z \in Int /\ i \in Int /\ j \in Int /\ k \in Int
    OBVIOUS
  <2>2. x < y \/ (x = y /\ i <= j)
    BY <1>2, <1>5
  <2>3. y < z \/ (y = z /\ j <= k)
    BY <1>2, <1>5
  <2>4. <<i, k>> \in KeyOrder(key) <=> (x < z \/ (x = z /\ i <= k))
    BY <1>2
  <2> HIDE DEF x, y, z
  <2> QED
    BY <2>1, <2>2, <2>3, <2>4
<1>6. IsOrder(KeyOrder(key), 1..n)
  BY <1>4, <1>5 DEF IsOrder
<1>7. IsFiniteSet(1..n)
  BY UpToSize
<1>8. IsArrangement(OrderBy(key), 1..n, KeyOrder(key))
  <2> DEFINE D == 1..n
  <2>1. OrderBy(key) = Arranged(D, KeyOrder(key))
    BY <1>1 DEF OrderBy
  <2> HIDE DEF D
  <2>2. IsOrder(KeyOrder(key), D) /\ IsFiniteSet(D)
    BY <1>6, <1>7 DEF D
  <2>3. IsArrangement(OrderBy(key), D, KeyOrder(key))
    BY <2>1, <2>2, ArrangedIs
  <2> QED
    BY <2>3 DEF D
<1> QED
  BY <1>2, <1>6, <1>8

\* The keys of the engine's orderings.
EngineKey(db, sort) ==
    [i \in 1..Len(db.data) |-> SortKey(sort, db.data[i], PriceUSD(db.data[i], db.rates))]

\* An ordering has every position of the list once, by the key of its asset.
LEMMA EngineOrderIs ==
    ASSUME NEW db, IsDataset(db), NEW sort
    PROVE  /\ EngineKey(db, sort) \in [1..Len(db.data) -> Int]
           /\ EngineOrder(db, sort) = OrderBy(EngineKey(db, sort))
           /\ IsOrder(KeyOrder(EngineKey(db, sort)), 1..Len(db.data))
           /\ IsArrangement(EngineOrder(db, sort), 1..Len(db.data), KeyOrder(EngineKey(db, sort)))
<1> DEFINE n == Len(db.data)
<1>1. n \in Nat /\ DOMAIN db.data = 1..n /\ \A i \in 1..n : db.data[i] \in Asset
  BY DatasetIs
<1>2. EngineKey(db, sort) \in [1..n -> Int]
  <2>1. ASSUME NEW i \in 1..n
        PROVE  SortKey(sort, db.data[i], PriceUSD(db.data[i], db.rates)) \in Int
    <3>1. db.data[i] \in Asset /\ IsRates(db.rates)
      BY <1>1 DEF IsDataset
    <3>2. PriceUSD(db.data[i], db.rates) \in Nat
      BY <3>1, PriceIs
    <3> QED
      BY <3>1, <3>2, SortKeyIs
  <2> QED
    BY <2>1 DEF EngineKey
<1>3. EngineOrder(db, sort) = OrderBy(EngineKey(db, sort))
  BY <1>1 DEF EngineOrder, EngineKey
<1> QED
  BY <1>1, <1>2, <1>3, KeyOrderIs

-----------------------------------------------------------------------------
(* What the engine finds.                                                  *)

\* The filter, field by field, and what the shortcut Pure says of the request.
LEMMA EngineFilterIs ==
    ASSUME NEW db, NEW o, NEW f, f = EngineFilter(db, o)
    PROVE  /\ f.none <=> \/ ~(o.tags \subseteq UNION {db.data[i].tags : i \in DOMAIN db.data})
                         \/ o.author # None /\ o.author \notin {db.data[i].author : i \in DOMAIN db.data}
                         \/ o.like # None /\ LikeTags(db, o) = {}
           /\ f.req = o.tags \cap UNION {db.data[i].tags : i \in DOMAIN db.data}
           /\ f.excl = o.not \cap UNION {db.data[i].tags : i \in DOMAIN db.data}
           /\ f.hasAny <=> o.like # None
           /\ f.any = LikeTags(db, o) /\ f.skip = Find1(db.data, o.like)
           /\ f.author = o.author /\ f.price = o.price /\ f.minFirst = o.minFirst
BY DEF EngineFilter

\* Nothing has no id.
LEMMA NoneIsNowhere ==
    ASSUME NEW db, IsDataset(db)
    PROVE  Find1(db.data, None) = {} /\ Find1(db.docs, None) = {}
<1>1. \A i \in DOMAIN db.data : db.data[i].id # None
  BY DatasetIs, AssetIs
<1>2. \A i \in DOMAIN db.docs : db.docs[i].id # None
  BY DatasetIs, AssetIs
<1> QED
  BY <1>1, <1>2 DEF Find1

\* A price band is not the name of another filter.
LEMMA Bands ==
    /\ DOMAIN Ceiling = {"under-5", "under-20"} /\ None \notin DOMAIN Ceiling
    /\ None \notin {"free", "paid"} /\ Ceiling["under-5"] = 5 /\ Ceiling["under-20"] = 20
BY DEF Ceiling, None

\* The assets that match.
EngineWanted(db, o) ==
    {i \in 1..Len(db.data) : ~EngineFilter(db, o).none /\ EngineMatches(db, EngineFilter(db, o), i)}

\* With a pure filter those are the ones first seen late enough.
LEMMA PureMatches ==
    ASSUME NEW db, IsDataset(db), NEW o, Pure(EngineFilter(db, o)),
           NEW i \in 1..Len(db.data)
    PROVE  EngineMatches(db, EngineFilter(db, o), i) <=> (o.minFirst > 0 => db.data[i].first >= o.minFirst)
<1> DEFINE f == EngineFilter(db, o)
<1>1. /\ f.hasAny <=> o.like # None
      /\ f.skip = Find1(db.data, o.like) /\ f.minFirst = o.minFirst
  BY EngineFilterIs
<1> HIDE DEF f
<1>2. f.req = {} /\ f.excl = {} /\ ~f.hasAny /\ f.author = None /\ f.price = None
  BY DEF Pure, f
<1>3. f.skip = {}
  BY <1>1, <1>2, NoneIsNowhere
<1>4. f.price # "free" /\ f.price # "paid" /\ f.price \notin DOMAIN Ceiling
  BY <1>2, Bands
<1> QED
  BY <1>1, <1>2, <1>3, <1>4 DEF EngineMatches, f

\* Whichever shortcut is taken, the hits are the matches in order.
LEMMA EngineHitsAre ==
    ASSUME NEW db, IsDataset(db), NEW o, IsRequest(o)
    PROVE  IsArrangement(EngineHits(db, o, EngineFilter(db, o), EngineOrder(db, ResolvedSort(o))),
                         EngineWanted(db, o), KeyOrder(EngineKey(db, ResolvedSort(o))))
<1> DEFINE f == EngineFilter(db, o)
           n == Len(db.data)
           key == EngineKey(db, ResolvedSort(o))
           order == EngineOrder(db, ResolvedSort(o))
           wanted == EngineWanted(db, o)
           hits == EngineHits(db, o, f, order)
<1>1. n \in Nat /\ DOMAIN db.data = 1..n /\ \A i \in 1..n : db.data[i] \in Asset
  BY DatasetIs
<1>2. key \in [1..n -> Int] /\ IsArrangement(order, 1..n, KeyOrder(key))
  BY EngineOrderIs
<1>3. wanted = {i \in 1..n : ~f.none /\ EngineMatches(db, f, i)}
  BY DEF EngineWanted
<1>4. Len(order) = n /\ order \in [1..n -> 1..n] /\ DOMAIN order = 1..n
  <2>1. /\ Len(order) = Cardinality(1..n) /\ order \in [1..Len(order) -> 1..n]
        /\ DOMAIN order = 1..Len(order)
    BY <1>2, ArrangementSize
  <2>2. Cardinality(1..n) = n
    BY <1>1, UpToSize
  <2> QED
    BY <2>1, <2>2
<1>0. o.minFirst \in Nat
  BY DEF IsRequest
<1> HIDE DEF f, key, order, wanted, n
<1>5. CASE f.none
  <2>1. hits = <<>>
    BY <1>5 DEF EngineHits
  <2>2. wanted = {}
    BY <1>3, <1>5
  <2>3. IsArrangement(<<>>, {}, KeyOrder(key))
    BY EmptySeq DEF IsArrangement
  <2> QED
    BY <2>1, <2>2, <2>3 DEF f, key, order, wanted
<1>6. CASE ~f.none /\ Everything(o, f)
  <2>2. Pure(f) /\ o.minFirst = 0
    BY <1>6 DEF Everything
  <2>5. ~NewestOnly(o, f)
    BY <2>2 DEF NewestOnly
  <2>1. hits = order
    BY <1>6, <2>5 DEF EngineHits
  <2>3. \A i \in 1..n : EngineMatches(db, f, i)
    BY <2>2, PureMatches DEF f, n
  <2>4. wanted = 1..n
    BY <1>3, <1>6, <2>3
  <2> QED
    BY <2>1, <2>4, <1>2 DEF f, key, order, wanted
<1>7. CASE ~f.none /\ ~Everything(o, f) /\ NewestOnly(o, f)
  <2> DEFINE old == {k \in DOMAIN order : db.data[order[k]].first < o.minFirst}
             m == Min(old \cup {Len(order) + 1}) - 1
             new == {i \in 1..n : db.data[i].first >= o.minFirst}
  <2>1. hits = SubSeq(order, 1, m)
    BY <1>7 DEF EngineHits
  <2>2. Pure(f) /\ o.minFirst > 0 /\ ResolvedSort(o) = "new"
    BY <1>7 DEF NewestOnly
  <2>3. \A i \in 1..n : EngineMatches(db, f, i) <=> db.data[i].first >= o.minFirst
    BY <2>2, PureMatches DEF f, n
  <2>4. wanted = new
    BY <1>3, <1>7, <2>3
  <2>5. \A i \in 1..n : db.data[i].first \in Nat /\ key[i] = -db.data[i].first
    <3>1. ASSUME NEW i \in 1..n
          PROVE  db.data[i].first \in Nat /\ key[i] = -db.data[i].first
      <4>1. db.data[i].first \in Nat
        BY <1>1, AssetIs
      <4>2. key[i] = SortKey("new", db.data[i], PriceUSD(db.data[i], db.rates))
        BY <2>2 DEF key, EngineKey, n
      <4> QED
        BY <4>1, <4>2 DEF SortKey
    <3> QED
      BY <3>1
  <2>6. old \subseteq 1..n
    BY <1>4
  <2>7. /\ m + 1 \in old \cup {n + 1} /\ m \in Int
        /\ \A k \in old \cup {n + 1} : m + 1 <= k
    <3> DEFINE all == old \cup {n + 1}
    <3>1. all \subseteq Nat /\ all # {}
      BY <2>6, <1>1
    <3> HIDE DEF all
    <3>2. \E x \in all : \A y \in all : x <= y
      BY <3>1, LeastNat
    <3>3. Min(all) \in all /\ \A y \in all : Min(all) <= y
      BY <3>2 DEF Min
    <3>4. m = Min(all) - 1
      BY <1>4 DEF all
    <3>5. Min(all) \in Int
      <4> DEFINE x == Min(all)
      <4>1. x \in all
        BY <3>3
      <4> HIDE DEF x
      <4>2. x \in Nat
        BY <4>1, <3>1
      <4> QED
        BY <4>2 DEF x
    <3> HIDE DEF m
    <3>6. m \in Int /\ m + 1 = Min(all)
      BY <3>4, <3>5
    <3> QED
      BY <3>3, <3>6 DEF all
  <2> HIDE DEF m
  <2>8. m \in Nat /\ m <= n
    BY <2>6, <2>7, <1>1
  <2>9. ASSUME NEW k \in 1..n
        PROVE  order[k] \in new <=> k <= m
    <3>0. order[k] \in 1..n /\ k \in Int
      BY <1>4
    <3>1. CASE k <= m
      <4>1. k \notin old
        <5>1. ~(m + 1 <= k)
          BY <3>1, <2>8, <3>0
        <5> QED
          BY <5>1, <2>7
      <4>2. ~(db.data[order[k]].first < o.minFirst)
        BY <4>1, <1>4
      <4>3. db.data[order[k]].first >= o.minFirst
        BY <4>2, <3>0, <2>5, <1>0
      <4> QED
        BY <4>3, <3>0, <3>1
    <3>2. CASE k > m
      <4>1. m + 1 \in old /\ m + 1 \in 1..n /\ m + 1 <= k
        BY <3>2, <2>7, <2>8, <3>0, <1>1
      <4> DEFINE l == m + 1
                 x == order[l]
                 y == order[k]
      <4>2. l \in 1..n /\ db.data[x].first < o.minFirst /\ x \in 1..n /\ l \in Int
        BY <4>1, <1>4
      <4>3. l = k \/ l < k
        BY <4>1, <3>0, <4>2
      <4>4. l < k => <<x, y>> \in KeyOrder(key)
        <5> HIDE DEF l
        <5> QED
          BY <4>2, <1>2, <1>4 DEF IsArrangement
      <4> HIDE DEF l
      <4>5. l < k => key[x] <= key[y]
        <5>1. <<x, y>> \in KeyOrder(key) => (key[x] < key[y] \/ (key[x] = key[y] /\ x <= y))
          BY <4>2, <3>0, <1>1, <1>2, KeyOrderIs
        <5>2. key[x] \in Int /\ key[y] \in Int
          BY <4>2, <3>0, <1>2
        <5> QED
          BY <5>1, <5>2, <4>4
      <4> DEFINE p == db.data[x].first
                 q == db.data[y].first
      <4>6. p \in Nat /\ q \in Nat /\ key[x] = -p /\ key[y] = -q /\ p < o.minFirst
        BY <4>2, <3>0, <2>5
      <4>7. q <= p
        <5>1. l = k => q = p
          OBVIOUS
        <5> HIDE DEF p, q
        <5>2. l < k => q <= p
          BY <4>5, <4>6
        <5> QED
          BY <5>1, <5>2, <4>3, <4>6
      <4>8. ~(q >= o.minFirst)
        <5> HIDE DEF p, q
        <5> QED
          BY <4>6, <4>7, <1>0
      <4>9. y \notin new
        BY <4>8
      <4> QED
        BY <4>9, <3>2, <3>0, <2>8
    <3> QED
      BY <3>0, <3>1, <3>2, <2>8
  <2>10. IsArrangement(SubSeq(order, 1, m), (1..n) \cap new, KeyOrder(key))
    <3> DEFINE D == 1..n
    <3>1. IsArrangement(order, D, KeyOrder(key)) /\ m <= Len(order)
          /\ \A k \in 1..Len(order) : order[k] \in new <=> k <= m
      BY <1>2, <1>4, <2>8, <2>9
    <3> HIDE DEF D, new
    <3> QED
      BY <3>1, <2>8, FirstArranged DEF D
  <2>11. (1..n) \cap new = new
    OBVIOUS
  <2> HIDE DEF new, hits
  <2> QED
    BY <2>1, <2>4, <2>10, <2>11 DEF hits, f, key, order, wanted
<1>8. CASE ~f.none /\ ~Everything(o, f) /\ ~NewestOnly(o, f)
  <2> DEFINE M == {i \in DOMAIN db.data : EngineMatches(db, f, i)}
  <2>1. hits = Kept(order, M)
    BY <1>8 DEF EngineHits
  <2>2. (1..n) \cap M = wanted
    BY <1>1, <1>3, <1>8
  <2>3. IsArrangement(Kept(order, M), (1..n) \cap M, KeyOrder(key))
    <3> DEFINE D == 1..n
    <3> HIDE DEF M, D
    <3>1. IsArrangement(order, D, KeyOrder(key))
      BY <1>2 DEF D
    <3> QED
      BY <3>1, KeptArranged DEF D
  <2> HIDE DEF M, hits
  <2> QED
    BY <2>1, <2>2, <2>3 DEF hits, f, key, order, wanted
<1> QED
  BY <1>5, <1>6, <1>7, <1>8

-----------------------------------------------------------------------------
(* What the index finds.                                                   *)

\* The price a document has in the index is a number too.
LEMMA DocPriceIs ==
    ASSUME NEW db, IsDataset(db), NEW i \in 1..Len(db.docs)
    PROVE  DocUSD(db, i) \in Nat
<1>1. db.docs[i] \in Asset /\ IsRates(db.docRates)
  BY DatasetIs DEF IsDataset
<1>2. PriceUSD(db.docs[i], db.docRates) \in Nat
  BY <1>1, PriceIs
<1> QED
  BY <1>2, SizesAre DEF DocUSD

\* Every key a document is sorted by is a number.
LEMMA IndexKeyIs ==
    ASSUME NEW db, IsDataset(db), NEW o, IsRequest(o), NEW i \in 1..Len(db.docs)
    PROVE  IndexKey(db, o, i) \in Int /\ db.docs[i].pop \in Int
<1>1. db.docs[i] \in Asset /\ DocUSD(db, i) \in Nat
  BY DatasetIs, DocPriceIs
<1>2. db.docs[i].pop \in Int
  BY <1>1, AssetIs
<1>3. SortKey(ResolvedSort(o), db.docs[i], DocUSD(db, i)) \in Int
  BY <1>1, SortKeyIs
<1>4. -Score(o, db.docs[i]) \in Int
  <2> DEFINE W == o.query.words \cap db.docs[i].words
  <2>1. IsFiniteSet(W)
    <3>1. IsFiniteSet(o.query.words) /\ W \in SUBSET o.query.words
      BY DEF IsRequest
    <3> QED
      BY <3>1, FS_Subset
  <2>2. Cardinality(W) \in Nat
    BY <2>1, FS_CardinalityType
  <2>3. Score(o, db.docs[i]) = Cardinality(W)
    BY DEF Score
  <2> HIDE DEF W
  <2> QED
    BY <2>2, <2>3
<1> QED
  BY <1>2, <1>3, <1>4 DEF IndexKey

\* The index compares keys, then popularity, then the order of indexing.
LEMMA IndexOrderIs ==
    ASSUME NEW db, IsDataset(db), NEW o, IsRequest(o)
    PROVE  /\ IsOrder(IndexOrder(db, o), 1..Len(db.docs))
           /\ \A i, j \in 1..Len(db.docs) : <<i, j>> \in IndexOrder(db, o) <=>
                 \/ IndexKey(db, o, i) < IndexKey(db, o, j)
                 \/ /\ IndexKey(db, o, i) = IndexKey(db, o, j)
                    /\ db.docs[i].pop < db.docs[j].pop \/ (db.docs[i].pop = db.docs[j].pop /\ i <= j)
<1> DEFINE n == Len(db.docs)
           order == IndexOrder(db, o)
           Before(x, y, p, q, i, j) == x < y \/ (x = y /\ (p < q \/ (p = q /\ i <= j)))
<1>1. n \in Nat /\ DOMAIN db.docs = 1..n
  BY DatasetIs
<1>2. ASSUME NEW i \in 1..n, NEW j \in 1..n
      PROVE  <<i, j>> \in order <=>
               Before(IndexKey(db, o, i), IndexKey(db, o, j), db.docs[i].pop, db.docs[j].pop, i, j)
  BY <1>1 DEF IndexOrder
<1>3. ASSUME NEW i \in 1..n
      PROVE  IndexKey(db, o, i) \in Int /\ db.docs[i].pop \in Int /\ i \in Int
  BY IndexKeyIs
<1> HIDE DEF order, n
<1>4. ASSUME NEW i \in 1..n, NEW j \in 1..n
      PROVE  /\ <<i, j>> \in order \/ <<j, i>> \in order
             /\ <<i, j>> \in order /\ <<j, i>> \in order => i = j
  <2> DEFINE x == IndexKey(db, o, i)
             y == IndexKey(db, o, j)
             p == db.docs[i].pop
             q == db.docs[j].pop
  <2>1. x \in Int /\ y \in Int /\ p \in Int /\ q \in Int /\ i \in Int /\ j \in Int
    BY <1>3
  <2>2. <<i, j>> \in order <=> Before(x, y, p, q, i, j)
    BY <1>2
  <2>3. <<j, i>> \in order <=> Before(y, x, q, p, j, i)
    BY <1>2
  <2> HIDE DEF x, y, p, q
  <2> QED
    BY <2>1, <2>2, <2>3
<1>5. ASSUME NEW i \in 1..n, NEW j \in 1..n, NEW k \in 1..n, <<i, j>> \in order, <<j, k>> \in order
      PROVE  <<i, k>> \in order
  <2> DEFINE x == IndexKey(db, o, i)
             y == IndexKey(db, o, j)
             z == IndexKey(db, o, k)
             p == db.docs[i].pop
             q == db.docs[j].pop
             r == db.docs[k].pop
  <2>1. /\ x \in Int /\ y \in Int /\ p \in Int /\ q \in Int /\ i \in Int /\ j \in Int
        /\ z \in Int /\ r \in Int /\ k \in Int
    BY <1>3
  <2>2. Before(x, y, p, q, i, j)
    BY <1>2, <1>5
  <2>3. Before(y, z, q, r, j, k)
    BY <1>2, <1>5
  <2>4. <<i, k>> \in order <=> Before(x, z, p, r, i, k)
    BY <1>2
  <2> HIDE DEF x, y, z, p, q, r
  <2> QED
    BY <2>1, <2>2, <2>3, <2>4
<1>6. IsOrder(order, 1..n)
  BY <1>4, <1>5 DEF IsOrder
<1> QED
  BY <1>2, <1>6 DEF order, n

\* The hits of a query are the matching documents in order.
LEMMA IndexHitsAre ==
    ASSUME NEW db, IsDataset(db), NEW o, IsRequest(o), NEW mode
    PROVE  /\ MatchingDocs(db, o, mode) \subseteq 1..Len(db.docs)
           /\ IsFiniteSet(MatchingDocs(db, o, mode))
           /\ IsOrder(IndexOrder(db, o), MatchingDocs(db, o, mode))
           /\ IsArrangement(Arranged(MatchingDocs(db, o, mode), IndexOrder(db, o)),
                            MatchingDocs(db, o, mode), IndexOrder(db, o))
<1> DEFINE M == MatchingDocs(db, o, mode)
           order == IndexOrder(db, o)
           D == 1..Len(db.docs)
<1>1. M \subseteq D
  BY DatasetIs DEF MatchingDocs
<1>2. IsFiniteSet(D) /\ IsOrder(order, D)
  BY DatasetIs, UpToSize, IndexOrderIs
<1> HIDE DEF M, order, D
<1>3. IsFiniteSet(M) /\ IsOrder(order, M)
  BY <1>1, <1>2, FS_Subset, OrderWithin
<1>4. IsArrangement(Arranged(M, order), M, order)
  BY <1>3, ArrangedIs
<1> QED
  BY <1>1, <1>3, <1>4 DEF M, order, D

\* The engine and the index decide alike: with no words to look for, an asset
\* matches in the one when a document of the same contents does in the other.
LEMMA EngineDecidesAsIndex ==
    ASSUME NEW db, IsDataset(db), NEW o, IsRequest(o), o.query = NoQuery
    PROVE  EngineWanted(db, o) =
             {i \in 1..Len(db.data) :
                IndexMatches(o, LikeTags(db, o), db.data[i], PriceUSD(db.data[i], db.rates), "all")}
<1> DEFINE f == EngineFilter(db, o)
           vocabulary == UNION {db.data[i].tags : i \in DOMAIN db.data}
           authors == {db.data[i].author : i \in DOMAIN db.data}
           like == LikeTags(db, o)
<1>1. /\ f.none <=> \/ ~(o.tags \subseteq vocabulary)
                    \/ o.author # None /\ o.author \notin authors
                    \/ o.like # None /\ like = {}
      /\ f.req = o.tags \cap vocabulary /\ f.excl = o.not \cap vocabulary
      /\ f.hasAny <=> o.like # None
      /\ f.any = like /\ f.skip = Find1(db.data, o.like)
      /\ f.author = o.author /\ f.price = o.price /\ f.minFirst = o.minFirst
  BY EngineFilterIs
<1>2. /\ o.price \in PriceFilters \cup {None} /\ o.minFirst \in Nat
      /\ \A p \in PriceFilters \cup {None} : p \in {"free", "paid", "under-5", "under-20", None}
  BY DEF IsRequest, PriceFilters
<1>3. DOMAIN db.data = 1..Len(db.data)
  BY DatasetIs
<1> HIDE DEF f
<1>4. ASSUME NEW i \in 1..Len(db.data)
      PROVE  (~f.none /\ EngineMatches(db, f, i)) <=>
               IndexMatches(o, like, db.data[i], PriceUSD(db.data[i], db.rates), "all")
  <2> DEFINE a == db.data[i]
             usd == PriceUSD(a, db.rates)
  <2>1. a.tags \subseteq vocabulary /\ a.author \in authors /\ a.id # None
    BY <1>3, DatasetIs, AssetIs
  <2>2. i \in f.skip <=> a.id = o.like
    BY <1>1, <1>3 DEF Find1
  <2> HIDE DEF vocabulary, authors, like, a, usd
  <2>3. TextMatches(o.query, a, "all")
    BY DEF TextMatches, NoQuery
  <2>4. PriceQuery(o.price, a, usd) <=>
          /\ o.price = "free" => Free(a)
          /\ o.price = "paid" => ~Free(a)
          /\ o.price \in DOMAIN Ceiling => usd > 0 /\ usd < Ceiling[o.price]
    <3>1. o.price \in {"free", "paid", "under-5", "under-20", None}
      BY <1>2
    <3>2. CASE o.price = "free"
      BY <3>2, Bands DEF PriceQuery
    <3>3. CASE o.price = "paid"
      BY <3>3, Bands DEF PriceQuery
    <3>4. CASE o.price \in {"under-5", "under-20"}
      BY <3>4, Bands DEF PriceQuery
    <3>5. CASE o.price = None
      <4>1. o.price \notin {"free", "paid"} /\ o.price \notin DOMAIN Ceiling
        BY <3>5, Bands
      <4> QED
        BY <4>1 DEF PriceQuery
    <3> QED
      BY <3>1, <3>2, <3>3, <3>4, <3>5
  <2>5. IndexMatches(o, like, a, usd, "all") <=>
          /\ o.tags \subseteq a.tags
          /\ o.author # None => a.author = o.author
          /\ PriceQuery(o.price, a, usd)
          /\ o.minFirst > 0 => a.first >= o.minFirst
          /\ o.like # None => like \cap a.tags # {}
          /\ o.not \cap a.tags = {}
          /\ o.like # None => a.id # o.like
    BY <2>3 DEF IndexMatches
  <2>6. EngineMatches(db, f, i) <=>
          /\ a.id # o.like
          /\ o.minFirst > 0 => a.first >= o.minFirst
          /\ o.author # None => a.author = o.author
          /\ PriceQuery(o.price, a, usd)
          /\ o.tags \cap vocabulary \subseteq a.tags
          /\ o.like # None => like \cap a.tags # {}
          /\ o.not \cap vocabulary \cap a.tags = {}
    BY <1>1, <2>2, <2>4 DEF EngineMatches, a, usd
  <2>7. o.like = None => a.id # o.like
    BY <2>1
  <2>8. o.not \cap vocabulary \cap a.tags = o.not \cap a.tags
    BY <2>1
  <2>9. CASE f.none
    <3>1. ~(o.tags \subseteq vocabulary) => ~(o.tags \subseteq a.tags)
      BY <2>1
    <3>2. o.author # None /\ o.author \notin authors => a.author # o.author
      BY <2>1
    <3>3. o.like # None /\ like = {} => ~(like \cap a.tags # {})
      OBVIOUS
    <3> QED
      BY <2>9, <1>1, <2>5, <3>1, <3>2, <3>3 DEF a, usd
  <2>10. CASE ~f.none
    <3>1. o.tags \cap vocabulary = o.tags
      BY <1>1, <2>10
    <3> QED
      BY <2>10, <2>5, <2>6, <2>7, <2>8, <3>1 DEF a, usd
  <2> QED
    BY <2>9, <2>10
<1> QED
  BY <1>4 DEF EngineWanted, f
-----------------------------------------------------------------------------
(* The sidebar.                                                            *)

\* Products by a positive number compare as the numbers do.
LEMMA Cancels ==
    ASSUME NEW x \in Nat, NEW y \in Nat, NEW b \in Nat, b > 0
    PROVE  /\ x * b >= y * b => x >= y
           /\ x * b > y * b => x > y
<1>1. y < x => y * b < x * b
  BY Multiples
<1>2. x < y => x * b < y * b
  <2> DEFINE p == x * b
             q == y * b
  <2>1. p \in Nat /\ q \in Nat /\ (x < y => p + b <= q)
    BY Multiples
  <2> HIDE DEF p, q
  <2>2. x < y => p < q
    BY <2>1
  <2> QED
    BY <2>2 DEF p, q
<1> DEFINE p == x * b
           q == y * b
<1>3. p \in Nat /\ q \in Nat /\ (x = y => p = q)
  BY Multiples
<1> HIDE DEF p, q
<1>4. (p >= q => x >= y) /\ (p > q => x > y)
  BY <1>2, <1>3 DEF p, q
<1> QED
  BY <1>4 DEF p, q

\* Fractions compared by cross products: a/p >= b/q >= c/r.
LEMMA CrossProducts ==
    ASSUME NEW a \in Nat, NEW b \in Nat, NEW c \in Nat, NEW p \in Nat, NEW q \in Nat, NEW r \in Nat,
           p > 0, q > 0, r > 0, a * q >= b * p, b * r >= c * q
    PROVE  /\ a * r >= c * p
           /\ a * q > b * p \/ b * r > c * q => a * r > c * p
<1> DEFINE A == a * q
           B == b * p
           C == b * r
           D == c * q
           E == a * r
           F == c * p
<1>1. A \in Nat /\ B \in Nat /\ C \in Nat /\ D \in Nat /\ E \in Nat /\ F \in Nat
  BY Multiples
<1>2. A * r = E * q /\ B * r = C * p /\ D * p = F * q
  <2>1. (a * q) * r = (a * r) * q
    OBVIOUS
  <2>2. (b * p) * r = (b * r) * p
    OBVIOUS
  <2>3. (c * q) * p = (c * p) * q
    OBVIOUS
  <2> QED
    BY <2>1, <2>2, <2>3
<1>3. A >= B /\ C >= D
  OBVIOUS
<1> HIDE DEF A, B, C, D, E, F
<1>4. /\ A * r \in Nat /\ B * r \in Nat /\ C * p \in Nat /\ D * p \in Nat
      /\ B * r <= A * r /\ D * p <= C * p
  BY <1>1, <1>3, Multiples
<1>5. (B < A => B * r + r <= A * r) /\ (D < C => D * p + p <= C * p)
  BY <1>1, Multiples
<1> DEFINE Ar == A * r
           Br == B * r
           Cp == C * p
           Dp == D * p
           Eq == E * q
           Fq == F * q
<1>6. Ar = Eq /\ Br = Cp /\ Dp = Fq
  BY <1>2
<1>7. /\ Ar \in Nat /\ Br \in Nat /\ Cp \in Nat /\ Dp \in Nat
      /\ Br <= Ar /\ Dp <= Cp
      /\ B < A => Br + r <= Ar
      /\ D < C => Dp + p <= Cp
  BY <1>4, <1>5
<1>8. (Eq >= Fq => E >= F) /\ (Eq > Fq => E > F)
  BY <1>1, Cancels
<1> HIDE DEF Ar, Br, Cp, Dp, Eq, Fq
<1>9. Eq >= Fq /\ (A > B \/ C > D => Eq > Fq)
  BY <1>1, <1>6, <1>7
<1>10. E >= F /\ (A > B \/ C > D => E > F)
  BY <1>8, <1>9
<1> QED
  BY <1>10 DEF A, B, C, D, E, F

\* Tags that some result carries are ordered by how over-represented they are.
LEMMA LiftOrderIs ==
    ASSUME NEW count \in [Slugs -> Nat], NEW carried \in [Slugs -> Nat], NEW T, T \subseteq Slugs,
           \A t \in T : count[t] > 0 /\ carried[t] > 0
    PROVE  IsOrder(LiftOrder(count, carried), T)
<1> DEFINE order == LiftOrder(count, carried)
           Before(l, r, x, y, s, t) == l > r \/ (l = r /\ x > y) \/ (l = r /\ x = y /\ s <= t)
           Cross(s, t) == count[s] * carried[t]
<1>1. ASSUME NEW s \in T
      PROVE  /\ count[s] \in Nat /\ count[s] > 0 /\ carried[s] \in Nat /\ carried[s] > 0 /\ s \in Nat
             /\ s \in Slugs
  BY SizesAre
<1>2. ASSUME NEW s \in T, NEW t \in T
      PROVE  /\ <<s, t>> \in order <=> Before(Cross(s, t), Cross(t, s), count[s], count[t], s, t)
             /\ Cross(s, t) \in Nat
  <2>1. s \in Slugs /\ t \in Slugs
    BY <1>1
  <2>2. <<s, t>> \in order <=> Before(Cross(s, t), Cross(t, s), count[s], count[t], s, t)
    BY <2>1 DEF LiftOrder
  <2>3. Cross(s, t) \in Nat
    BY <1>1, Multiples
  <2> QED
    BY <2>2, <2>3
<1> HIDE DEF order
<1>3. ASSUME NEW s \in T, NEW t \in T
      PROVE  /\ <<s, t>> \in order \/ <<t, s>> \in order
             /\ <<s, t>> \in order /\ <<t, s>> \in order => s = t
  <2> DEFINE l == Cross(s, t)
             r == Cross(t, s)
             x == count[s]
             y == count[t]
  <2>1. l \in Nat /\ r \in Nat /\ x \in Nat /\ y \in Nat /\ s \in Nat /\ t \in Nat
    BY <1>1, <1>2
  <2>2. <<s, t>> \in order <=> Before(l, r, x, y, s, t)
    BY <1>2
  <2>3. <<t, s>> \in order <=> Before(r, l, y, x, t, s)
    BY <1>2
  <2> HIDE DEF l, r, x, y
  <2> QED
    BY <2>1, <2>2, <2>3
<1>4. ASSUME NEW s \in T, NEW t \in T, NEW u \in T, <<s, t>> \in order, <<t, u>> \in order
      PROVE  <<s, u>> \in order
  <2> DEFINE x == count[s]
             y == count[t]
             z == count[u]
             p == carried[s]
             q == carried[t]
             r == carried[u]
  <2>1. /\ x \in Nat /\ y \in Nat /\ z \in Nat /\ p \in Nat /\ q \in Nat /\ r \in Nat
        /\ p > 0 /\ q > 0 /\ r > 0 /\ s \in Nat /\ t \in Nat /\ u \in Nat
    BY <1>1
  <2>2. Before(x * q, y * p, x, y, s, t) /\ Before(y * r, z * q, y, z, t, u)
    BY <1>2, <1>4
  <2>3. <<s, u>> \in order <=> Before(x * r, z * p, x, z, s, u)
    BY <1>2
  <2> HIDE DEF x, y, z, p, q, r
  <2> DEFINE a == x * q
             b == y * p
             c == y * r
             d == z * q
             e == x * r
             f == z * p
  <2>4. a \in Nat /\ b \in Nat /\ c \in Nat /\ d \in Nat /\ e \in Nat /\ f \in Nat
    BY <2>1, Multiples
  <2>5. a >= b /\ c >= d => e >= f /\ (a > b \/ c > d => e > f)
    BY <2>1, CrossProducts
  <2>6. Before(a, b, x, y, s, t) /\ Before(c, d, y, z, t, u)
    BY <2>2
  <2>7. <<s, u>> \in order <=> Before(e, f, x, z, s, u)
    BY <2>3
  <2> HIDE DEF a, b, c, d, e, f
  <2> QED
    BY <2>1, <2>4, <2>5, <2>6, <2>7
<1> QED
  BY <1>3, <1>4 DEF IsOrder, order

\* Tags are ordered by how many carry them.
LEMMA CountOrderIs ==
    ASSUME NEW count \in [Slugs -> Nat], NEW T, T \subseteq Slugs
    PROVE  IsOrder(CountOrder(count), T)
<1> DEFINE order == CountOrder(count)
<1>1. ASSUME NEW s \in T
      PROVE  count[s] \in Nat /\ s \in Nat /\ s \in Slugs
  BY SizesAre
<1>2. ASSUME NEW s \in T, NEW t \in T
      PROVE  <<s, t>> \in order <=> (count[s] > count[t] \/ (count[s] = count[t] /\ s <= t))
  BY <1>1 DEF CountOrder
<1> HIDE DEF order
<1>3. ASSUME NEW s \in T, NEW t \in T
      PROVE  /\ <<s, t>> \in order \/ <<t, s>> \in order
             /\ <<s, t>> \in order /\ <<t, s>> \in order => s = t
  BY <1>1, <1>2
<1>4. ASSUME NEW s \in T, NEW t \in T, NEW u \in T, <<s, t>> \in order, <<t, u>> \in order
      PROVE  <<s, u>> \in order
  BY <1>1, <1>2, <1>4
<1> QED
  BY <1>3, <1>4 DEF IsOrder, order

\* A row of the sidebar is about one of the tags to choose from, and has its
\* count.
LEMMA RowsAre ==
    ASSUME NEW T, IsFiniteSet(T), NEW order, IsOrder(order, T), NEW count
    PROVE  /\ \A k \in DOMAIN Rows(T, order, count) :
                Rows(T, order, count)[k].slug \in T
                /\ Rows(T, order, count)[k].count = count[Rows(T, order, count)[k].slug]
           /\ T = {} => Rows(T, order, count) = <<>>
<1> DEFINE ranked == Arranged(T, order)
           n == Min({Cardinality(T), MaxFacetTags})
           rows == [k \in 1..n |-> [slug |-> ranked[k], count |-> count[ranked[k]]]]
<1>1. Rows(T, order, count) = rows
  BY DEF Rows
<1>2. ranked \in [1..Cardinality(T) -> T] /\ Cardinality(T) \in Nat
  <2>1. IsArrangement(ranked, T, order)
    BY ArrangedIs
  <2>2. Len(ranked) = Cardinality(T) /\ ranked \in [1..Len(ranked) -> T] /\ Len(ranked) \in Nat
    BY <2>1, ArrangementSize
  <2> QED
    BY <2>2
<1>3. n <= Cardinality(T) /\ n \in Int
  <2>1. Cardinality(T) \in Int /\ MaxFacetTags \in Int
    BY <1>2, SizesAre
  <2>2. n \in {Cardinality(T), MaxFacetTags} /\ n <= Cardinality(T)
    BY <2>1, MinMaxOfTwo
  <2> QED
    BY <2>1, <2>2
<1> HIDE DEF ranked, n
<1>4. ASSUME NEW k \in 1..n
      PROVE  rows[k].slug \in T /\ rows[k].count = count[rows[k].slug]
  <2>1. k \in 1..Cardinality(T)
    BY <1>2, <1>3
  <2>2. ranked[k] \in T
    BY <1>2, <2>1
  <2> QED
    BY <2>2
<1>5. ASSUME T = {} PROVE rows = <<>>
  <2>1. Cardinality(T) = 0
    BY <1>5, FS_EmptySet
  <2>2. 1..n = {}
    BY <2>1, <1>3
  <2>3. DOMAIN rows = {} /\ rows \in [1..n -> {}]
    BY <2>2
  <2>4. rows = [k \in {} |-> k]
    BY <2>2
  <2>5. <<>> \in Seq({}) /\ Len(<<>>) = 0
    BY EmptySeq
  <2>6. <<>> \in [1..0 -> {}]
    BY <2>5, LenProperties
  <2>7. 1..0 = {}
    OBVIOUS
  <2> QED
    BY <2>2, <2>3, <2>6, <2>7
<1> QED
  BY <1>1, <1>4, <1>5

\* A tag has to be on one result at least to be offered.
LEMMA FacetCountIs ==
    ASSUME NEW total \in Nat
    PROVE  MinFacetCount(total) \in Int /\ MinFacetCount(total) >= 1
<1> DEFINE a == (total + 99) \div 100
           b == Max({3, a})
           c == Min({total - 1, b})
           d == Max({1, c})
<1>1. a \in Int
  OBVIOUS
<1>2. b \in Int
  <2> HIDE DEF a
  <2>1. b \in {3, a}
    BY <1>1, MinMaxOfTwo
  <2> QED
    BY <1>1, <2>1
<1>3. c \in Int
  <2>1. total - 1 \in Int
    OBVIOUS
  <2> HIDE DEF b
  <2>2. c \in {total - 1, b}
    BY <1>2, <2>1, MinMaxOfTwo
  <2> QED
    BY <1>2, <2>1, <2>2
<1>4. d \in Int /\ d >= 1
  <2> HIDE DEF c
  <2>1. d \in {1, c} /\ d >= 1
    <3>1. 1 \in Int /\ c \in Int
      BY <1>3
    <3> QED
      BY <3>1, MinMaxOfTwo
  <2>2. d \in Int
    BY <1>3, <2>1
  <2> QED
    BY <2>1, <2>2
<1>5. MinFacetCount(total) = d
  BY DEF MinFacetCount
<1> QED
  BY <1>4, <1>5

\* Those of some assets of a list that carry a tag.
Carrying(list, W, t) == {i \in W : t \in list[i].tags}

\* The hits of a search as assets.
Found(list, hits) == [k \in DOMAIN hits |-> list[hits[k]]]

\* Counting among the hits counts among the matches.
LEMMA FoundCounts ==
    ASSUME NEW list, NEW W, NEW order, NEW hits, IsArrangement(hits, W, order)
    PROVE  /\ Len(hits) = Cardinality(W) /\ Len(hits) \in Nat /\ IsFiniteSet(W)
           /\ Counts(Found(list, hits)) \in [Slugs -> Nat]
           /\ \A t \in Slugs : /\ Counts(Found(list, hits))[t] = Cardinality(Carrying(list, W, t))
                               /\ IsFiniteSet(Carrying(list, W, t))
           /\ hits = <<>> <=> W = {}
<1> DEFINE found == Found(list, hits)
           n == Len(hits)
<1>1. /\ n \in Nat /\ DOMAIN hits = 1..n /\ n = Cardinality(W) /\ IsFiniteSet(W)
      /\ hits \in [1..n -> W] /\ \A k, l \in 1..n : hits[k] = hits[l] => k = l
  BY ArrangementSize
<1>2. DOMAIN found = 1..n /\ \A k \in 1..n : found[k] = list[hits[k]]
  BY <1>1 DEF Found
<1> HIDE DEF found, n
<1>3. ASSUME NEW t \in Slugs
      PROVE  /\ CountOf(found, t) = Cardinality(Carrying(list, W, t)) /\ CountOf(found, t) \in Nat
             /\ IsFiniteSet(Carrying(list, W, t))
  <2> DEFINE C == Carrying(list, W, t)
             K == {k \in 1..n : t \in list[hits[k]].tags}
             g == [k \in K |-> hits[k]]
  <2>1. IsFiniteSet(K)
    <3>1. IsFiniteSet(1..n) /\ K \in SUBSET (1..n)
      BY <1>1, UpToSize
    <3> QED
      BY <3>1, FS_Subset
  <2>2. g \in [K -> C] /\ \A k, l \in K : g[k] = g[l] => k = l
    BY <1>1 DEF Carrying
  <2>3. \A i \in C : \E k \in K : g[k] = i
    <3>1. ASSUME NEW i \in C
          PROVE  \E k \in K : g[k] = i
      <4>1. i \in W /\ t \in list[i].tags
        BY DEF Carrying
      <4>2. PICK k \in 1..n : hits[k] = i
        BY <4>1 DEF IsArrangement, n
      <4> QED
        BY <4>1, <4>2
    <3> QED
      BY <3>1
  <2>4. CountOf(found, t) = Cardinality(K)
    <3>1. {i \in DOMAIN found : t \in found[i].tags} = K
      BY <1>2
    <3> QED
      BY <3>1 DEF CountOf
  <2> HIDE DEF C, K, g
  <2>5. IsFiniteSet(C) /\ Cardinality(C) = Cardinality(K)
    BY <2>1, <2>2, <2>3, SameSize
  <2>6. Cardinality(K) \in Nat
    BY <2>1, FS_CardinalityType
  <2> QED
    BY <2>4, <2>5, <2>6 DEF C
<1>4. Counts(found) \in [Slugs -> Nat] /\ \A t \in Slugs : Counts(found)[t] = CountOf(found, t)
  BY <1>3 DEF Counts
<1>5. hits = <<>> <=> W = {}
  <2>1. hits \in Seq(W)
    BY DEF IsArrangement
  <2>2. hits = <<>> <=> n = 0
    BY <2>1, EmptySeq DEF n
  <2>3. n = 0 <=> W = {}
    BY <1>1, FS_EmptySet
  <2> QED
    BY <2>2, <2>3
<1> QED
  BY <1>1, <1>3, <1>4, <1>5 DEF found, n

\* A count is a number.
LEMMA CountOfIs ==
    ASSUME NEW db, IsDataset(db), NEW t
    PROVE  CountOf(db.data, t) \in Nat
<1> DEFINE K == {i \in DOMAIN db.data : t \in db.data[i].tags}
<1>1. IsFiniteSet(K)
  <2>1. IsFiniteSet(1..Len(db.data)) /\ DOMAIN db.data = 1..Len(db.data)
    BY DatasetIs, UpToSize
  <2>2. K \in SUBSET (1..Len(db.data))
    BY <2>1
  <2> QED
    BY <2>1, <2>2, FS_Subset
<1>2. Cardinality(K) \in Nat
  BY <1>1, FS_CardinalityType
<1> QED
  BY <1>2 DEF CountOf

\* What the rows of a narrowed search say.
LEMMA LiftRows ==
    ASSUME NEW db, IsDataset(db), NEW count \in [Slugs -> Nat], NEW applied, NEW total \in Nat,
           NEW k \in DOMAIN RankLift(db, count, applied, total), NEW row,
           row = RankLift(db, count, applied, total)[k]
    PROVE  /\ row.slug \in Slugs /\ row.count = count[row.slug] /\ row.count >= 1 /\ row.count < total
           /\ row.slug \notin applied
<1> DEFINE T == Offerable(count, applied, total)
           carried == InCatalog(db, count)
           order == LiftOrder(count, carried)
<1>1. ASSUME NEW t \in Slugs
      PROVE  carried[t] \in Nat /\ carried[t] >= count[t]
  <2>1. CountOf(db.data, t) \in Int /\ count[t] \in Int /\ CountOf(db.data, t) \in Nat /\ count[t] \in Nat
    BY CountOfIs
  <2> DEFINE m == Max({CountOf(db.data, t), count[t]})
  <2>2. m \in {CountOf(db.data, t), count[t]} /\ m >= count[t]
    BY <2>1, MinMaxOfTwo
  <2>3. carried[t] = m
    BY DEF InCatalog
  <2> HIDE DEF m
  <2> QED
    BY <2>1, <2>2, <2>3
<1>2. carried \in [Slugs -> Nat]
  BY <1>1 DEF InCatalog
<1>3. ASSUME NEW t \in T
      PROVE  t \in Slugs /\ count[t] >= 1 /\ count[t] < total /\ t \notin applied
  <2>1. MinFacetCount(total) \in Int /\ MinFacetCount(total) >= 1
    BY FacetCountIs
  <2>2. t \in Slugs /\ count[t] >= MinFacetCount(total) /\ count[t] < total /\ t \notin applied
    BY DEF Offerable
  <2>3. count[t] \in Nat
    BY <2>2
  <2> QED
    BY <2>1, <2>2, <2>3
<1>4. IsFiniteSet(T)
  <2>1. T \in SUBSET Slugs
    BY <1>3
  <2> QED
    BY <2>1, SizesAre, FS_Subset
<1> HIDE DEF carried, T
<1>5. IsOrder(order, T)
  <2>1. \A t \in T : count[t] > 0 /\ carried[t] > 0
    <3>1. ASSUME NEW t \in T
          PROVE  count[t] > 0 /\ carried[t] > 0
      <4>1. t \in Slugs /\ count[t] >= 1 /\ carried[t] \in Nat /\ carried[t] >= count[t] /\ count[t] \in Nat
        BY <1>1, <1>3
      <4> QED
        BY <4>1
    <3> QED
      BY <3>1
  <2>2. T \subseteq Slugs
    BY <1>3
  <2> QED
    BY <1>2, <2>1, <2>2, LiftOrderIs
<1>6. RankLift(db, count, applied, total) = Rows(T, order, count)
  BY DEF RankLift, T, carried
<1> HIDE DEF order
<1>7. row.slug \in T /\ row.count = count[row.slug]
  BY <1>4, <1>5, <1>6, RowsAre
<1> QED
  BY <1>3, <1>7

\* What the rows of the whole catalog say.
LEMMA TopRows ==
    ASSUME NEW count \in [Slugs -> Nat], NEW k \in DOMAIN TopTags(count), NEW row, row = TopTags(count)[k]
    PROVE  row.slug \in Slugs /\ row.count = count[row.slug] /\ row.count >= 1
<1> DEFINE T == {t \in Slugs : count[t] > 0}
           order == CountOrder(count)
<1>1. TopTags(count) = Rows(T, order, count)
  BY DEF TopTags
<1>2. IsFiniteSet(T) /\ T \subseteq Slugs
  <2>1. T \in SUBSET Slugs
    OBVIOUS
  <2> QED
    BY <2>1, SizesAre, FS_Subset
<1>3. IsOrder(order, T)
  BY <1>2, CountOrderIs
<1> HIDE DEF order, T
<1>4. row.slug \in T /\ row.count = count[row.slug]
  BY <1>1, <1>2, <1>3, RowsAre
<1>5. count[row.slug] \in Nat /\ count[row.slug] > 0
  BY <1>4 DEF T
<1> QED
  BY <1>2, <1>4, <1>5

\* Each row says how many of the assets in W, of a list, carry its tag; and in
\* a narrowed search those are not all, nor is the tag one of those required.
RowsTell(rows, list, W, o) ==
    \A k \in DOMAIN rows :
        /\ rows[k].slug \in Slugs /\ rows[k].count = Cardinality(Carrying(list, W, rows[k].slug))
        /\ rows[k].count >= 1 /\ rows[k].count \in Nat
        /\ Filtered(o) => rows[k].count < Cardinality(W) /\ rows[k].slug \notin o.tags

\* The sidebar of a narrowed search tells that of its hits.
LEMMA LiftTells ==
    ASSUME NEW db, IsDataset(db), NEW o, NEW list, NEW W, NEW order, NEW hits,
           IsArrangement(hits, W, order)
    PROVE  RowsTell(RankLift(db, Counts(Found(list, hits)), o.tags, Len(hits)), list, W, o)
<1> DEFINE count == Counts(Found(list, hits))
           total == Len(hits)
           rows == RankLift(db, count, o.tags, total)
<1>1. /\ total = Cardinality(W) /\ total \in Nat /\ count \in [Slugs -> Nat]
      /\ \A t \in Slugs : count[t] = Cardinality(Carrying(list, W, t))
  BY FoundCounts
<1> HIDE DEF count, total
<1>2. ASSUME NEW k \in DOMAIN rows
      PROVE  /\ rows[k].slug \in Slugs /\ rows[k].count = Cardinality(Carrying(list, W, rows[k].slug))
             /\ rows[k].count >= 1 /\ rows[k].count \in Nat
             /\ rows[k].count < Cardinality(W) /\ rows[k].slug \notin o.tags
  <2>1. /\ rows[k].slug \in Slugs /\ rows[k].count = count[rows[k].slug] /\ rows[k].count >= 1
        /\ rows[k].count < total /\ rows[k].slug \notin o.tags
    BY <1>1, LiftRows
  <2>2. count[rows[k].slug] \in Nat
    BY <1>1, <2>1
  <2> HIDE DEF rows
  <2> QED
    BY <1>1, <2>1, <2>2
<1> QED
  BY <1>2 DEF RowsTell, count, total

\* The hits of the engine.
EngineHitsOf(db, o) == EngineHits(db, o, EngineFilter(db, o), EngineOrder(db, ResolvedSort(o)))

\* What is found without a filter is everything.
LEMMA NothingFiltered ==
    ASSUME NEW db, IsDataset(db), NEW o, IsRequest(o), ~Filtered(o)
    PROVE  EngineWanted(db, o) = 1..Len(db.data) /\ ~Unlike(db, o) /\ o.query = NoQuery
<1>1. /\ o.query = NoQuery /\ o.tags = {} /\ o.not = {} /\ o.price = None /\ o.author = None
      /\ ~(o.minFirst > 0) /\ o.like = None
  BY DEF Filtered
<1>2. ASSUME NEW i \in 1..Len(db.data)
      PROVE  IndexMatches(o, LikeTags(db, o), db.data[i], PriceUSD(db.data[i], db.rates), "all")
  <2>1. TextMatches(o.query, db.data[i], "all")
    BY <1>1 DEF TextMatches, NoQuery
  <2>2. PriceQuery(o.price, db.data[i], PriceUSD(db.data[i], db.rates))
    BY <1>1, Bands DEF PriceQuery
  <2> QED
    BY <1>1, <2>1, <2>2 DEF IndexMatches
<1>3. EngineWanted(db, o) = 1..Len(db.data)
  BY <1>1, <1>2, EngineDecidesAsIndex
<1> QED
  BY <1>1, <1>3 DEF Unlike

\* The engine's answer: as many as match, and a sidebar that tells of them.
LEMMA EngineAnswers ==
    ASSUME NEW db, IsDataset(db), NEW o, IsRequest(o), o.query = NoQuery
    PROVE  /\ Unlike(db, o) => SearchEngine(db, o) = Empty
           /\ ~Unlike(db, o) =>
                 /\ SearchEngine(db, o).total = Cardinality(EngineWanted(db, o))
                 /\ RowsTell(SearchEngine(db, o).tags, db.data, EngineWanted(db, o), o)
                 /\ SearchEngine(db, o).assets =
                      Slice(Ids(Found(db.data, EngineHitsOf(db, o))), Start(o.page), PageLimit(o))
<1> DEFINE W == EngineWanted(db, o)
           hits == EngineHitsOf(db, o)
           found == Found(db.data, hits)
           tags == CASE o.facets # "wanted" -> <<>>
                     [] o.facets = "wanted" /\ Filtered(o) ->
                           RankLift(db, Counts(found), o.tags, Len(hits))
                     [] OTHER -> TagCounts(db)
<1>1. ~(Start(o.page) < 0)
  <2>1. o.page \in Nat /\ o.page >= 1 /\ o.page <= MaxPage + 1
    <3>1. o.page \in 1..MaxPage + 1
      BY DEF IsRequest
    <3> QED
      BY <3>1, SizesAre
  <2>2. Start(o.page) \in Nat
    BY <2>1, StartIs
  <2> QED
    BY <2>2
<1>2. Unlike(db, o) => SearchEngine(db, o) = Empty
  BY DEF SearchEngine
<1>3. ASSUME ~Unlike(db, o)
      PROVE  SearchEngine(db, o) = [assets |-> Slice(Ids(found), Start(o.page), PageLimit(o)),
                                    total |-> Len(hits), tags |-> tags, matched |-> "all"]
  BY <1>1, <1>3 DEF SearchEngine, EngineHitsOf, Found
<1>4. IsArrangement(hits, W, KeyOrder(EngineKey(db, ResolvedSort(o))))
  BY EngineHitsAre DEF EngineHitsOf
<1>5. Len(hits) = Cardinality(W)
  BY <1>4, FoundCounts
<1>6. RowsTell(tags, db.data, W, o)
  <2>1. CASE o.facets # "wanted"
    <3>1. tags = <<>>
      BY <2>1
    <3>2. DOMAIN <<>> = {}
      <4>1. <<>> \in Seq({}) /\ Len(<<>>) = 0
        BY EmptySeq
      <4>2. DOMAIN <<>> = 1..0
        BY <4>1, LenProperties
      <4> QED
        BY <4>2
    <3> HIDE DEF tags
    <3> QED
      BY <3>1, <3>2 DEF RowsTell
  <2>2. CASE o.facets = "wanted" /\ Filtered(o)
    <3>1. tags = RankLift(db, Counts(found), o.tags, Len(hits))
      BY <2>2
    <3> HIDE DEF tags, hits, W
    <3>2. RowsTell(RankLift(db, Counts(found), o.tags, Len(hits)), db.data, W, o)
      BY <1>4, LiftTells
    <3> QED
      BY <3>1, <3>2
  <2>3. CASE o.facets = "wanted" /\ ~Filtered(o)
    <3>1. tags = TopTags(Counts(db.data))
      BY <2>3 DEF TagCounts
    <3>2. W = 1..Len(db.data) /\ DOMAIN db.data = 1..Len(db.data)
      BY <2>3, NothingFiltered, DatasetIs
    <3>3. ASSUME NEW t \in Slugs
          PROVE  Counts(db.data)[t] = Cardinality(Carrying(db.data, W, t)) /\ Counts(db.data)[t] \in Nat
      BY <3>2, CountOfIs DEF Counts, CountOf, Carrying
    <3>4. Counts(db.data) \in [Slugs -> Nat]
      BY <3>3 DEF Counts
    <3> HIDE DEF tags, W
    <3>5. ASSUME NEW k \in DOMAIN tags
          PROVE  /\ tags[k].slug \in Slugs /\ tags[k].count = Counts(db.data)[tags[k].slug]
                 /\ tags[k].count >= 1
      BY <3>1, <3>4, TopRows
    <3> QED
      BY <2>3, <3>3, <3>5 DEF RowsTell
  <2> QED
    BY <2>1, <2>2, <2>3
<1>7. ASSUME ~Unlike(db, o)
      PROVE  /\ SearchEngine(db, o).total = Cardinality(W)
             /\ SearchEngine(db, o).tags = tags
             /\ SearchEngine(db, o).assets = Slice(Ids(found), Start(o.page), PageLimit(o))
  <2> HIDE DEF tags
  <2> QED
    BY <1>3, <1>5, <1>7
<1> QED
  BY <1>2, <1>6, <1>7

\* A request that is served has a page in range.
LEMMA RequestStart ==
    ASSUME NEW o, IsRequest(o)
    PROVE  /\ o.page \in Nat /\ o.page >= 1 /\ o.page <= MaxPage + 1
           /\ Start(o.page) = (o.page - 1) * PageSize /\ Start(o.page) \in Nat /\ Start(o.page) <= MaxInt
           /\ ~(Start(o.page) < 0)
<1>1. o.page \in 1..MaxPage + 1
  BY DEF IsRequest
<1>2. o.page \in Nat /\ o.page >= 1 /\ o.page <= MaxPage + 1
  BY <1>1, SizesAre
<1> QED
  BY <1>2, StartIs

\* What is served of a request is one.
LEMMA ServableIs ==
    ASSUME NEW db, NEW o, IsRequest(o), NEW s, s = Servable(db, o)
    PROVE  /\ IsRequest(s)
           /\ s.query = o.query /\ s.tags = o.tags /\ s.not = o.not /\ s.author = o.author
           /\ s.like = o.like /\ s.minFirst = o.minFirst /\ s.limit = o.limit
           /\ s.facets = o.facets /\ s.page = o.page
           /\ s.sort = IF o.sort = "recent" /\ ~HasRecency(db) THEN "popular" ELSE o.sort
           /\ s.price = IF o.price \in DOMAIN Ceiling /\ ~HasPriceBands(db) THEN None ELSE o.price
           /\ Servable(db, s) = s
<1> DEFINE sort == IF o.sort = "recent" /\ ~HasRecency(db) THEN "popular" ELSE o.sort
           price == IF o.price \in DOMAIN Ceiling /\ ~HasPriceBands(db) THEN None ELSE o.price
<1>1. s = [o EXCEPT !.sort = sort, !.price = price]
  BY DEF Servable, IsRequest
<1>2. price \in PriceFilters \cup {None}
  <2>1. o.price \in PriceFilters \cup {None}
    BY DEF IsRequest
  <2> QED
    BY Zenon, <2>1
<1>3. sort # "recent" \/ HasRecency(db)
  OBVIOUS
<1>4. price \notin DOMAIN Ceiling \/ HasPriceBands(db)
  BY Bands
<1>9. sort = (IF o.sort = "recent" /\ ~HasRecency(db) THEN "popular" ELSE o.sort)
      /\ price = (IF o.price \in DOMAIN Ceiling /\ ~HasPriceBands(db) THEN None ELSE o.price)
  OBVIOUS
<1> HIDE DEF sort, price
<1>5. s.sort = sort /\ s.price = price
  BY <1>1 DEF IsRequest
<1>6. IsRequest(s)
  BY <1>1, <1>2 DEF IsRequest
<1>7. Servable(db, s) = s
  BY <1>3, <1>4, <1>5, <1>6 DEF Servable, IsRequest
<1> QED
  BY <1>1, <1>5, <1>6, <1>7, <1>9 DEF IsRequest

-----------------------------------------------------------------------------
(* What a request is answered with, whoever answers it.                    *)

\* The list that is searched, and the price each of it has there.
Listed(db, s) == IF s.query = NoQuery THEN db.data ELSE db.docs
ListedUSD(db, s, i) == IF s.query = NoQuery THEN PriceUSD(db.data[i], db.rates) ELSE DocUSD(db, i)

\* The places of what matches.
Admitted(db, s, mode) ==
    {i \in 1..Len(Listed(db, s)) :
        IndexMatches(s, LikeTags(db, s), Listed(db, s)[i], ListedUSD(db, s, i), mode)}
ModeOf(db, s) == IF s.query = NoQuery THEN "all" ELSE Mode(db, s)
Answers(db, s) == Admitted(db, s, ModeOf(db, s))

\* With words to look for, the index answers.
LEMMA AdmittedByIndex ==
    ASSUME NEW db, IsDataset(db), NEW s, s.query # NoQuery, NEW mode
    PROVE  Admitted(db, s, mode) = MatchingDocs(db, s, mode) /\ Listed(db, s) = db.docs
BY DatasetIs DEF Admitted, MatchingDocs, Listed, ListedUSD

\* Without, the engine.
LEMMA AnswersByEngine ==
    ASSUME NEW db, IsDataset(db), NEW s, IsRequest(s), s.query = NoQuery
    PROVE  Answers(db, s) = EngineWanted(db, s) /\ Listed(db, s) = db.data
<1>1. Answers(db, s) = Admitted(db, s, "all")
  BY DEF Answers, ModeOf
<1>2. Admitted(db, s, "all") =
              {i \in 1..Len(db.data) :
                 IndexMatches(s, LikeTags(db, s), db.data[i], PriceUSD(db.data[i], db.rates), "all")}
  BY DEF Admitted, Listed, ListedUSD
<1> QED
  BY <1>1, <1>2, EngineDecidesAsIndex DEF Listed

\* The answers are finitely many places of the list.
LEMMA AnswersAre ==
    ASSUME NEW db, IsDataset(db), NEW s
    PROVE  /\ Answers(db, s) \subseteq 1..Len(Listed(db, s)) /\ IsFiniteSet(Answers(db, s))
           /\ Cardinality(Answers(db, s)) \in Nat
<1>1. Len(Listed(db, s)) \in Nat
  BY DatasetIs DEF Listed
<1>2. Answers(db, s) \subseteq 1..Len(Listed(db, s))
  BY DEF Answers, Admitted
<1> HIDE DEF Answers
<1>3. IsFiniteSet(1..Len(Listed(db, s)))
  BY <1>1, UpToSize
<1>4. IsFiniteSet(Answers(db, s))
  BY <1>2, <1>3, FS_Subset
<1> QED
  BY <1>2, <1>4, FS_CardinalityType

\* The hits of the index.
IndexHitsOf(db, s, mode) == Arranged(MatchingDocs(db, s, mode), IndexOrder(db, s))

\* What the index answers some text with.
LEMMA QueryAnswers ==
    ASSUME NEW db, IsDataset(db), NEW s, IsRequest(s), s.query # NoQuery, NEW from, NEW size,
           NEW facets
    PROVE  LET r == QueryIndex(db, s, from, size, facets)
           IN  /\ r.total = Cardinality(Answers(db, s))
               /\ RowsTell(r.tags, db.docs, Answers(db, s), s)
               /\ facets # "wanted" => r.tags = <<>>
               /\ r.assets = Kept(Slice(Ids(Found(db.docs, IndexHitsOf(db, s, Mode(db, s)))), from, size),
                                  ToSet(Ids(db.data)))
               /\ r = [assets |-> r.assets, total |-> r.total, tags |-> r.tags, matched |-> r.matched]
<1> DEFINE mode == Mode(db, s)
           W == Answers(db, s)
           hits == IndexHitsOf(db, s, mode)
           found == Found(db.docs, hits)
           assets == Kept(Slice(Ids(found), from, size), ToSet(Ids(db.data)))
           tags == CASE facets # "wanted" -> <<>>
                     [] facets = "wanted" /\ Filtered(s) ->
                           RankLift(db, Counts(found), s.tags, Len(hits))
                     [] OTHER -> TopTags(Counts(found))
           matched == IF hits = <<>> THEN "all" ELSE mode
<1>1. Filtered(s)
  BY DEF Filtered
<1>2. QueryIndex(db, s, from, size, facets) =
         [assets |-> assets, total |-> Len(hits), tags |-> tags, matched |-> matched]
  BY DEF QueryIndex, RunQuery, IndexHitsOf, Found
<1>3. W = MatchingDocs(db, s, mode)
  BY AdmittedByIndex DEF Answers, ModeOf
<1>4. IsArrangement(hits, W, IndexOrder(db, s))
  BY <1>3, IndexHitsAre DEF IndexHitsOf
<1>5. Len(hits) = Cardinality(W)
  BY <1>4, FoundCounts
<1>6. RowsTell(tags, db.docs, W, s) /\ (facets # "wanted" => tags = <<>>)
  <2>1. CASE facets # "wanted"
    <3>1. tags = <<>>
      BY <2>1
    <3>2. DOMAIN <<>> = {}
      <4>1. <<>> \in Seq({}) /\ Len(<<>>) = 0
        BY EmptySeq
      <4>2. DOMAIN <<>> = 1..0
        BY <4>1, LenProperties
      <4> QED
        BY <4>2
    <3> HIDE DEF tags
    <3> QED
      BY <3>1, <3>2 DEF RowsTell
  <2>2. CASE facets = "wanted"
    <3>1. tags = RankLift(db, Counts(found), s.tags, Len(hits))
      BY <1>1, <2>2
    <3> HIDE DEF tags, hits, W
    <3>2. RowsTell(RankLift(db, Counts(found), s.tags, Len(hits)), db.docs, W, s)
      BY <1>4, LiftTells
    <3> QED
      BY <2>2, <3>1, <3>2
  <2> QED
    BY <2>1, <2>2
<1> HIDE DEF tags, assets, matched, hits, W
<1>7. LET r == QueryIndex(db, s, from, size, facets)
      IN r.total = Len(hits) /\ r.tags = tags /\ r.assets = assets /\ r.matched = matched
  BY <1>2
<1> QED
  BY <1>2, <1>5, <1>6, <1>7 DEF assets, W, hits

\* Browsing and searching answer a request with as many assets as match, and
\* with a sidebar that tells of them.
LEMMA FindAnswers ==
    ASSUME NEW db, IsDataset(db), NEW o, IsRequest(o), NEW s, s = Servable(db, o)
    PROVE  /\ Unlike(db, s) => Find(db, o) = Empty
           /\ ~Unlike(db, s) => /\ Find(db, o).total = Cardinality(Answers(db, s))
                                /\ RowsTell(Find(db, o).tags, Listed(db, s), Answers(db, s), s)
<1>1. IsRequest(s)
  BY ServableIs
<1>2. Find(db, o) = IF ~Filtered(s) /\ ResolvedSort(s) = "popular" THEN Browse(db, s.page)
                    ELSE IF s.query = NoQuery THEN SearchEngine(db, s)
                    ELSE SearchIndex(db, s)
  BY DEF Find
<1>3. ~(Start(s.page) < 0)
  BY <1>1, RequestStart
<1>4. CASE ~Filtered(s) /\ ResolvedSort(s) = "popular"
  <2>1. Answers(db, s) = 1..Len(db.data) /\ Listed(db, s) = db.data /\ ~Unlike(db, s)
    BY <1>1, <1>4, NothingFiltered, AnswersByEngine
  <2>2. Find(db, o).total = Len(db.data) /\ Find(db, o).tags = TagCounts(db)
    BY <1>2, <1>4 DEF Browse
  <2>3. Len(db.data) \in Nat /\ DOMAIN db.data = 1..Len(db.data)
    BY DatasetIs
  <2>4. Cardinality(1..Len(db.data)) = Len(db.data)
    BY <2>3, UpToSize
  <2>5. ASSUME NEW t \in Slugs
        PROVE  Counts(db.data)[t] = Cardinality(Carrying(db.data, 1..Len(db.data), t))
               /\ Counts(db.data)[t] \in Nat
    BY <2>3, CountOfIs DEF Counts, CountOf, Carrying
  <2>6. Counts(db.data) \in [Slugs -> Nat]
    BY <2>5 DEF Counts
  <2> DEFINE tags == TopTags(Counts(db.data))
  <2> HIDE DEF tags
  <2>7. ASSUME NEW k \in DOMAIN tags
        PROVE  /\ tags[k].slug \in Slugs /\ tags[k].count = Counts(db.data)[tags[k].slug]
               /\ tags[k].count >= 1
    BY <2>6, TopRows DEF tags
  <2>8. RowsTell(tags, db.data, 1..Len(db.data), s)
    BY <1>4, <2>5, <2>7 DEF RowsTell
  <2> QED
    BY <2>1, <2>2, <2>4, <2>8 DEF tags, TagCounts
<1>5. CASE s.query = NoQuery /\ ~(~Filtered(s) /\ ResolvedSort(s) = "popular")
  BY <1>1, <1>2, <1>5, EngineAnswers, AnswersByEngine
<1>6. CASE s.query # NoQuery
  <2>0. Find(db, o) = SearchIndex(db, s)
    BY <1>2, <1>6 DEF Filtered
  <2>1. Listed(db, s) = db.docs
    BY <1>6 DEF Listed
  <2>2. CASE Unlike(db, s)
    BY <1>3, <2>0, <2>2 DEF SearchIndex, SearchUncached
  <2>3. CASE ~Unlike(db, s) /\ InHitCache(s)
    <3> DEFINE size == HitCacheDepth * PageSize
               r == QueryIndex(db, s, 0, size, "wanted")
               tags == IF s.facets = "wanted" THEN r.tags ELSE <<>>
               assets == Slice(r.assets, Start(s.page), PageLimit(s))
    <3>1. r.total = Cardinality(Answers(db, s)) /\ RowsTell(r.tags, db.docs, Answers(db, s), s)
          /\ r = [assets |-> r.assets, total |-> r.total, tags |-> r.tags, matched |-> r.matched]
      BY <1>1, <1>6, QueryAnswers
    <3>8. Start(s.page) >= 0
      BY <1>1, RequestStart
    <3>9. SearchIndex(db, s) = [r EXCEPT !.assets = Slice(@, Start(s.page), PageLimit(s)),
                                         !.tags = IF s.facets = "wanted" THEN @ ELSE <<>>]
      BY Zenon, <2>3, <3>8 DEF SearchIndex
    <3> HIDE DEF r
    <3>2. SearchIndex(db, s) = [r EXCEPT !.assets = assets, !.tags = tags]
      BY <3>1, <3>9
    <3> HIDE DEF assets, tags
    <3>3. SearchIndex(db, s).total = r.total /\ SearchIndex(db, s).tags = tags
      BY <3>1, <3>2
    <3>4. RowsTell(<<>>, db.docs, Answers(db, s), s)
      <4>1. <<>> \in Seq({}) /\ Len(<<>>) = 0
        BY EmptySeq
      <4>2. DOMAIN <<>> = 1..0
        BY <4>1, LenProperties
      <4> QED
        BY <4>2 DEF RowsTell
    <3>5. RowsTell(tags, db.docs, Answers(db, s), s)
      BY <3>1, <3>4 DEF tags
    <3> QED
      BY <2>0, <2>1, <2>3, <3>1, <3>3, <3>5
  <2>4. CASE ~Unlike(db, s) /\ ~InHitCache(s)
    <3>1. SearchIndex(db, s) = QueryIndex(db, s, Start(s.page), PageLimit(s), s.facets)
      BY <1>3, <2>4 DEF SearchIndex, SearchUncached
    <3> QED
      BY <1>1, <1>6, <2>0, <2>1, <2>4, <3>1, QueryAnswers
  <2> QED
    BY <2>2, <2>3, <2>4
<1> QED
  BY <1>4, <1>5, <1>6

-----------------------------------------------------------------------------
(* The lists of tags in filters and addresses.                             *)

\* Tags are finitely many numbers, however few of them.
LEMMA SlugsAre ==
    ASSUME NEW S, S \subseteq Slugs
    PROVE  S \subseteq Nat /\ S \subseteq Int /\ IsFiniteSet(S)
<1>1. Slugs \subseteq Nat /\ IsFiniteSet(Slugs)
  BY SizesAre
<1>2. S \subseteq Nat
  BY <1>1
<1>3. IsFiniteSet(S)
  BY <1>1, FS_Subset
<1> QED
  BY <1>2, <1>3

\* A list of tags as the filters keep it: ascending, and not too long.
IsTagList(list, limit) ==
    /\ Climbs(list, ToSet(list)) /\ ToSet(list) \subseteq Slugs /\ Len(list) <= limit

\* A list that climbs through a set of numbers is the set, in its size.
LEMMA ClimbIs ==
    ASSUME NEW S, S \subseteq Int, NEW s, Climbs(s, S)
    PROVE  /\ IsList(s) /\ ToSet(s) = S /\ IsFiniteSet(S) /\ Len(s) = Cardinality(S) /\ Len(s) \in Nat
           /\ DOMAIN s = 1..Len(s) /\ \A k \in 1..Len(s) : s[k] \in S
           /\ s = Ascending(S)
<1>1. /\ s \in Seq(S) /\ \A x \in S : \E k \in 1..Len(s) : s[k] = x
      /\ \A k, l \in 1..Len(s) : k < l => s[k] < s[l]
  BY DEF Climbs
<1>2. /\ IsList(s) /\ Len(s) \in Nat /\ DOMAIN s = 1..Len(s) /\ \A k \in 1..Len(s) : s[k] \in S
  BY <1>1, SeqIsList
<1>3. ToSet(s) = S
  <2>1. \A x : x \in ToSet(s) <=> x \in S
    BY <1>1, <1>2, ListIs
  <2> QED
    BY <2>1
<1> DEFINE D == 1..Len(s)
           f == [k \in D |-> s[k]]
<1>4. f \in [D -> S] /\ \A x \in S : \E k \in D : f[k] = x
  BY <1>1, <1>2
<1>5. ASSUME NEW k \in D, NEW l \in D, f[k] = f[l]
      PROVE  k = l
  <2>1. s[k] = s[l] /\ s[k] \in S /\ s[l] \in S
    BY <1>2, <1>5
  <2>2. s[k] \in Int
    BY <2>1
  <2>3. k \in Int /\ l \in Int
    BY <1>2
  <2> QED
    BY <1>1, <2>1, <2>2, <2>3
<1>6. IsFiniteSet(D) /\ Cardinality(D) = Len(s)
  BY <1>2, UpToSize
<1> HIDE DEF f, D
<1>7. IsFiniteSet(S) /\ Cardinality(S) = Cardinality(D)
  BY <1>4, <1>5, <1>6, SameSize
<1>8. s = Ascending(S)
  BY <1>7, AscendingIs
<1> QED
  BY <1>2, <1>3, <1>6, <1>7, <1>8

\* The one list of some tags.
LEMMA TagListIs ==
    ASSUME NEW list, NEW limit, IsTagList(list, limit)
    PROVE  /\ IsList(list) /\ Len(list) \in Nat /\ DOMAIN list = 1..Len(list)
           /\ list \in Seq(Nat) /\ \A k \in 1..Len(list) : list[k] \in Slugs
           /\ IsFiniteSet(ToSet(list)) /\ Cardinality(ToSet(list)) = Len(list)
           /\ list = Ascending(ToSet(list))
<1>1. ToSet(list) \subseteq Nat /\ ToSet(list) \subseteq Slugs /\ ToSet(list) \subseteq Int
  BY SlugsAre DEF IsTagList
<1>2. Climbs(list, ToSet(list))
  BY DEF IsTagList
<1>3. /\ IsList(list) /\ IsFiniteSet(ToSet(list)) /\ Len(list) = Cardinality(ToSet(list)) /\ Len(list) \in Nat
      /\ DOMAIN list = 1..Len(list) /\ (\A k \in 1..Len(list) : list[k] \in ToSet(list))
      /\ list = Ascending(ToSet(list))
  BY <1>1, <1>2, ClimbIs
<1>4. \A k \in 1..Len(list) : list[k] \in Nat
  BY <1>1, <1>3
<1>5. list \in Seq(Nat)
  BY <1>3, <1>4, ListInto
<1> QED
  BY <1>1, <1>3, <1>5

\* Some tags in ascending order are such a list.
LEMMA AscendingTags ==
    ASSUME NEW S, S \subseteq Slugs, NEW limit \in Nat, Cardinality(S) <= limit
    PROVE  IsTagList(Ascending(S), limit) /\ ToSet(Ascending(S)) = S
<1>1. S \subseteq Int /\ IsFiniteSet(S)
  BY SlugsAre
<1>2. Climbs(Ascending(S), S) /\ Len(Ascending(S)) = Cardinality(S)
  BY <1>1, AscendingIs
<1>3. ToSet(Ascending(S)) = S
  BY <1>1, <1>2, ClimbIs
<1> QED
  BY <1>2, <1>3 DEF IsTagList

\* No tags are one.
LEMMA NoTags ==
    ASSUME NEW limit \in Nat
    PROVE  IsTagList(<<>>, limit) /\ ToSet(<<>>) = {} /\ Len(<<>>) = 0
<1>1. <<>> \in Seq({}) /\ Len(<<>>) = 0
  BY EmptySeq
<1>2. IsList(<<>>) /\ DOMAIN <<>> = 1..0
  BY <1>1, SeqIsList
<1>3. \A x : x \notin ToSet(<<>>)
  BY <1>1, <1>2, ListIs
<1>4. Climbs(<<>>, {})
  BY <1>1, <1>2 DEF Climbs
<1> QED
  BY <1>1, <1>3, <1>4 DEF IsTagList

\* A tag is not on a list without it, and the list without it is one.
LEMMA WithoutIs ==
    ASSUME NEW list, NEW limit \in Nat, IsTagList(list, limit), NEW t
    PROVE  /\ IsTagList(Without(list, t), limit) /\ ToSet(Without(list, t)) = ToSet(list) \ {t}
           /\ t \notin ToSet(list) => Without(list, t) = list
<1> DEFINE S == ToSet(list) \ {t}
           kept == Kept(list, S)
<1>1. kept = Without(list, t)
  BY DEF Without
<1>2. IsList(list) /\ Len(list) \in Nat /\ \A k \in 1..Len(list) : list[k] \in Slugs
  BY TagListIs
<1>3. /\ Len(kept) \in Nat /\ Len(kept) <= Len(list) /\ IsList(kept)
      /\ (\A k \in 1..Len(kept) : kept[k] \in S)
      /\ (\A i \in 1..Len(list) : list[i] \in S => \E k \in 1..Len(kept) : kept[k] = list[i])
      /\ \A k, l \in 1..Len(kept) : k < l => \E i, j \in 1..Len(list) : i < j /\ kept[k] = list[i] /\ kept[l] = list[j]
  <2> HIDE DEF S
  <2> QED
    BY <1>2, KeptHas, KeptIs
<1>4. \A i, j \in 1..Len(list) : i < j => list[i] < list[j]
  BY DEF IsTagList, Climbs
<1>5. \A x \in S : \E i \in 1..Len(list) : list[i] = x
  BY DEF IsTagList, Climbs
<1>6. t \notin ToSet(list) => kept = list
  <2>1. ASSUME t \notin ToSet(list), NEW i \in 1..Len(list)
        PROVE  list[i] \in S
    BY <1>2, <2>1, ListIs
  <2> HIDE DEF S
  <2> QED
    BY <1>2, <2>1, KeptAll
<1> HIDE DEF kept
<1>7. \A k, l \in 1..Len(kept) : k < l => kept[k] < kept[l]
  BY <1>3, <1>4
<1>8. kept \in Seq(S)
  <2> HIDE DEF S
  <2> QED
    BY <1>3, ListInto
<1>9. Climbs(kept, S)
  <2>1. \A x \in S : \E k \in 1..Len(kept) : kept[k] = x
    BY <1>3, <1>5
  <2> HIDE DEF S
  <2> QED
    BY <1>7, <1>8, <2>1 DEF Climbs
<1>10. S \subseteq Int /\ S \subseteq Slugs
  <2>1. S \subseteq Slugs
    BY DEF IsTagList
  <2> QED
    BY <2>1, SlugsAre
<1>11. ToSet(kept) = S
  <2> HIDE DEF S
  <2> QED
    BY <1>9, <1>10, ClimbIs
<1>12. Len(list) <= limit
  BY DEF IsTagList
<1>13. Len(kept) <= limit
  BY <1>2, <1>3, <1>12
<1> QED
  BY <1>1, <1>6, <1>9, <1>10, <1>11, <1>13 DEF IsTagList

\* The smallest of some numbers.
LEMMA MinIs ==
    ASSUME NEW T, T \subseteq Nat, T # {}
    PROVE  Min(T) \in T /\ \A y \in T : Min(T) <= y
<1>1. \E x \in T : \A y \in T : x <= y
  BY LeastNat
<1> QED
  BY <1>1 DEF Min

\* A list of tags with another one in its place.
LEMMA InsertedIs ==
    ASSUME NEW list, NEW limit \in Nat, IsTagList(list, limit), NEW t \in Slugs, t \notin ToSet(list),
           NEW room \in Nat, Len(list) < room
    PROVE  /\ IsTagList(InsertSorted(list, t), room) /\ ToSet(InsertSorted(list, t)) = ToSet(list) \cup {t}
           /\ Len(InsertSorted(list, t)) = Len(list) + 1
<1> DEFINE n == Len(list)
           larger == {i \in DOMAIN list : t < list[i]}
           k == Min(larger \cup {n + 1})
           head == SubSeq(list, 1, k - 1)
           tail == SubSeq(list, k, n)
           s == InsertSorted(list, t)
           all == ToSet(list) \cup {t}
<1>1. /\ IsList(list) /\ n \in Nat /\ DOMAIN list = 1..n /\ (\A i \in 1..n : list[i] \in Slugs)
      /\ \A i \in 1..n : list[i] \in ToSet(list)
  BY TagListIs, ListIs
<1>2. s = head \o <<t>> \o tail
  BY DEF InsertSorted
<1>3. /\ k \in 1..n + 1 /\ (\A i \in 1..n : i < k => ~(t < list[i])) /\ (k <= n => t < list[k])
  <2>1. larger \cup {n + 1} \subseteq Nat /\ larger \cup {n + 1} # {} /\ larger \subseteq 1..n
    BY <1>1
  <2>2. k \in larger \cup {n + 1} /\ \A i \in larger \cup {n + 1} : k <= i
    <3> HIDE DEF larger
    <3> QED
      BY <2>1, MinIs
  <2>3. k \in 1..n + 1
    BY <1>1, <2>1, <2>2
  <2>4. ASSUME NEW i \in 1..n, i < k
        PROVE  ~(t < list[i])
    <3>1. ~(k <= i)
      BY <1>1, <2>3, <2>4
    <3>2. i \notin larger
      BY <2>2, <3>1
    <3> QED
      BY <1>1, <3>2
  <2>5. ASSUME k <= n
        PROVE  t < list[k]
    <3>1. k # n + 1
      BY <1>1, <2>3, <2>5
    <3>2. k \in larger
      BY <2>2, <3>1
    <3> QED
      BY <3>2
  <2> QED
    BY <2>3, <2>4, <2>5
<1> HIDE DEF k
<1>4. /\ IsList(head) /\ Len(head) = k - 1 /\ (\A i \in 1..k - 1 : head[i] = list[i]) /\ head \in Seq(ToSet(list))
  <2> DEFINE b == k - 1
  <2>1. b \in Nat /\ b <= n
    BY <1>1, <1>3
  <2>2. /\ IsList(SubSeq(list, 0 + 1, b)) /\ Len(SubSeq(list, 0 + 1, b)) = (IF 0 < b THEN b - 0 ELSE 0)
        /\ (\A i \in 1..Len(SubSeq(list, 0 + 1, b)) : SubSeq(list, 0 + 1, b)[i] = list[0 + i] /\ 0 + i \in 1..b)
        /\ SubSeq(list, 0 + 1, b) \in Seq(ToSet(list))
    <3> HIDE DEF b
    <3> QED
      BY <1>1, <2>1, CutIs
  <2>3. SubSeq(list, 0 + 1, b) = head
    BY ONLY 0 + 1 = 1
  <2>4. Len(head) = b
    BY <2>1, <2>2, <2>3
  <2>5. ASSUME NEW i \in 1..b
        PROVE  head[i] = list[i]
    <3>1. 0 + i = i
      BY <2>1
    <3> QED
      BY <2>2, <2>3, <2>4, <3>1
  <2> QED
    BY <2>2, <2>3, <2>4, <2>5
<1>5. /\ IsList(tail) /\ Len(tail) = n + 1 - k /\ (\A i \in 1..n + 1 - k : tail[i] = list[k - 1 + i])
      /\ tail \in Seq(ToSet(list))
  <2> DEFINE a == k - 1
  <2>1. a \in Nat /\ a <= n /\ k = a + 1
    BY <1>1, <1>3
  <2>2. /\ IsList(SubSeq(list, a + 1, n)) /\ Len(SubSeq(list, a + 1, n)) = (IF a < n THEN n - a ELSE 0)
        /\ (\A i \in 1..Len(SubSeq(list, a + 1, n)) : SubSeq(list, a + 1, n)[i] = list[a + i] /\ a + i \in 1..n)
        /\ SubSeq(list, a + 1, n) \in Seq(ToSet(list))
    <3> HIDE DEF a, n
    <3>1. n <= Len(list)
      BY <1>1 DEF n
    <3> QED
      BY <1>1, <2>1, <3>1, CutIs
  <2>3. tail = SubSeq(list, a + 1, n)
    BY <2>1
  <2>4. Len(tail) = n + 1 - k
    <3> HIDE DEF tail, a, n
    <3> QED
      BY <1>1, <2>1, <2>2, <2>3
  <2> HIDE DEF tail, n
  <2> QED
    BY <2>2, <2>3, <2>4
<1> HIDE DEF head, tail
<1>6. /\ s \in Seq(all) /\ Len(s) = n + 1
      /\ \A i \in 1..n + 1 : s[i] = IF i < k THEN list[i] ELSE IF i = k THEN t ELSE list[i - 1]
  <2>1. head \in Seq(all) /\ tail \in Seq(all) /\ <<t>> \in Seq(all) /\ Len(<<t>>) = 1 /\ <<t>>[1] = t
    <3>1. ToSet(list) \subseteq all
      OBVIOUS
    <3>2. \A i \in 1..Len(head) : head[i] \in all
      BY <1>4, <3>1, SeqIsList
    <3>3. \A i \in 1..Len(tail) : tail[i] \in all
      BY <1>5, <3>1, SeqIsList
    <3>4. t \in all
      OBVIOUS
    <3> HIDE DEF all
    <3> QED
      BY <1>4, <1>5, <3>2, <3>3, <3>4, ListInto
  <2> HIDE DEF all, s
  <2> DEFINE front == head \o <<t>>
  <2>2. /\ front \in Seq(all) /\ Len(front) = k
        /\ \A i \in 1..k : front[i] = IF i < k THEN list[i] ELSE t
    <3>1. front \in Seq(all) /\ Len(front) = Len(head) + 1
          /\ \A i \in 1..Len(head) + 1 : front[i] = IF i <= Len(head) THEN head[i] ELSE <<t>>[i - Len(head)]
      BY <2>1, ConcatProperties
    <3>2. Len(front) = k
      BY <1>1, <1>3, <1>4, <3>1
    <3>3. ASSUME NEW i \in 1..k
          PROVE  front[i] = IF i < k THEN list[i] ELSE t
      <4>1. CASE i < k
        <5>1. i \in 1..k - 1 /\ i <= Len(head) /\ i \in 1..Len(head) + 1
          BY <1>1, <1>3, <1>4, <4>1
        <5> QED
          BY <1>4, <3>1, <4>1, <5>1
      <4>2. CASE i = k
        <5>1. i \in 1..Len(head) + 1 /\ ~(i <= Len(head)) /\ i - Len(head) = 1
          BY <1>1, <1>3, <1>4, <4>2
        <5>2. ~(i < k)
          BY <1>1, <1>3, <4>2
        <5> HIDE DEF front
        <5>3. front[i] = <<t>>[i - Len(head)]
          BY <3>1, <5>1
        <5>4. front[i] = <<t>>[1]
          BY <5>1, <5>3
        <5> QED
          BY <2>1, <5>2, <5>4
      <4>3. i < k \/ i = k
        BY <1>1, <1>3
      <4> QED
        BY ONLY <4>1, <4>2, <4>3
    <3> QED
      BY <3>1, <3>2, <3>3
  <2> HIDE DEF front
  <2>3. s = front \o tail
    BY <1>2 DEF front
  <2>4. /\ s \in Seq(all) /\ Len(s) = Len(front) + Len(tail)
        /\ \A i \in 1..Len(front) + Len(tail) : s[i] = IF i <= Len(front) THEN front[i] ELSE tail[i - Len(front)]
    BY <2>1, <2>2, <2>3, ConcatProperties
  <2>5. Len(front) + Len(tail) = n + 1
    BY <1>1, <1>3, <1>5, <2>2
  <2>6. ASSUME NEW i \in 1..n + 1
        PROVE  s[i] = IF i < k THEN list[i] ELSE IF i = k THEN t ELSE list[i - 1]
    <3>1. CASE i <= k
      <4>1. i \in 1..k /\ (i < k \/ i = k)
        BY <1>1, <1>3, <3>1
      <4>2. s[i] = front[i]
        BY <2>2, <2>4, <2>5, <3>1
      <4> QED
        BY <2>2, <4>1, <4>2
    <3>2. CASE i > k
      <4>1. i - k \in 1..n + 1 - k /\ k - 1 + (i - k) = i - 1 /\ ~(i <= k) /\ ~(i < k) /\ i # k
        BY <1>1, <1>3, <3>2
      <4>2. s[i] = tail[i - k]
        BY <2>2, <2>4, <2>5, <4>1
      <4>3. tail[i - k] = list[k - 1 + (i - k)]
        BY <1>5, <4>1
      <4> QED
        BY <4>1, <4>2, <4>3
    <3> QED
      BY <1>1, <1>3, <3>1, <3>2
  <2> QED
    BY <2>4, <2>5, <2>6
<1> HIDE DEF s, all
<1>7. \A i, j \in 1..n : i < j => list[i] < list[j]
  BY DEF IsTagList, Climbs
<1>8. \A i \in 1..n : i < k => list[i] < t
  <2>1. ASSUME NEW i \in 1..n, i < k
        PROVE  list[i] < t
    <3>1. list[i] # t /\ ~(t < list[i])
      BY <1>1, <1>3, <2>1
    <3>2. list[i] \in Int /\ t \in Int
      BY <1>1, SlugsAre
    <3> QED
      BY <3>1, <3>2
  <2> QED
    BY <2>1
<1>9. \A i \in 1..n : k <= i => t < list[i]
  <2>1. ASSUME NEW i \in 1..n, k <= i
        PROVE  t < list[i]
    <3>1. k \in 1..n /\ k <= n /\ (k = i \/ k < i)
      BY <1>1, <1>3, <2>1
    <3>2. t < list[k] /\ (k < i => list[k] < list[i])
      BY <1>3, <1>7, <3>1
    <3>3. list[i] \in Int /\ t \in Int /\ list[k] \in Int
      BY <1>1, <3>1, SlugsAre
    <3> QED
      BY <3>1, <3>2, <3>3
  <2> QED
    BY <2>1
<1>10. ASSUME NEW i \in 1..n + 1, NEW j \in 1..n + 1, i < j
       PROVE  s[i] < s[j]
  <2>1. CASE j < k
    <3>1. i < k /\ i \in 1..n /\ j \in 1..n
      BY <1>1, <1>3, <1>10, <2>1
    <3> QED
      BY <1>6, <1>7, <1>10, <2>1, <3>1
  <2>2. CASE j = k
    <3>1. i < k /\ i \in 1..n /\ ~(j < k)
      BY <1>1, <1>3, <1>10, <2>2
    <3> QED
      BY <1>6, <1>8, <2>2, <3>1
  <2>3. CASE j > k /\ i < k
    <3>1. i \in 1..n /\ j - 1 \in 1..n /\ i < j - 1 /\ ~(j < k) /\ j # k
      BY <1>1, <1>3, <1>10, <2>3
    <3> QED
      BY <1>6, <1>7, <2>3, <3>1
  <2>4. CASE j > k /\ i = k
    <3>1. j - 1 \in 1..n /\ k <= j - 1 /\ ~(j < k) /\ j # k /\ ~(i < k)
      BY <1>1, <1>3, <1>10, <2>4
    <3> QED
      BY <1>6, <1>9, <2>4, <3>1
  <2>5. CASE j > k /\ i > k
    <3>1. j - 1 \in 1..n /\ i - 1 \in 1..n /\ i - 1 < j - 1 /\ ~(j < k) /\ j # k /\ ~(i < k) /\ i # k
      BY <1>1, <1>3, <1>10, <2>5
    <3> QED
      BY <1>6, <1>7, <3>1
  <2> QED
    BY <1>1, <1>3, <2>1, <2>2, <2>3, <2>4, <2>5
<1>11. ASSUME NEW x \in all
       PROVE  \E i \in 1..n + 1 : s[i] = x
  <2>1. CASE x = t
    <3>1. k \in 1..n + 1 /\ ~(k < k)
      BY <1>1, <1>3
    <3> QED
      BY <1>6, <2>1, <3>1
  <2>2. CASE x \in ToSet(list)
    <3>1. PICK i \in 1..n : list[i] = x
      BY <1>1, <2>2, ListIs
    <3>2. CASE i < k
      <4>1. i \in 1..n + 1
        BY <1>1
      <4> QED
        BY <1>6, <3>1, <3>2, <4>1
    <3>3. CASE k <= i
      <4>1. i + 1 \in 1..n + 1 /\ ~(i + 1 < k) /\ i + 1 # k /\ (i + 1) - 1 = i
        BY <1>1, <1>3, <3>3
      <4> QED
        BY <1>6, <3>1, <4>1
    <3> QED
      BY <1>1, <1>3, <3>2, <3>3
  <2> QED
    BY <2>1, <2>2 DEF all
<1>12. Climbs(s, all)
  BY <1>6, <1>10, <1>11 DEF Climbs
<1>13. all \subseteq Slugs
  BY DEF all, IsTagList
<1>14. ToSet(s) = all
  BY <1>12, <1>13, SlugsAre, ClimbIs
<1>15. n + 1 <= room
  BY <1>1
<1> QED
  BY <1>6, <1>12, <1>13, <1>14, <1>15 DEF IsTagList, s, all

\* No more tags are read than are allowed.
LEMMA TakenIs ==
    ASSUME NEW list \in Seq(Nat), NEW limit \in Nat
    PROVE  Taken(list, limit) \subseteq Slugs /\ Cardinality(Taken(list, limit)) <= limit
<1> DEFINE n == Len(list)
           Before(i) == {list[k] : k \in 1..i - 1} \cap Slugs
           J == {j \in DOMAIN list : list[j] \in Slugs /\ Cardinality(Before(j)) < limit}
           taken == Taken(list, limit)
           Bounds == {x \in Nat : \A j \in J : j <= x}
<1>1. n \in Nat /\ DOMAIN list = 1..n /\ J \subseteq 1..n
  BY SeqIsList
<1>2. taken = {list[i] : i \in J}
  BY DEF Taken
<1>3. taken \subseteq Slugs
  BY <1>2
<1>4. n \in Bounds
  BY <1>1
<1>5. PICK m \in Bounds : \A x \in Bounds : m <= x
  <2>1. Bounds \subseteq Nat /\ Bounds # {}
    BY <1>4
  <2> HIDE DEF Bounds
  <2> QED
    BY <2>1, LeastNat
<1>6. m \in Nat /\ \A j \in J : j <= m
  BY <1>5
<1>7. CASE J = {}
  <2>1. taken = {}
    BY <1>2, <1>7
  <2>2. Cardinality(taken) = 0
    BY <2>1, FS_EmptySet
  <2> HIDE DEF taken
  <2> QED
    BY <1>3, <2>2 DEF taken
<1>8. CASE J # {}
  <2>1. m \in J
    <3>1. SUFFICES ASSUME m \notin J
                   PROVE  FALSE
      OBVIOUS
    <3>2. PICK j \in J : TRUE
      BY <1>8
    <3>3. m >= 1 /\ m - 1 \in Nat
      <4>1. j \in 1..n /\ j <= m
        BY <1>1, <1>6, <3>2
      <4> QED
        BY <1>1, <1>6, <4>1
    <3>4. ASSUME NEW i \in J
          PROVE  i <= m - 1
      <4>1. i <= m /\ i \in 1..n
        BY <1>1, <1>6
      <4>2. i # m
        BY <3>1
      <4> QED
        BY <1>1, <1>6, <4>1, <4>2
    <3>5. m - 1 \in Bounds
      <4> HIDE DEF J
      <4> QED
        BY <3>3, <3>4
    <3>6. m <= m - 1
      BY <1>5, <3>5
    <3> QED
      BY <1>6, <3>6
  <2>2. Cardinality(Before(m)) < limit /\ list[m] \in Slugs
    BY <2>1
  <2>3. ASSUME NEW x \in taken
        PROVE  x \in Before(m) \cup {list[m]}
    <3>1. PICK i \in J : x = list[i]
      BY <1>2
    <3>2. i \in 1..n /\ i <= m /\ list[i] \in Slugs
      BY <1>1, <1>6
    <3>3. CASE i = m
      BY <3>1, <3>3
    <3>4. CASE i # m
      <4>1. i \in 1..m - 1
        BY <1>1, <1>6, <3>2, <3>4
      <4> QED
        BY <3>1, <3>2, <4>1
    <3> QED
      BY <3>3, <3>4
  <2>4. IsFiniteSet(Before(m))
    <3>1. Before(m) \subseteq Slugs
      OBVIOUS
    <3> HIDE DEF Before
    <3> QED
      BY <3>1, SlugsAre
  <2> HIDE DEF Before, taken
  <2>9. Cardinality(Before(m)) \in Nat
    BY <2>4, FS_CardinalityType
  <2>5. /\ IsFiniteSet(Before(m) \cup {list[m]}) /\ Cardinality(Before(m)) \in Nat
        /\ Cardinality(Before(m) \cup {list[m]}) <= Cardinality(Before(m)) + 1
    <3> DEFINE B == Before(m)
               c == Cardinality(B)
               x == list[m]
    <3>1. IsFiniteSet(B) /\ c \in Nat
      BY <2>4, <2>9
    <3> HIDE DEF B, x
    <3>2. IsFiniteSet(B \cup {x}) /\ Cardinality(B \cup {x}) = IF x \in B THEN c ELSE c + 1
      BY <3>1, FS_AddElement
    <3> HIDE DEF c
    <3>3. Cardinality(B \cup {x}) <= c + 1
      BY <3>1, <3>2
    <3> QED
      BY <3>1, <3>2, <3>3 DEF B, c, x
  <2>6. taken \subseteq Before(m) \cup {list[m]}
    BY <2>3
  <2>7. /\ Cardinality(taken) <= Cardinality(Before(m) \cup {list[m]})
        /\ Cardinality(taken) \in Nat /\ Cardinality(Before(m) \cup {list[m]}) \in Nat
    BY <2>5, <2>6, FS_Subset, FS_CardinalityType
  <2> QED
    BY <1>3, <2>2, <2>5, <2>7 DEF taken
<1> QED
  BY <1>7, <1>8

\* A list of tags that is not too long is read as it stands.
LEMMA TakenAll ==
    ASSUME NEW limit \in Nat, NEW list, IsTagList(list, limit)
    PROVE  Taken(list, limit) = ToSet(list)
<1> DEFINE n == Len(list)
           Before(i) == {list[k] : k \in 1..i - 1} \cap Slugs
           S == ToSet(list)
<1>1. /\ IsList(list) /\ n \in Nat /\ DOMAIN list = 1..n /\ (\A i \in 1..n : list[i] \in Slugs)
      /\ IsFiniteSet(S) /\ Cardinality(S) = n
  BY TagListIs
<1>2. \A x : x \in S <=> \E i \in 1..n : list[i] = x
  BY <1>1, ListIs
<1>3. n <= limit /\ \A i, j \in 1..n : i < j => list[i] < list[j]
  BY DEF IsTagList, Climbs
<1> HIDE DEF S
<1>4. ASSUME NEW i \in 1..n
      PROVE  Cardinality(Before(i)) < limit
  <2>1. list[i] \in S
    BY <1>2
  <2>2. ASSUME NEW x \in Before(i)
        PROVE  x \in S \ {list[i]}
    <3>1. PICK k \in 1..i - 1 : x = list[k]
      OBVIOUS
    <3>2. k \in 1..n /\ k < i
      BY <1>1
    <3>3. list[k] < list[i] /\ list[k] \in Int
      BY <1>1, <1>3, <3>2, SlugsAre
    <3>4. list[k] # list[i]
      BY <3>3
    <3> QED
      BY <1>2, <3>1, <3>2, <3>4
  <2>3. IsFiniteSet(S \ {list[i]}) /\ Cardinality(S \ {list[i]}) = n - 1
    BY <1>1, <2>1, FS_RemoveElement
  <2> DEFINE B == Before(i)
             Others == S \ {list[i]}
  <2>4. B \subseteq Others
    BY <2>2
  <2> HIDE DEF B, Others
  <2>5. Cardinality(B) <= Cardinality(Others) /\ Cardinality(B) \in Nat
    BY <2>3, <2>4, FS_Subset, FS_CardinalityType DEF Others
  <2> QED
    BY <1>1, <1>3, <2>3, <2>5 DEF B, Others
<1>5. Taken(list, limit) = {list[i] : i \in 1..n}
  BY <1>1, <1>4 DEF Taken
<1> QED
  BY <1>2, <1>5 DEF S

-----------------------------------------------------------------------------
(* The filters that addresses are read as, and that links are made of.     *)

\* Filters: tags in ascending order, none both required and excluded, values
\* of the enumerations, and relevance only with a query.
IsFilters(f) ==
    /\ f = [query |-> f.query, tags |-> f.tags, not |-> f.not, author |-> f.author,
            price |-> f.price, sort |-> f.sort, like |-> f.like, cur |-> f.cur]
    /\ f.query \in [words : SUBSET STRING, quoted : BOOLEAN] /\ IsFiniteSet(f.query.words)
    /\ IsTagList(f.tags, MaxTags) /\ IsTagList(f.not, MaxNotTags)
    /\ ToSet(f.tags) \cap ToSet(f.not) = {}
    /\ f.price \in PriceFilters \cup {None}
    /\ f.sort \in Sorts \cup {Default} /\ (f.sort = "relevance" => f.query # NoQuery)

\* And a currency there is.
Tidy(f, rates) == IsFilters(f) /\ f.cur \in {Default} \cup DOMAIN rates

\* An address is read as filters.
LEMMA ParseIs ==
    ASSUME NEW u, IsAddress(u), NEW rates
    PROVE  Tidy(Parse(u, rates), rates)
<1> DEFINE excluded == Taken(u.not, MaxNotTags)
           wanted == Taken(u.tags, MaxTags) \ excluded
           f == Parse(u, rates)
<1>1. /\ u.query \in [words : SUBSET STRING, quoted : BOOLEAN] /\ IsFiniteSet(u.query.words)
      /\ u.tags \in Seq(Nat) /\ u.not \in Seq(Nat)
  BY DEF IsAddress
<1>2. MaxTags \in Nat /\ MaxNotTags \in Nat
  BY SizesAre
<1>3. excluded \subseteq Slugs /\ Cardinality(excluded) <= MaxNotTags
  BY <1>1, <1>2, TakenIs
<1>4. /\ Taken(u.tags, MaxTags) \subseteq Slugs /\ Cardinality(Taken(u.tags, MaxTags)) <= MaxTags
  BY <1>1, <1>2, TakenIs
<1> HIDE DEF excluded
<1>5. wanted \subseteq Slugs /\ Cardinality(wanted) <= MaxTags
  <2>1. IsFiniteSet(Taken(u.tags, MaxTags))
    BY <1>4, SlugsAre
  <2>2. Cardinality(wanted) <= Cardinality(Taken(u.tags, MaxTags)) /\ Cardinality(wanted) \in Nat
        /\ Cardinality(Taken(u.tags, MaxTags)) \in Nat
    BY <2>1, FS_Subset, FS_CardinalityType
  <2> QED
    BY <1>2, <1>4, <2>2
<1>6. wanted \cap excluded = {}
  OBVIOUS
<1> HIDE DEF wanted
<1>7. f = [query |-> u.query, tags |-> Ascending(wanted), not |-> Ascending(excluded),
           author |-> u.author, price |-> IF u.price \in PriceFilters THEN u.price ELSE None,
           sort |-> KnownSort(u.sort, u.query), like |-> u.like, cur |-> Currency(u.cur, rates)]
  BY DEF Parse, excluded, wanted
<1>8. IsTagList(Ascending(wanted), MaxTags) /\ ToSet(Ascending(wanted)) = wanted
  BY <1>2, <1>5, AscendingTags
<1>9. IsTagList(Ascending(excluded), MaxNotTags) /\ ToSet(Ascending(excluded)) = excluded
  BY <1>2, <1>3, AscendingTags
<1>10. /\ KnownSort(u.sort, u.query) \in Sorts \cup {Default}
       /\ KnownSort(u.sort, u.query) = "relevance" => u.query # NoQuery
  <2>1. Default # "relevance"
    BY Zenon DEF Default
  <2> QED
    BY Zenon, <2>1 DEF KnownSort
<1>11. Currency(u.cur, rates) \in {Default} \cup DOMAIN rates
  BY Zenon DEF Currency
<1>12. (IF u.price \in PriceFilters THEN u.price ELSE None) \in PriceFilters \cup {None}
  OBVIOUS
<1> DEFINE price == IF u.price \in PriceFilters THEN u.price ELSE None
<1> HIDE DEF price
<1>13. price \in PriceFilters \cup {None}
  BY <1>12 DEF price
<1>14. f = [query |-> u.query, tags |-> Ascending(wanted), not |-> Ascending(excluded),
           author |-> u.author, price |-> price,
           sort |-> KnownSort(u.sort, u.query), like |-> u.like, cur |-> Currency(u.cur, rates)]
  BY <1>7 DEF price
<1> HIDE DEF f
<1>15. /\ f = [query |-> f.query, tags |-> f.tags, not |-> f.not, author |-> f.author,
               price |-> f.price, sort |-> f.sort, like |-> f.like, cur |-> f.cur]
       /\ f.query = u.query /\ f.tags = Ascending(wanted) /\ f.not = Ascending(excluded)
       /\ f.price = price /\ f.sort = KnownSort(u.sort, u.query) /\ f.cur = Currency(u.cur, rates)
  BY <1>14
<1> QED
  BY Zenon, <1>1, <1>6, <1>8, <1>9, <1>10, <1>11, <1>13, <1>15 DEF Tidy, IsFilters, f

\* The fields of filters, one by one.
LEMMA FiltersAre ==
    ASSUME NEW f, NEW rates, Tidy(f, rates)
    PROVE  /\ f = [query |-> f.query, tags |-> f.tags, not |-> f.not, author |-> f.author,
                   price |-> f.price, sort |-> f.sort, like |-> f.like, cur |-> f.cur]
           /\ IsTagList(f.tags, MaxTags) /\ IsTagList(f.not, MaxNotTags)
           /\ ToSet(f.tags) \cap ToSet(f.not) = {}
           /\ ToSet(f.tags) \subseteq Slugs /\ ToSet(f.not) \subseteq Slugs
           /\ IsList(f.tags) /\ IsList(f.not) /\ Len(f.tags) \in Nat /\ Len(f.not) \in Nat
           /\ \A t : Contains(f.tags, t) <=> t \in ToSet(f.tags)
           /\ \A t : Contains(f.not, t) <=> t \in ToSet(f.not)
<1>1. /\ IsTagList(f.tags, MaxTags) /\ IsTagList(f.not, MaxNotTags)
      /\ f = [query |-> f.query, tags |-> f.tags, not |-> f.not, author |-> f.author,
              price |-> f.price, sort |-> f.sort, like |-> f.like, cur |-> f.cur]
      /\ ToSet(f.tags) \cap ToSet(f.not) = {}
  BY DEF Tidy, IsFilters
<1>2. IsList(f.tags) /\ IsList(f.not) /\ Len(f.tags) \in Nat /\ Len(f.not) \in Nat
  BY <1>1, TagListIs
<1>3. ToSet(f.tags) \subseteq Slugs /\ ToSet(f.not) \subseteq Slugs
  BY <1>1 DEF IsTagList
<1>4. /\ \A t : Contains(f.tags, t) <=> t \in ToSet(f.tags)
      /\ \A t : Contains(f.not, t) <=> t \in ToSet(f.not)
  <2>1. \A t : Contains(f.tags, t) <=> t \in ToSet(f.tags)
    BY <1>2, ListIs DEF Contains
  <2>2. \A t : Contains(f.not, t) <=> t \in ToSet(f.not)
    BY <1>2, ListIs DEF Contains
  <2> QED
    BY <2>1, <2>2
<1> QED
  BY <1>1, <1>2, <1>3, <1>4

\* Requiring a tag leaves filters, and requires it where there is room.
LEMMA WithTagIs ==
    ASSUME NEW f, NEW rates, Tidy(f, rates), NEW t \in Slugs
    PROVE  /\ Tidy(WithTag(f, t), rates)
           /\ t \notin ToSet(f.tags) /\ t \notin ToSet(f.not) /\ ~AtTagLimit(f) =>
                /\ WithTag(f, t) = [f EXCEPT !.tags = InsertSorted(f.tags, t)]
                /\ ToSet(InsertSorted(f.tags, t)) = ToSet(f.tags) \cup {t}
<1> DEFINE tags == InsertSorted(f.tags, t)
           not == Without(f.not, t)
           g == [f EXCEPT !.tags = tags, !.not = not]
<1>1. MaxTags \in Nat /\ MaxNotTags \in Nat
  BY SizesAre
<1>2. /\ IsTagList(not, MaxNotTags) /\ ToSet(not) = ToSet(f.not) \ {t}
      /\ t \notin ToSet(f.not) => not = f.not
  BY <1>1, FiltersAre, WithoutIs
<1>3. ASSUME t \notin ToSet(f.tags), ~AtTagLimit(f)
      PROVE  /\ IsTagList(tags, MaxTags) /\ ToSet(tags) = ToSet(f.tags) \cup {t}
             /\ WithTag(f, t) = g /\ Tidy(g, rates)
             /\ t \notin ToSet(f.not) => g = [f EXCEPT !.tags = tags]
  <2>1. Len(f.tags) < MaxTags
    BY <1>1, <1>3, FiltersAre DEF AtTagLimit
  <2>2. IsTagList(tags, MaxTags) /\ ToSet(tags) = ToSet(f.tags) \cup {t}
    BY <1>1, <1>3, <2>1, FiltersAre, InsertedIs
  <2>3. WithTag(f, t) = g
    BY <1>3, FiltersAre DEF WithTag
  <2> HIDE DEF tags, not
  <2>4. /\ g = [query |-> f.query, tags |-> tags, not |-> not, author |-> f.author,
                price |-> f.price, sort |-> f.sort, like |-> f.like, cur |-> f.cur]
        /\ t \notin ToSet(f.not) => g = [f EXCEPT !.tags = tags]
    <3>1. f = [query |-> f.query, tags |-> f.tags, not |-> f.not, author |-> f.author,
               price |-> f.price, sort |-> f.sort, like |-> f.like, cur |-> f.cur]
      BY FiltersAre
    <3> DEFINE h == [f EXCEPT !.tags = tags]
    <3>4. h = [query |-> f.query, tags |-> tags, not |-> f.not, author |-> f.author,
               price |-> f.price, sort |-> f.sort, like |-> f.like, cur |-> f.cur]
      BY <3>1
    <3>5. g = [h EXCEPT !.not = not]
      BY DEF h
    <3> HIDE DEF h, g
    <3>2. g = [query |-> f.query, tags |-> tags, not |-> not, author |-> f.author,
               price |-> f.price, sort |-> f.sort, like |-> f.like, cur |-> f.cur]
      BY <3>4, <3>5
    <3>3. ASSUME not = f.not
          PROVE  g = [f EXCEPT !.tags = tags]
      BY <3>1, <3>3 DEF g
    <3> HIDE DEF g
    <3> QED
      BY <1>2, <3>2, <3>3
  <2>5. ToSet(tags) \cap ToSet(not) = {}
    BY <1>2, <2>2, FiltersAre
  <2> HIDE DEF g
  <2>6. Tidy(g, rates)
    BY <1>2, <2>2, <2>4, <2>5 DEF Tidy, IsFilters
  <2> QED
    BY <2>2, <2>3, <2>4, <2>6
<1>4. ASSUME t \in ToSet(f.tags) \/ AtTagLimit(f)
      PROVE  WithTag(f, t) = f
  BY <1>4, FiltersAre DEF WithTag
<1> HIDE DEF g
<1> QED
  BY <1>3, <1>4 DEF tags

\* Excluding a tag too.
LEMMA WithNotTagIs ==
    ASSUME NEW f, NEW rates, Tidy(f, rates), NEW t \in Slugs
    PROVE  /\ Tidy(WithNotTag(f, t), rates)
           /\ t \notin ToSet(f.tags) /\ t \notin ToSet(f.not) /\ ~AtNotTagLimit(f) =>
                /\ WithNotTag(f, t) = [f EXCEPT !.not = InsertSorted(f.not, t)]
                /\ ToSet(InsertSorted(f.not, t)) = ToSet(f.not) \cup {t}
<1> DEFINE not == InsertSorted(f.not, t)
           tags == Without(f.tags, t)
           g == [f EXCEPT !.not = not, !.tags = tags]
<1>1. MaxTags \in Nat /\ MaxNotTags \in Nat
  BY SizesAre
<1>2. /\ IsTagList(tags, MaxTags) /\ ToSet(tags) = ToSet(f.tags) \ {t}
      /\ t \notin ToSet(f.tags) => tags = f.tags
  BY <1>1, FiltersAre, WithoutIs
<1>3. ASSUME t \notin ToSet(f.not), ~AtNotTagLimit(f)
      PROVE  /\ IsTagList(not, MaxNotTags) /\ ToSet(not) = ToSet(f.not) \cup {t}
             /\ WithNotTag(f, t) = g /\ Tidy(g, rates)
             /\ t \notin ToSet(f.tags) => g = [f EXCEPT !.not = not]
  <2>1. Len(f.not) < MaxNotTags
    BY <1>1, <1>3, FiltersAre DEF AtNotTagLimit
  <2>2. IsTagList(not, MaxNotTags) /\ ToSet(not) = ToSet(f.not) \cup {t}
    BY <1>1, <1>3, <2>1, FiltersAre, InsertedIs
  <2>3. WithNotTag(f, t) = g
    BY <1>3, FiltersAre DEF WithNotTag
  <2> HIDE DEF tags, not
  <2>4. /\ g = [query |-> f.query, tags |-> tags, not |-> not, author |-> f.author,
                price |-> f.price, sort |-> f.sort, like |-> f.like, cur |-> f.cur]
        /\ t \notin ToSet(f.tags) => g = [f EXCEPT !.not = not]
    <3>1. f = [query |-> f.query, tags |-> f.tags, not |-> f.not, author |-> f.author,
               price |-> f.price, sort |-> f.sort, like |-> f.like, cur |-> f.cur]
      BY FiltersAre
    <3> DEFINE h == [f EXCEPT !.not = not]
    <3>4. h = [query |-> f.query, tags |-> f.tags, not |-> not, author |-> f.author,
               price |-> f.price, sort |-> f.sort, like |-> f.like, cur |-> f.cur]
      BY <3>1
    <3>5. g = [h EXCEPT !.tags = tags]
      BY DEF h
    <3> HIDE DEF h, g
    <3>2. g = [query |-> f.query, tags |-> tags, not |-> not, author |-> f.author,
               price |-> f.price, sort |-> f.sort, like |-> f.like, cur |-> f.cur]
      BY <3>4, <3>5
    <3>3. ASSUME tags = f.tags
          PROVE  g = [f EXCEPT !.not = not]
      BY <3>1, <3>3 DEF g
    <3> HIDE DEF g
    <3> QED
      BY <1>2, <3>2, <3>3
  <2>5. ToSet(tags) \cap ToSet(not) = {}
    BY <1>2, <2>2, FiltersAre
  <2> HIDE DEF g
  <2>6. Tidy(g, rates)
    BY <1>2, <2>2, <2>4, <2>5 DEF Tidy, IsFilters
  <2> QED
    BY <2>2, <2>3, <2>4, <2>6
<1>4. ASSUME t \in ToSet(f.not) \/ AtNotTagLimit(f)
      PROVE  WithNotTag(f, t) = f
  BY <1>4, FiltersAre DEF WithNotTag
<1> HIDE DEF g
<1> QED
  BY <1>3, <1>4 DEF not

\* So does dropping one, and whatever else the controls change.
LEMMA OtherLinks ==
    ASSUME NEW f, NEW rates, Tidy(f, rates)
    PROVE  /\ \A t : Tidy(WithoutTag(f, t), rates) /\ Tidy(WithoutNotTag(f, t), rates)
           /\ \A t \in Slugs : Tidy(ToggleTag(f, t), rates)
           /\ \A a : Tidy(WithAuthor(f, a), rates) /\ Tidy(WithLike(f, a), rates)
           /\ \A p \in PriceFilters : Tidy(WithPrice(f, p), rates)
           /\ f.price # None => Tidy(WithPrice(f, f.price), rates)
           /\ Tidy(Cleared(f), rates)
           /\ \A s \in Sorts : (s = "relevance" => f.query # NoQuery) => Tidy(WithSort(f, s), rates)
           /\ \A c \in {Default} \cup DOMAIN rates : Tidy([f EXCEPT !.cur = c], rates)
<1>1. MaxTags \in Nat /\ MaxNotTags \in Nat
  BY SizesAre
<1>2. ASSUME NEW t
      PROVE  Tidy(WithoutTag(f, t), rates)
  <2> DEFINE tags == Without(f.tags, t)
             g == [f EXCEPT !.tags = tags]
  <2>1. IsTagList(tags, MaxTags) /\ ToSet(tags) = ToSet(f.tags) \ {t}
    BY <1>1, FiltersAre, WithoutIs
  <2>2. WithoutTag(f, t) = g
    BY FiltersAre DEF WithoutTag
  <2> HIDE DEF tags
  <2>3. /\ g = [query |-> f.query, tags |-> tags, not |-> f.not, author |-> f.author,
                price |-> f.price, sort |-> f.sort, like |-> f.like, cur |-> f.cur]
    BY FiltersAre
  <2>4. ToSet(tags) \cap ToSet(f.not) = {}
    BY <2>1, FiltersAre
  <2> HIDE DEF g
  <2>5. Tidy(g, rates)
    BY <2>1, <2>3, <2>4 DEF Tidy, IsFilters
  <2> QED
    BY <2>2, <2>5
<1>3. ASSUME NEW t
      PROVE  Tidy(WithoutNotTag(f, t), rates)
  <2> DEFINE not == Without(f.not, t)
             g == [f EXCEPT !.not = not]
  <2>1. IsTagList(not, MaxNotTags) /\ ToSet(not) = ToSet(f.not) \ {t}
    BY <1>1, FiltersAre, WithoutIs
  <2>2. WithoutNotTag(f, t) = g
    BY FiltersAre DEF WithoutNotTag
  <2> HIDE DEF not
  <2>3. /\ g = [query |-> f.query, tags |-> f.tags, not |-> not, author |-> f.author,
                price |-> f.price, sort |-> f.sort, like |-> f.like, cur |-> f.cur]
    BY FiltersAre
  <2>4. ToSet(f.tags) \cap ToSet(not) = {}
    BY <2>1, FiltersAre
  <2> HIDE DEF g
  <2>5. Tidy(g, rates)
    BY <2>1, <2>3, <2>4 DEF Tidy, IsFilters
  <2> QED
    BY <2>2, <2>5
<1>4. ASSUME NEW t \in Slugs
      PROVE  Tidy(ToggleTag(f, t), rates)
  BY <1>2, WithTagIs DEF ToggleTag
<1>5. ASSUME NEW a
      PROVE  Tidy([f EXCEPT !.author = a], rates) /\ Tidy([f EXCEPT !.like = a], rates)
  <2>1. Tidy([f EXCEPT !.author = a], rates)
    <3> DEFINE g == [f EXCEPT !.author = a]
    <3>1. g = [query |-> f.query, tags |-> f.tags, not |-> f.not, author |-> a,
               price |-> f.price, sort |-> f.sort, like |-> f.like, cur |-> f.cur]
      BY FiltersAre
    <3> HIDE DEF g
    <3>2. Tidy(g, rates)
      BY <3>1 DEF Tidy, IsFilters
    <3> QED
      BY <3>2 DEF g
  <2>2. Tidy([f EXCEPT !.like = a], rates)
    <3> DEFINE g == [f EXCEPT !.like = a]
    <3>1. g = [query |-> f.query, tags |-> f.tags, not |-> f.not, author |-> f.author,
               price |-> f.price, sort |-> f.sort, like |-> a, cur |-> f.cur]
      BY FiltersAre
    <3> HIDE DEF g
    <3>2. Tidy(g, rates)
      BY <3>1 DEF Tidy, IsFilters
    <3> QED
      BY <3>2 DEF g
  <2> QED
    BY <2>1, <2>2
<1>6. ASSUME NEW p \in PriceFilters \cup {None}
      PROVE  Tidy([f EXCEPT !.price = p], rates)
  <2> DEFINE g == [f EXCEPT !.price = p]
  <2>1. g = [query |-> f.query, tags |-> f.tags, not |-> f.not, author |-> f.author,
             price |-> p, sort |-> f.sort, like |-> f.like, cur |-> f.cur]
    BY FiltersAre
  <2> HIDE DEF g
  <2>2. Tidy(g, rates)
    BY <2>1 DEF Tidy, IsFilters
  <2> QED
    BY <2>2 DEF g
<1>7. ASSUME NEW s \in Sorts, s = "relevance" => f.query # NoQuery
      PROVE  Tidy([f EXCEPT !.sort = s], rates)
  <2> DEFINE g == [f EXCEPT !.sort = s]
  <2>1. g = [query |-> f.query, tags |-> f.tags, not |-> f.not, author |-> f.author,
             price |-> f.price, sort |-> s, like |-> f.like, cur |-> f.cur]
    BY FiltersAre
  <2> HIDE DEF g
  <2>2. Tidy(g, rates)
    BY Zenon, <1>7, <2>1, FiltersAre DEF Tidy, IsFilters
  <2> QED
    BY <2>2 DEF g
<1>8. ASSUME NEW c \in {Default} \cup DOMAIN rates
      PROVE  Tidy([f EXCEPT !.cur = c], rates)
  <2> DEFINE g == [f EXCEPT !.cur = c]
  <2>1. g = [query |-> f.query, tags |-> f.tags, not |-> f.not, author |-> f.author,
             price |-> f.price, sort |-> f.sort, like |-> f.like, cur |-> c]
    BY FiltersAre
  <2> HIDE DEF g
  <2>2. Tidy(g, rates)
    BY <2>1 DEF Tidy, IsFilters
  <2> QED
    BY <2>2 DEF g
<1>9. Tidy(Cleared(f), rates)
  <2> DEFINE g == Cleared(f)
  <2>1. g = [query |-> f.query, tags |-> <<>>, not |-> <<>>, author |-> None,
             price |-> None, sort |-> f.sort, like |-> None, cur |-> f.cur]
    <3> DEFINE none == <<>>
    <3>1. NoFilters = [query |-> NoQuery, tags |-> none, not |-> none, author |-> None,
                       price |-> None, sort |-> Default, like |-> None, cur |-> Default]
      BY Zenon DEF NoFilters
    <3> HIDE DEF none
    <3> DEFINE a == [NoFilters EXCEPT !.query = f.query]
               b == [a EXCEPT !.sort = f.sort]
    <3>2. a = [query |-> f.query, tags |-> none, not |-> none, author |-> None,
               price |-> None, sort |-> Default, like |-> None, cur |-> Default]
      BY <3>1
    <3>3. g = [b EXCEPT !.cur = f.cur]
      BY DEF Cleared
    <3> HIDE DEF a
    <3>4. b = [query |-> f.query, tags |-> none, not |-> none, author |-> None,
               price |-> None, sort |-> f.sort, like |-> None, cur |-> Default]
      BY <3>2
    <3> HIDE DEF b, g
    <3>5. g = [query |-> f.query, tags |-> none, not |-> none, author |-> None,
               price |-> None, sort |-> f.sort, like |-> None, cur |-> f.cur]
      BY <3>3, <3>4
    <3> QED
      BY <3>5 DEF none
  <2> HIDE DEF g
  <2>2. /\ g.query = f.query /\ g.tags = <<>> /\ g.not = <<>> /\ g.price = None /\ g.sort = f.sort
        /\ g.cur = f.cur
        /\ g = [query |-> g.query, tags |-> g.tags, not |-> g.not, author |-> g.author,
                price |-> g.price, sort |-> g.sort, like |-> g.like, cur |-> g.cur]
    BY <2>1
  <2>3. IsTagList(<<>>, MaxTags) /\ IsTagList(<<>>, MaxNotTags) /\ ToSet(<<>>) = {}
    BY <1>1, NoTags
  <2>4. {} \cap {} = {}
    OBVIOUS
  <2>5. Tidy(g, rates)
    BY Zenon, <2>2, <2>3, <2>4 DEF Tidy, IsFilters
  <2> QED
    BY <2>5 DEF g
<1>10. ASSUME NEW a
       PROVE  Tidy(WithAuthor(f, a), rates) /\ Tidy(WithLike(f, a), rates)
  BY <1>5 DEF WithAuthor, WithLike
<1>11. ASSUME NEW p \in PriceFilters \cup {None}
       PROVE  Tidy(WithPrice(f, p), rates)
  <2>1. Toggled(f.price, p) \in PriceFilters \cup {None}
    BY Zenon DEF Toggled
  <2> QED
    BY <1>6, <2>1 DEF WithPrice
<1>12. f.price \in PriceFilters \cup {None}
  BY DEF Tidy, IsFilters
<1> QED
  BY Zenon, <1>2, <1>3, <1>4, <1>7, <1>8, <1>9, <1>10, <1>11, <1>12 DEF WithSort

\* One tag is a list of them.
LEMMA OneTag ==
    ASSUME NEW t \in Slugs
    PROVE  /\ IsTagList(<<t>>, MaxTags) /\ ToSet(<<t>>) = {t} /\ Len(<<t>>) = 1 /\ <<t>>[1] = t
           /\ <<t>> \in Seq(Nat)
<1>1. <<t>> \in Seq({t}) /\ Len(<<t>>) = 1 /\ <<t>>[1] = t
  OBVIOUS
<1>2. {t} \subseteq Slugs /\ {t} \subseteq Int
  BY SlugsAre
<1> DEFINE s == <<t>>
<1> HIDE DEF s
<1>3. s \in Seq({t}) /\ Len(s) = 1 /\ s[1] = t
  BY <1>1 DEF s
<1>4. Climbs(s, {t})
  BY <1>3 DEF Climbs
<1>5. ToSet(s) = {t}
  BY <1>2, <1>4, ClimbIs
<1>6. MaxTags \in Nat /\ MaxTags > 0
  BY SizesAre
<1>7. IsTagList(s, MaxTags)
  BY <1>2, <1>3, <1>4, <1>5, <1>6 DEF IsTagList
<1> QED
  BY <1>3, <1>5, <1>7, TagListIs DEF s

\* The ordering a link names.
Named(f) == IF f.sort = DefaultSort(f) THEN Default ELSE f.sort

\* The address of filters: it is read as the filters it was made of, but for
\* an ordering the server would pick, and making it again changes nothing.
LEMMA PageURLIs ==
    ASSUME NEW f, NEW rates, Tidy(f, rates), NEW page \in Int, NEW u, u = PageURL(f, page)
    PROVE  /\ IsAddress(u) /\ u.path = "/" /\ u.page = page
           /\ \A other : Parse(u, other) =
                [query |-> f.query, tags |-> f.tags, not |-> f.not, author |-> f.author,
                 price |-> f.price, sort |-> Named(f), like |-> f.like,
                 cur |-> Currency(f.cur, other)]
           /\ Currency(f.cur, rates) = f.cur
           /\ PageURL(Parse(u, rates), page) = u
<1>1. u = [path |-> "/", page |-> page, query |-> f.query, tags |-> f.tags, not |-> f.not,
           author |-> f.author, price |-> f.price, sort |-> Named(f), like |-> f.like, cur |-> f.cur]
  <2> DEFINE g == [f EXCEPT !.sort = Named(f)]
  <2>1. u = Address("/", g, page)
    BY DEF PageURL, Named
  <2>2. g = [query |-> f.query, tags |-> f.tags, not |-> f.not, author |-> f.author,
             price |-> f.price, sort |-> Named(f), like |-> f.like, cur |-> f.cur]
    BY FiltersAre
  <2> HIDE DEF g
  <2> QED
    BY <2>1, <2>2 DEF Address
<1>2. /\ f.query \in [words : SUBSET STRING, quoted : BOOLEAN] /\ IsFiniteSet(f.query.words)
      /\ IsTagList(f.tags, MaxTags) /\ IsTagList(f.not, MaxNotTags)
      /\ ToSet(f.tags) \cap ToSet(f.not) = {}
      /\ f.price \in PriceFilters \cup {None}
      /\ f.sort \in Sorts \cup {Default} /\ (f.sort = "relevance" => f.query # NoQuery)
      /\ f.cur \in {Default} \cup DOMAIN rates
  BY DEF Tidy, IsFilters
<1>3. f.tags \in Seq(Nat) /\ f.not \in Seq(Nat)
  BY <1>2, TagListIs
<1>4. "/" # "/tag"
  OBVIOUS
<1>5. u.path = "/" /\ u.page = page /\ u.query = f.query /\ u.tags = f.tags /\ u.not = f.not
      /\ u.author = f.author /\ u.price = f.price /\ u.sort = Named(f) /\ u.like = f.like /\ u.cur = f.cur
  BY <1>1
<1>6. u = Address(u.path, u, u.page)
  BY <1>1 DEF Address
<1>7. IsAddress(u)
  BY <1>2, <1>3, <1>4, <1>5, <1>6 DEF IsAddress
<1>8. MaxTags \in Nat /\ MaxNotTags \in Nat
  BY SizesAre
<1>9. Taken(u.tags, MaxTags) = ToSet(f.tags) /\ Taken(u.not, MaxNotTags) = ToSet(f.not)
  BY <1>2, <1>5, <1>8, TakenAll
<1>10. Taken(u.tags, MaxTags) \ Taken(u.not, MaxNotTags) = ToSet(f.tags)
  BY <1>2, <1>9
<1>11. Ascending(ToSet(f.tags)) = f.tags /\ Ascending(ToSet(f.not)) = f.not
  BY <1>2, TagListIs
<1>12. (IF u.price \in PriceFilters THEN u.price ELSE None) = f.price
  BY <1>2, <1>5
<1>13. KnownSort(u.sort, u.query) = Named(f)
  <2>1. Named(f) \in Sorts \cup {Default} /\ (Named(f) \in Sorts => Named(f) = f.sort)
    <3>1. Default \notin Sorts
      BY Zenon DEF Default, Sorts
    <3> QED
      BY Zenon, <1>2, <3>1 DEF Named
  <2> QED
    BY Zenon, <1>2, <1>5, <2>1 DEF KnownSort
<1>14. ASSUME NEW other
       PROVE  Parse(u, other) =
                [query |-> f.query, tags |-> f.tags, not |-> f.not, author |-> f.author,
                 price |-> f.price, sort |-> Named(f), like |-> f.like,
                 cur |-> Currency(f.cur, other)]
  <2>1. Parse(u, other) =
          [query |-> u.query, tags |-> Ascending(Taken(u.tags, MaxTags) \ Taken(u.not, MaxNotTags)),
           not |-> Ascending(Taken(u.not, MaxNotTags)), author |-> u.author,
           price |-> IF u.price \in PriceFilters THEN u.price ELSE None,
           sort |-> KnownSort(u.sort, u.query), like |-> u.like, cur |-> Currency(u.cur, other)]
    BY DEF Parse
  <2> QED
    BY Zenon, <1>5, <1>9, <1>10, <1>11, <1>12, <1>13, <2>1
<1>15. Currency(f.cur, rates) = f.cur
  BY Zenon, <1>2 DEF Currency
<1>16. PageURL(Parse(u, rates), page) = u
  <2> DEFINE g == Parse(u, rates)
  <2>1. g = [query |-> f.query, tags |-> f.tags, not |-> f.not, author |-> f.author,
                 price |-> f.price, sort |-> Named(f), like |-> f.like, cur |-> f.cur]
    BY <1>14, <1>15
  <2> HIDE DEF g
  <2>2. g.sort = Named(f) /\ g.query = f.query
    BY <2>1
  <2>3. DefaultSort(g) = DefaultSort(f)
    BY <2>2 DEF DefaultSort
  <2>4. Named(g) = Named(f)
    BY Zenon, <2>2, <2>3 DEF Named
  <2> DEFINE h == [g EXCEPT !.sort = Named(f)]
  <2>5. h = g
    BY <2>1
  <2>6. PageURL(g, page) = Address("/", h, page)
    BY <2>4 DEF PageURL, Named
  <2> HIDE DEF h
  <2>7. PageURL(g, page) = u
    BY <1>1, <2>1, <2>5, <2>6 DEF Address
  <2> QED
    BY <2>7 DEF g
<1> QED
  BY <1>5, <1>7, <1>14, <1>15, <1>16

\* The address of a tag's own page.
LEMMA TagURLIs ==
    ASSUME NEW t \in Nat, NEW page \in Int, NEW u, u = TagURL(t, page)
    PROVE  /\ IsAddress(u) /\ u.path = "/tag" /\ u.page = page /\ u.tags[1] = t /\ u.tags = <<t>>
           /\ t \in Slugs => \A rates : Parse(u, rates) =
                [query |-> NoQuery, tags |-> <<t>>, not |-> <<>>, author |-> None,
                 price |-> None, sort |-> Default, like |-> None, cur |-> Currency(Default, rates)]
<1> DEFINE one == <<t>>
           none == <<>>
<1>1. one \in Seq(Nat) /\ none \in Seq(Nat) /\ Len(one) = 1 /\ one[1] = t
  OBVIOUS
<1> HIDE DEF one, none
<1>2. u = [path |-> "/tag", page |-> page, query |-> NoQuery, tags |-> one, not |-> none,
           author |-> None, price |-> None, sort |-> Default, like |-> None, cur |-> Default]
  <2> DEFINE g == [NoFilters EXCEPT !.tags = one]
  <2>1. NoFilters = [query |-> NoQuery, tags |-> none, not |-> none, author |-> None,
                     price |-> None, sort |-> Default, like |-> None, cur |-> Default]
    BY Zenon DEF NoFilters, none
  <2>2. u = Address("/tag", g, page)
    BY DEF TagURL, one
  <2>3. g = [query |-> NoQuery, tags |-> one, not |-> none, author |-> None,
             price |-> None, sort |-> Default, like |-> None, cur |-> Default]
    BY <2>1
  <2> HIDE DEF g
  <2> QED
    BY <2>2, <2>3 DEF Address
<1>3. /\ u.path = "/tag" /\ u.page = page /\ u.query = NoQuery /\ u.tags = one /\ u.not = none
      /\ u.author = None /\ u.price = None /\ u.sort = Default /\ u.like = None /\ u.cur = Default
  BY <1>2
<1>4. u = Address(u.path, u, u.page)
  BY <1>2 DEF Address
<1>5. NoQuery \in [words : SUBSET STRING, quoted : BOOLEAN] /\ IsFiniteSet(NoQuery.words)
  BY FS_EmptySet DEF NoQuery
<1>6. u = TagURL(u.tags[1], u.page)
  BY <1>1, <1>3
<1>7. IsAddress(u)
  BY <1>1, <1>3, <1>4, <1>5, <1>6 DEF IsAddress
<1>8. MaxTags \in Nat /\ MaxNotTags \in Nat
  BY SizesAre
<1>9. ASSUME t \in Slugs, NEW rates
      PROVE  Parse(u, rates) =
                [query |-> NoQuery, tags |-> one, not |-> none, author |-> None,
                 price |-> None, sort |-> Default, like |-> None, cur |-> Currency(Default, rates)]
  <2>1. IsTagList(one, MaxTags) /\ ToSet(one) = {t}
    BY <1>9, OneTag DEF one
  <2>2. IsTagList(none, MaxNotTags) /\ ToSet(none) = {}
    BY <1>8, NoTags DEF none
  <2>3. Taken(u.tags, MaxTags) = {t} /\ Taken(u.not, MaxNotTags) = {}
    BY <1>3, <1>8, <2>1, <2>2, TakenAll
  <2>4. Taken(u.tags, MaxTags) \ Taken(u.not, MaxNotTags) = {t}
    BY <2>3
  <2>5. Ascending({t}) = one /\ Ascending({}) = none
    BY <2>1, <2>2, TagListIs
  <2>6. (IF u.price \in PriceFilters THEN u.price ELSE None) = None
    BY <1>3
  <2>7. KnownSort(u.sort, u.query) = Default
    <3>1. Default \notin Sorts
      BY Zenon DEF Default, Sorts
    <3> QED
      BY Zenon, <1>3, <3>1 DEF KnownSort
  <2>8. Parse(u, rates) =
          [query |-> u.query, tags |-> Ascending(Taken(u.tags, MaxTags) \ Taken(u.not, MaxNotTags)),
           not |-> Ascending(Taken(u.not, MaxNotTags)), author |-> u.author,
           price |-> IF u.price \in PriceFilters THEN u.price ELSE None,
           sort |-> KnownSort(u.sort, u.query), like |-> u.like, cur |-> Currency(u.cur, rates)]
    BY DEF Parse
  <2> QED
    BY Zenon, <1>3, <2>3, <2>4, <2>5, <2>6, <2>7, <2>8
<1> QED
  BY <1>1, <1>3, <1>7, <1>9 DEF one, none

\* Filters make requests.
LEMMA OptionsAre ==
    ASSUME NEW f, NEW rates, Tidy(f, rates), NEW page \in 1..MaxPage + 1,
           NEW facets \in {"wanted", "omitted"}, NEW o, o = Options(f, page, facets)
    PROVE  /\ IsRequest(o)
           /\ o.query = f.query /\ o.tags = ToSet(f.tags) /\ o.not = ToSet(f.not) /\ o.author = f.author
           /\ o.price = f.price /\ o.sort = f.sort /\ o.like = f.like /\ o.minFirst = 0
           /\ o.limit = 0 /\ o.facets = facets /\ o.page = page
<1>1. /\ o = [query |-> f.query, tags |-> ToSet(f.tags), not |-> ToSet(f.not), author |-> f.author,
              price |-> f.price, sort |-> f.sort, like |-> f.like, minFirst |-> 0, limit |-> 0,
              facets |-> facets, page |-> page]
  BY DEF Options
<1>2. /\ o.query = f.query /\ o.tags = ToSet(f.tags) /\ o.not = ToSet(f.not) /\ o.author = f.author
      /\ o.price = f.price /\ o.sort = f.sort /\ o.like = f.like /\ o.minFirst = 0
      /\ o.limit = 0 /\ o.facets = facets /\ o.page = page
  BY <1>1
<1>3. /\ f.query \in [words : SUBSET STRING, quoted : BOOLEAN] /\ IsFiniteSet(f.query.words)
      /\ f.price \in PriceFilters \cup {None}
  BY DEF Tidy, IsFilters
<1>4. ToSet(f.tags) \subseteq Slugs /\ ToSet(f.not) \subseteq Slugs
  BY FiltersAre
<1>5. o = [query |-> o.query, tags |-> o.tags, not |-> o.not, author |-> o.author,
           price |-> o.price, sort |-> o.sort, like |-> o.like, minFirst |-> o.minFirst,
           limit |-> o.limit, facets |-> o.facets, page |-> o.page]
  BY <1>1, <1>2
<1>6. 0 \in Nat
  OBVIOUS
<1>7. IsRequest(o)
  BY <1>2, <1>3, <1>4, <1>5, <1>6 DEF IsRequest
<1> QED
  BY <1>2, <1>7

\* What requests have in common that differ in their tags.
SameButTags(s, n) ==
    n.query = s.query /\ n.author = s.author /\ n.price = s.price /\ n.like = s.like
    /\ n.minFirst = s.minFirst

\* Requiring one more tag leaves what carries it, excluding one what does not.
LEMMA Tightened ==
    ASSUME NEW db, NEW s, NEW n, SameButTags(s, n), NEW t, NEW mode
    PROVE  /\ Listed(db, n) = Listed(db, s)
           /\ n.tags = s.tags \cup {t} /\ n.not = s.not =>
                Admitted(db, n, mode) = Carrying(Listed(db, s), Admitted(db, s, mode), t)
           /\ n.tags = s.tags /\ n.not = s.not \cup {t} =>
                Admitted(db, n, mode) = Admitted(db, s, mode) \ Carrying(Listed(db, s), Admitted(db, s, mode), t)
<1> DEFINE like == LikeTags(db, s)
           list == Listed(db, s)
<1>1. /\ LikeTags(db, n) = like /\ Listed(db, n) = list
      /\ \A i : ListedUSD(db, n, i) = ListedUSD(db, s, i)
  BY DEF SameButTags, LikeTags, Listed, ListedUSD
<1>2. ASSUME NEW a, NEW usd
      PROVE  /\ n.tags = s.tags \cup {t} /\ n.not = s.not =>
                  (IndexMatches(n, like, a, usd, mode) <=>
                     IndexMatches(s, like, a, usd, mode) /\ t \in a.tags)
             /\ n.tags = s.tags /\ n.not = s.not \cup {t} =>
                  (IndexMatches(n, like, a, usd, mode) <=>
                     IndexMatches(s, like, a, usd, mode) /\ t \notin a.tags)
  <2> HIDE DEF like
  <2>1. n.query = s.query /\ n.author = s.author /\ n.price = s.price /\ n.like = s.like
        /\ n.minFirst = s.minFirst
    BY DEF SameButTags
  <2> DEFINE Otherwise(o) ==
                 /\ TextMatches(o.query, a, mode) /\ (o.author # None => a.author = o.author)
                 /\ PriceQuery(o.price, a, usd) /\ (o.minFirst > 0 => a.first >= o.minFirst)
                 /\ (o.like # None => \E x \in like : x \in a.tags)
                 /\ (o.like # None => a.id # o.like)
  <2>2. \A o : IndexMatches(o, like, a, usd, mode) <=>
                 Otherwise(o) /\ (\A x \in o.tags : x \in a.tags) /\ \A x \in o.not : x \notin a.tags
    BY Zenon DEF IndexMatches
  <2>3. Otherwise(n) <=> Otherwise(s)
    BY <2>1
  <2> HIDE DEF Otherwise
  <2>4. ASSUME n.tags = s.tags \cup {t}, n.not = s.not
        PROVE  IndexMatches(n, like, a, usd, mode) <=>
                     IndexMatches(s, like, a, usd, mode) /\ t \in a.tags
    BY <2>2, <2>3, <2>4
  <2>5. ASSUME n.tags = s.tags, n.not = s.not \cup {t}
        PROVE  IndexMatches(n, like, a, usd, mode) <=>
                     IndexMatches(s, like, a, usd, mode) /\ t \notin a.tags
    BY <2>2, <2>3, <2>5
  <2> QED
    BY <2>4, <2>5
<1> DEFINE W == Admitted(db, s, mode)
           V == Admitted(db, n, mode)
           D == 1..Len(list)
           in(i) == IndexMatches(s, like, list[i], ListedUSD(db, s, i), mode)
           now(i) == IndexMatches(n, like, list[i], ListedUSD(db, s, i), mode)
<1>3. W = {i \in D : in(i)} /\ V = {i \in D : now(i)}
  BY <1>1 DEF Admitted
<1>4. Carrying(list, W, t) = {i \in W : t \in list[i].tags}
  BY DEF Carrying
<1>5. ASSUME n.tags = s.tags \cup {t}, n.not = s.not
      PROVE  V = Carrying(list, W, t)
  <2>1. \A i \in D : now(i) <=> in(i) /\ t \in list[i].tags
    BY <1>2, <1>5
  <2> HIDE DEF in, now, D, list, V, W
  <2> QED
    BY <1>3, <1>4, <2>1
<1>6. ASSUME n.tags = s.tags, n.not = s.not \cup {t}
      PROVE  V = W \ Carrying(list, W, t)
  <2>1. \A i \in D : now(i) <=> in(i) /\ t \notin list[i].tags
    BY <1>2, <1>6
  <2> HIDE DEF in, now, D, list, V, W
  <2> QED
    BY <1>3, <1>4, <2>1
<1> QED
  BY <1>1, <1>5, <1>6

\* And as long as something is left, the words are matched as they were.
LEMMA NarrowedAnswers ==
    ASSUME NEW db, IsDataset(db), NEW s, NEW n, SameButTags(s, n), NEW t
    PROVE  LET W == Answers(db, s)
               C == Carrying(Listed(db, s), W, t)
           IN  /\ n.tags = s.tags \cup {t} /\ n.not = s.not /\ C # {} => Answers(db, n) = C
               /\ n.tags = s.tags /\ n.not = s.not \cup {t} /\ (s.query = NoQuery \/ W \ C # {}) =>
                    Answers(db, n) = W \ C
<1> DEFINE W == Answers(db, s)
           C == Carrying(Listed(db, s), W, t)
           mode == ModeOf(db, s)
<1>1. W = Admitted(db, s, mode) /\ Answers(db, n) = Admitted(db, n, ModeOf(db, n)) /\ n.query = s.query
  BY DEF Answers, SameButTags
<1>2. CASE s.query = NoQuery
  <2>1. ModeOf(db, n) = mode
    BY <1>1, <1>2 DEF ModeOf
  <2> QED
    BY <1>1, <1>2, <2>1, Tightened
<1>3. CASE s.query # NoQuery
  <2> DEFINE all == Admitted(db, s, "all")
             left == Admitted(db, n, "all")
  <2>1. /\ mode = IF all = {} /\ CanFallBack(s) THEN "any" ELSE "all"
        /\ ModeOf(db, n) = IF left = {} /\ CanFallBack(s) THEN "any" ELSE "all"
    BY <1>1, <1>3, AdmittedByIndex DEF ModeOf, Mode, CanFallBack
  <2>2. ASSUME n.tags = s.tags \cup {t}, n.not = s.not, C # {}
        PROVE  Answers(db, n) = C
    <3>1. left = Carrying(Listed(db, s), all, t)
      BY <2>2, Tightened
    <3>2. all = {} => left = {}
      BY <3>1 DEF Carrying
    <3>3. mode = "all" => C = left
      BY <1>1, <3>1
    <3>4. "any" # "all"
      OBVIOUS
    <3> HIDE DEF all, left, C, mode
    <3>5. ModeOf(db, n) = mode
      BY <2>1, <2>2, <3>2, <3>3, <3>4
    <3>6. Admitted(db, n, mode) = C
      BY <1>1, <2>2, Tightened DEF C
    <3> QED
      BY <1>1, <3>5, <3>6
  <2>3. ASSUME n.tags = s.tags, n.not = s.not \cup {t}, W \ C # {}
        PROVE  Answers(db, n) = W \ C
    <3>1. left = all \ Carrying(Listed(db, s), all, t)
      BY <2>3, Tightened
    <3>2. all = {} => left = {}
      BY <3>1
    <3>3. mode = "all" => W \ C = left
      BY <1>1, <3>1
    <3>4. "any" # "all"
      OBVIOUS
    <3> HIDE DEF all, left, C, mode, W
    <3>5. ModeOf(db, n) = mode
      BY <2>1, <2>3, <3>2, <3>3, <3>4
    <3>6. Admitted(db, n, mode) = W \ C
      BY <1>1, <2>3, Tightened DEF C, W
    <3> QED
      BY <1>1, <3>5, <3>6
  <2> QED
    BY <1>3, <2>2, <2>3
<1> QED
  BY <1>2, <1>3

\* Links to the first page of narrowed filters are answered with as many assets
\* as match.
LEMMA NarrowedTotal ==
    ASSUME NEW db, IsDataset(db), NEW o, IsRequest(o), NEW n, IsRequest(n),
           NEW s, s = Servable(db, o), NEW m, m = Servable(db, n), ~Unlike(db, s),
           SameButTags(o, n), NEW t
    PROVE  /\ SameButTags(s, m) /\ m.tags = n.tags /\ m.not = n.not
           /\ Find(db, n).total = Cardinality(Answers(db, m))
<1>1. SameButTags(s, m) /\ m.tags = n.tags /\ m.not = n.not
  BY ServableIs DEF SameButTags
<1>2. ~Unlike(db, m)
  BY <1>1 DEF Unlike, SameButTags
<1> QED
  BY <1>1, <1>2, FindAnswers

\* The sidebar of a page tells what its links lead to.
LEMMA SidebarTells ==
    ASSUME IsDataset(cat), IsAddress(at), at.page \in 1..MaxPage
    PROVE  SidebarTellsTruth
<1> DEFINE f == Here
           o == Options(f, at.page, "wanted")
           s == Servable(cat, o)
           W == Answers(cat, s)
           C(t) == Carrying(Listed(cat, s), W, t)
           totalOf(g) == Find(cat, Options(g, 1, "wanted")).total
<1>1. Tidy(f, cat.rates)
  BY ParseIs DEF Here
<1>2. at.page \in 1..MaxPage + 1 /\ 1 \in 1..MaxPage + 1 /\ "wanted" \in {"wanted", "omitted"}
  BY SizesAre
<1> HIDE DEF f
<1>3. /\ IsRequest(o) /\ o.query = f.query /\ o.tags = ToSet(f.tags) /\ o.not = ToSet(f.not)
      /\ o.author = f.author /\ o.price = f.price /\ o.like = f.like /\ o.minFirst = 0
  BY <1>1, <1>2, OptionsAre
<1>4. Shown = Find(cat, o)
  BY DEF Shown, Asked, Here, f
<1>5. /\ IsRequest(s) /\ s.query = f.query /\ s.tags = ToSet(f.tags) /\ s.not = ToSet(f.not)
      /\ (Filtered(s) <=> Filtered(Servable(cat, Options(f, 1, "wanted"))))
  <2> DEFINE first == Options(f, 1, "wanted")
  <2>1. /\ IsRequest(first) /\ first.query = f.query /\ first.tags = ToSet(f.tags)
        /\ first.not = ToSet(f.not) /\ first.author = f.author /\ first.price = f.price
        /\ first.like = f.like /\ first.minFirst = 0
    BY <1>1, <1>2, OptionsAre
  <2> HIDE DEF first, o
  <2> DEFINE z == Servable(cat, first)
  <2>2. /\ z.query = first.query /\ z.tags = first.tags /\ z.not = first.not /\ z.author = first.author
        /\ z.like = first.like /\ z.minFirst = first.minFirst
        /\ z.price = IF first.price \in DOMAIN Ceiling /\ ~HasPriceBands(cat) THEN None ELSE first.price
    BY <2>1, ServableIs
  <2>3. /\ s.query = o.query /\ s.tags = o.tags /\ s.not = o.not /\ s.author = o.author
        /\ s.like = o.like /\ s.minFirst = o.minFirst /\ IsRequest(s)
        /\ s.price = IF o.price \in DOMAIN Ceiling /\ ~HasPriceBands(cat) THEN None ELSE o.price
    BY <1>3, ServableIs
  <2> HIDE DEF z, s
  <2>4. Filtered(s) <=> Filtered(z)
    BY <1>3, <2>1, <2>2, <2>3 DEF Filtered
  <2> QED
    BY <1>3, <2>3, <2>4 DEF z, first
<1>6. IsFiniteSet(W) /\ Cardinality(W) \in Nat
  BY AnswersAre
<1> HIDE DEF o
<1>7. ASSUME NEW row \in Offered(Shown)
      PROVE  /\ ~AtTagLimit(f) => totalOf(WithTag(f, row.slug)) = row.count
             /\ ~AtNotTagLimit(f) => totalOf(WithNotTag(f, row.slug)) = Shown.total - row.count
             /\ Filtered(s) => row.count > 0 /\ row.count < Shown.total
  <2> DEFINE t == row.slug
             n == row.count
             tags == Find(cat, o).tags
  <2>1. PICK k \in DOMAIN tags : row = tags[k]
    BY <1>4 DEF Offered
  <2>2. ~Unlike(cat, s)
    <3>1. SUFFICES ASSUME Unlike(cat, s)
                   PROVE  FALSE
      OBVIOUS
    <3>2. tags = <<>>
      BY <1>3, <3>1, FindAnswers DEF Empty
    <3>3. <<>> \in Seq({}) /\ Len(<<>>) = 0
      BY EmptySeq
    <3>4. DOMAIN <<>> = 1..0
      BY <3>3, LenProperties
    <3> QED
      BY <2>1, <3>2, <3>4
  <2>3. Find(cat, o).total = Cardinality(W) /\ RowsTell(tags, Listed(cat, s), W, s)
    BY <1>3, <2>2, FindAnswers
  <2> HIDE DEF tags
  <2>4. /\ t \in Slugs /\ n = Cardinality(C(t)) /\ n >= 1 /\ n \in Nat
        /\ (Filtered(s) => n < Cardinality(W) /\ t \notin s.tags)
    BY <2>1, <2>3 DEF RowsTell
  <2>5. t \notin s.tags
    BY <2>4 DEF Filtered
  <2>6. C(t) \subseteq W /\ IsFiniteSet(C(t)) /\ C(t) # {}
    <3>1. C(t) \subseteq W
      BY DEF Carrying
    <3> DEFINE c == C(t)
    <3> HIDE DEF c, W
    <3>2. IsFiniteSet(c)
      BY <1>6, <3>1, FS_Subset DEF c
    <3>3. Cardinality(c) >= 1
      BY <2>4 DEF c, W
    <3>4. c # {}
      BY <3>3, FS_EmptySet
    <3> QED
      BY <3>1, <3>2, <3>4 DEF c
  <2>7. t \notin s.not
    <3>1. PICK i \in C(t) : TRUE
      BY <2>6
    <3>2. t \in Listed(cat, s)[i].tags /\ i \in W
      BY <3>1 DEF Carrying
    <3>3. \A x \in s.not : x \notin Listed(cat, s)[i].tags
      BY <3>2 DEF Answers, Admitted, IndexMatches
    <3> QED
      BY <3>2, <3>3
  <2>8. t \notin ToSet(f.tags) /\ t \notin ToSet(f.not)
    BY <1>5, <2>5, <2>7
  <2>9. ASSUME ~AtTagLimit(f)
        PROVE  totalOf(WithTag(f, t)) = n
    <3> DEFINE g == WithTag(f, t)
               one == Options(g, 1, "wanted")
               m == Servable(cat, one)
    <3>1. /\ Tidy(g, cat.rates) /\ g = [f EXCEPT !.tags = InsertSorted(f.tags, t)]
          /\ ToSet(InsertSorted(f.tags, t)) = ToSet(f.tags) \cup {t}
      BY <1>1, <2>4, <2>8, <2>9, WithTagIs
    <3> HIDE DEF g
    <3>2. /\ g.query = f.query /\ ToSet(g.tags) = ToSet(f.tags) \cup {t} /\ g.not = f.not
          /\ g.author = f.author /\ g.price = f.price /\ g.like = f.like
      <4>1. f = [query |-> f.query, tags |-> f.tags, not |-> f.not, author |-> f.author,
                 price |-> f.price, sort |-> f.sort, like |-> f.like, cur |-> f.cur]
        BY <1>1, FiltersAre
      <4>2. g.tags = InsertSorted(f.tags, t)
        BY <3>1, <4>1
      <4>3. g.query = f.query /\ g.not = f.not /\ g.author = f.author /\ g.price = f.price /\ g.like = f.like
        BY <3>1, <4>1
      <4> QED
        BY <3>1, <4>2, <4>3
    <3>3. /\ IsRequest(one) /\ one.query = g.query /\ one.tags = ToSet(g.tags) /\ one.not = ToSet(g.not)
          /\ one.author = g.author /\ one.price = g.price /\ one.like = g.like /\ one.minFirst = 0
      <4>1. Tidy(g, cat.rates) /\ 1 \in 1..MaxPage + 1 /\ "wanted" \in {"wanted", "omitted"}
        BY <1>2, <3>1
      <4> QED
        BY <4>1, OptionsAre
    <3> HIDE DEF one
    <3>4. SameButTags(o, one)
      BY <1>3, <3>2, <3>3 DEF SameButTags
    <3>5. /\ SameButTags(s, m) /\ m.tags = one.tags /\ m.not = one.not
          /\ Find(cat, one).total = Cardinality(Answers(cat, m))
      BY <1>3, <2>2, <3>3, <3>4, NarrowedTotal
    <3>6. m.tags = s.tags \cup {t} /\ m.not = s.not
      BY <1>5, <3>2, <3>3, <3>5
    <3> HIDE DEF m, s
    <3>7. Answers(cat, m) = C(t)
      BY <2>6, <3>5, <3>6, NarrowedAnswers
    <3> QED
      BY <2>4, <3>5, <3>7 DEF g, one
  <2>10. ASSUME ~AtNotTagLimit(f)
         PROVE  totalOf(WithNotTag(f, t)) = Cardinality(W) - n
    <3> DEFINE g == WithNotTag(f, t)
               one == Options(g, 1, "wanted")
               m == Servable(cat, one)
    <3>1. /\ Tidy(g, cat.rates) /\ g = [f EXCEPT !.not = InsertSorted(f.not, t)]
          /\ ToSet(InsertSorted(f.not, t)) = ToSet(f.not) \cup {t}
      BY <1>1, <2>4, <2>8, <2>10, WithNotTagIs
    <3> HIDE DEF g
    <3>2. /\ g.query = f.query /\ ToSet(g.not) = ToSet(f.not) \cup {t} /\ g.tags = f.tags
          /\ g.author = f.author /\ g.price = f.price /\ g.like = f.like
      <4>1. f = [query |-> f.query, tags |-> f.tags, not |-> f.not, author |-> f.author,
                 price |-> f.price, sort |-> f.sort, like |-> f.like, cur |-> f.cur]
        BY <1>1, FiltersAre
      <4>2. g.not = InsertSorted(f.not, t)
        BY <3>1, <4>1
      <4>3. g.query = f.query /\ g.tags = f.tags /\ g.author = f.author /\ g.price = f.price /\ g.like = f.like
        BY <3>1, <4>1
      <4> QED
        BY <3>1, <4>2, <4>3
    <3>3. /\ IsRequest(one) /\ one.query = g.query /\ one.tags = ToSet(g.tags) /\ one.not = ToSet(g.not)
          /\ one.author = g.author /\ one.price = g.price /\ one.like = g.like /\ one.minFirst = 0
      <4>1. Tidy(g, cat.rates) /\ 1 \in 1..MaxPage + 1 /\ "wanted" \in {"wanted", "omitted"}
        BY <1>2, <3>1
      <4> QED
        BY <4>1, OptionsAre
    <3> HIDE DEF one
    <3>4. SameButTags(o, one)
      BY <1>3, <3>2, <3>3 DEF SameButTags
    <3>5. /\ SameButTags(s, m) /\ m.tags = one.tags /\ m.not = one.not
          /\ Find(cat, one).total = Cardinality(Answers(cat, m))
      BY <1>3, <2>2, <3>3, <3>4, NarrowedTotal
    <3>6. m.not = s.not \cup {t} /\ m.tags = s.tags
      BY <1>5, <3>2, <3>3, <3>5
    <3>7. s.query = NoQuery \/ W \ C(t) # {}
      <4>1. ASSUME s.query # NoQuery, W \ C(t) = {}
            PROVE  FALSE
        <5>1. Filtered(s)
          BY <4>1 DEF Filtered
        <5>2. C(t) = W
          BY <2>6, <4>1
        <5> DEFINE w == Cardinality(W)
        <5>3. n < w /\ w \in Nat /\ n = w
          BY <1>6, <2>4, <5>1, <5>2
        <5> HIDE DEF w, n
        <5> QED
          BY <2>4, <5>3
      <4> QED
        BY <4>1
    <3> HIDE DEF m, s
    <3>8. Answers(cat, m) = W \ C(t)
      BY <3>5, <3>6, <3>7, NarrowedAnswers
    <3>9. Cardinality(W \ C(t)) = Cardinality(W) - Cardinality(C(t))
      <4> DEFINE c == C(t)
                 rest == W \ c
      <4>1. IsFiniteSet(c) /\ c \subseteq W
        BY <2>6
      <4> HIDE DEF W, c
      <4>2. IsFiniteSet(rest) /\ rest \cap c = {} /\ rest \cup c = W
        BY <1>6, <4>1, FS_Subset
      <4> HIDE DEF rest
      <4>3. Cardinality(W) = Cardinality(rest) + Cardinality(c) - Cardinality({})
        BY <4>1, <4>2, FS_Union
      <4>4. Cardinality({}) = 0 /\ Cardinality(rest) \in Nat /\ Cardinality(c) \in Nat
        BY <4>1, <4>2, FS_EmptySet, FS_CardinalityType
      <4> QED
        BY <4>3, <4>4 DEF rest, c
    <3> QED
      BY <2>4, <3>5, <3>8, <3>9 DEF g, one
  <2>11. Shown.total = Cardinality(W)
    BY <1>4, <2>3
  <2> HIDE DEF W, s, totalOf
  <2> QED
    BY <2>4, <2>9, <2>10, <2>11
<1> HIDE DEF totalOf
<1> QED
  BY <1>5, <1>7 DEF SidebarTellsTruth, totalOf, f
================================================================================
