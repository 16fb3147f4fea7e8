---------------------------- MODULE Records_proofs ----------------------------
(***************************************************************************)
(* Theorems about the records behind /stats: the crawl history and the     *)
(* arrival dates of module Ledger, and the webserver's tally of module     *)
(* Traffic, proved for every number of assets, requests, days kept and     *)
(* faults.                                                                 *)
(***************************************************************************)
EXTENDS Ledger, Traffic, ListTheorems, SequenceTheorems
-----------------------------------------------------------------------------
(* The history.                                                            *)

Entries == [nth : Nat, indexed : Nat, new : Nat, removed : Nat]

Stages == {"idle", "stamp", "assets", "map", "history"}
Stored == {"map", "history"}

\* A history in order, without room for more publishes than n.
Ordered(s, n) ==
    /\ s \in Seq(Entries) /\ Len(s) <= MaxHistory
    /\ \A i, j \in DOMAIN s : i < j => s[i].nth < s[j].nth
    /\ \A i \in DOMAIN s : s[i].nth + (Len(s) - i) <= n

\* It holds every publish that it should: one of the last up to n, later than
\* the one named and not missing for want of its own record.
Holds(s, n) == \E i \in DOMAIN s : s[i].nth = n
Full(s, after, n, missing) ==
    \A m \in after + 1..n : m + MaxHistory > n /\ m \notin missing => Holds(s, m)

\* Each entry adds up with the one before it, if that is of the publish before
\* and its crawl could read that publish's list.
AddsUp(s, unread) ==
    \A i \in DOMAIN s \ {1} :
        s[i].nth = s[i - 1].nth + 1 /\ s[i].nth \notin unread =>
            s[i].indexed + s[i].removed = s[i - 1].indexed + s[i].new

\* If its last entry is of publish n, that one listed so many.
Ends(s, n, listed) == \A i \in DOMAIN s : i = Len(s) /\ s[i].nth = n => s[i].indexed = listed

\* What the next entry compares with.
Compared == IF pc \in Stored THEN DOMAIN previous ELSE DOMAIN assets

CountersOK ==
    /\ pc \in Stages
    /\ faults \in Nat /\ publishes \in Nat
    /\ pc \in Stored => publishes > 0

ListsOK ==
    /\ DOMAIN assets \subseteq Assets
    /\ DOMAIN previous \subseteq Assets
    /\ DOMAIN current \subseteq Assets
    /\ pc \in Stored => assets = current

\* The list of the last publish is what the crawl in progress compares with,
\* if it could read it.
ReadInv ==
    /\ pc \in {"stamp", "assets"} /\ publishes + 1 \notin blind => previous = assets
    /\ faults = 0 /\ pc \in {"stamp", "assets"} => previous = assets

HistoryInv ==
    /\ since \in Nat
    /\ Ordered(history.is, Due)
    /\ Full(history.is, since, Due, lost)
    /\ AddsUp(history.is, blind)
    /\ (pc \in Stored /\ publishes \in blind) \/ Ends(history.is, Due, Cardinality(Compared))

LedgerInv == CountersOK /\ ListsOK /\ ReadInv /\ HistoryInv

\* The constants are numbers, the last two of them not zero.
LEMMA LedgerNumbers == MaxHistory \in Nat /\ MaxHistory > 0 /\ ForgetAfter \in Nat
                       /\ ForgetAfter > 0 /\ MaxCrawls \in Nat /\ MaxFaults \in Nat
                       /\ OldStock \subseteq Assets
BY LedgerBounds

\* What recordCrawlCompletion counts adds up: listed now and gone, listed
\* before and new.
LEMMA RecordAddsUp ==
    ASSUME NEW before, NEW now, IsFiniteSet(before), IsFiniteSet(now), publishes \in Nat
    PROVE  /\ Record(before, now) \in Entries
           /\ Record(before, now).nth = publishes
           /\ Record(before, now).indexed = Cardinality(now)
           /\ Record(before, now).indexed + Record(before, now).removed
                = Cardinality(before) + Record(before, now).new
<1>1. /\ IsFiniteSet(now \ before) /\ IsFiniteSet(before \ now)
      /\ IsFiniteSet(before \cap now) /\ before \cap now = now \cap before
  BY FS_Difference, FS_Intersection
<1>2. /\ Cardinality(now \ before) = Cardinality(now) - Cardinality(now \cap before)
      /\ Cardinality(before \ now) = Cardinality(before) - Cardinality(before \cap now)
  BY FS_Difference
<1>3. /\ Cardinality(now) \in Nat /\ Cardinality(before) \in Nat
      /\ Cardinality(now \ before) \in Nat /\ Cardinality(before \ now) \in Nat
      /\ Cardinality(now \cap before) \in Nat
  BY <1>1, FS_CardinalityType
<1> DEFINE r == Record(before, now)
<1>4. r = [nth |-> publishes, indexed |-> Cardinality(now),
           new |-> Cardinality(now \ before), removed |-> Cardinality(before \ now)]
  BY DEF Record
<1>5. r \in Entries
  BY <1>3, <1>4 DEF Entries
<1> HIDE DEF r
<1>6. /\ r.indexed = Cardinality(now)
      /\ r.new = Cardinality(now \ before) /\ r.removed = Cardinality(before \ now)
  BY <1>4
<1>7. r.indexed + r.removed = Cardinality(before) + r.new
  BY <1>1, <1>2, <1>3, <1>6
<1> QED
  BY <1>4, <1>5, <1>7 DEF r

Cut(s) == IF Len(s) < MaxHistory THEN 0 ELSE 1

\* r is s, less its oldest entry if it is full, and e.
ExtendedBy(r, s, e) ==
    /\ Len(r) = Len(s) + 1 - Cut(s)
    /\ r[Len(r)] = e
    /\ \A i \in 1..Len(r) - 1 : r[i] = s[i + Cut(s)]

\* PutHistory keeps the end of the history: the last entry is the new one,
\* and those before it are the last ones of what was there.
LEMMA TrimOfAppend ==
    ASSUME NEW S, NEW s \in Seq(S), Len(s) <= MaxHistory, NEW e \in S
    PROVE  Trim(Append(s, e)) \in Seq(S) /\ ExtendedBy(Trim(Append(s, e)), s, e)
<1> DEFINE t == Append(s, e)
<1>1. t \in Seq(S) /\ Len(t) = Len(s) + 1 /\ t[Len(s) + 1] = e /\ \A i \in 1..Len(s) : t[i] = s[i]
  OBVIOUS
<1>2. Len(s) \in Nat
  OBVIOUS
<1>3. CASE Len(s) < MaxHistory
  <2>1. Trim(t) = t
    BY <1>1, <1>2, <1>3, LedgerNumbers DEF Trim
  <2> QED
    BY <2>1, <1>1, <1>2, <1>3 DEF ExtendedBy, Cut
<1>4. CASE ~(Len(s) < MaxHistory)
  <2>1. Len(s) = MaxHistory
    BY <1>2, <1>4, LedgerNumbers
  <2>2. Trim(t) = SubSeq(t, 2, MaxHistory + 1)
    BY <1>1, <2>1, LedgerNumbers DEF Trim
  <2>3. /\ SubSeq(t, 2, MaxHistory + 1) \in Seq(S)
        /\ Len(SubSeq(t, 2, MaxHistory + 1)) = MaxHistory
        /\ \A i \in 1..MaxHistory : SubSeq(t, 2, MaxHistory + 1)[i] = t[i + 1]
    <3> HIDE DEF t
    <3>1. \A k \in 2..MaxHistory + 1 : t[k] \in S
      BY <1>1, <2>1, LedgerNumbers, ElementOfSeq
    <3> QED
      BY <3>1, <1>1, <2>1, LedgerNumbers, SubSeqProperties
  <2>4. \A i \in 1..MaxHistory - 1 : t[i + 1] = s[i + 1]
    BY <1>1, <2>1, LedgerNumbers
  <2> HIDE DEF t
  <2> QED
    BY <2>1, <2>2, <2>3, <2>4, <1>1, <1>4, LedgerNumbers DEF t, ExtendedBy, Cut
<1> QED
  BY <1>3, <1>4

\* What is in a history is of publishes, and of none that is still to come.
LEMMA OrderedIs ==
    ASSUME NEW s, NEW n \in Int, Ordered(s, n)
    PROVE  /\ s \in Seq(Entries) /\ Len(s) \in Nat /\ Len(s) <= MaxHistory /\ DOMAIN s = 1..Len(s)
           /\ \A i \in DOMAIN s : s[i] \in Entries /\ s[i].nth \in Nat /\ s[i].nth <= n
<1>1. s \in Seq(Entries) /\ Len(s) \in Nat /\ Len(s) <= MaxHistory /\ DOMAIN s = 1..Len(s)
  BY DEF Ordered
<1>2. \A i \in DOMAIN s : s[i] \in Entries
  BY <1>1, ElementOfSeq
<1>3. \A i \in DOMAIN s : s[i].nth \in Nat
  BY ONLY <1>2 DEF Entries
<1>4. \A i \in DOMAIN s : s[i].nth + (Len(s) - i) <= n
  BY DEF Ordered
<1>5. ASSUME NEW i \in DOMAIN s
      PROVE  s[i].nth <= n
  <2> DEFINE x == s[i].nth
             l == Len(s)
  <2>1. x \in Nat /\ i \in 1..l /\ l \in Nat /\ x + (l - i) <= n /\ n \in Int
    BY <1>1, <1>3, <1>4
  <2> HIDE DEF x, l
  <2>2. x <= n
    BY ONLY <2>1
  <2> QED
    BY <2>2 DEF x
<1> QED
  BY <1>1, <1>2, <1>3, <1>5

\* Adding the record of publish n.
LEMMA OrderedAppend ==
    ASSUME NEW n \in Nat, NEW s, Ordered(s, n - 1), NEW e \in Entries, e.nth = n
    PROVE  Ordered(Trim(Append(s, e)), n)
<1> DEFINE r == Trim(Append(s, e))
           cut == Cut(s)
<1>0. s \in Seq(Entries) /\ Len(s) \in Nat /\ Len(s) <= MaxHistory /\ DOMAIN s = 1..Len(s)
      /\ \A i \in DOMAIN s : s[i].nth \in Nat /\ s[i].nth <= n - 1
  BY OrderedIs
<1>a. r \in Seq(Entries) /\ ExtendedBy(r, s, e)
  BY <1>0, TrimOfAppend
<1>2. /\ r \in Seq(Entries) /\ Len(r) = Len(s) + 1 - cut /\ r[Len(r)] = e
      /\ \A i \in 1..Len(r) - 1 : r[i] = s[i + cut]
  BY <1>a DEF ExtendedBy
<1>b. cut = IF Len(s) < MaxHistory THEN 0 ELSE 1
  BY DEF Cut
<1> HIDE DEF r, cut
<1>3. cut \in {0, 1} /\ Len(r) \in Nat /\ Len(r) > 0 /\ Len(r) <= MaxHistory
      /\ DOMAIN r = 1..Len(r)
  BY <1>b, <1>0, <1>2, LedgerNumbers
<1>4. \A i \in 1..Len(r) - 1 : i + cut \in DOMAIN s
  BY ONLY <1>0, <1>2, <1>3
<1>5. /\ \A i, j \in DOMAIN s : i < j => s[i].nth < s[j].nth
      /\ \A i \in DOMAIN s : s[i].nth + (Len(s) - i) <= n - 1
  BY DEF Ordered
<1>6. n \in Nat /\ e.nth = n
  OBVIOUS
<1>7. ASSUME NEW i \in DOMAIN r
      PROVE  r[i].nth + (Len(r) - i) <= n
  <2>1. CASE i = Len(r)
    <3>1. r[i].nth = n /\ Len(r) - i = 0
      BY ONLY <1>2, <1>3, <1>6, <2>1
    <3> QED
      BY ONLY <1>6, <3>1
  <2>2. CASE i # Len(r)
    <3> DEFINE k == i + cut
               x == s[k].nth
    <3>1. i \in 1..Len(r) - 1
      BY ONLY <1>3, <2>2
    <3>2. k \in DOMAIN s /\ r[i] = s[k]
      BY ONLY <1>2, <1>4, <3>1
    <3>3. x \in Nat /\ x + (Len(s) - k) <= n - 1
      BY ONLY <1>0, <1>5, <3>2
    <3> HIDE DEF x
    <3>4. x + (Len(r) - i) <= n
      BY ONLY <1>0, <1>2, <1>3, <1>6, <3>1, <3>3
    <3> QED
      BY ONLY <3>2, <3>4 DEF x
  <2> QED
    BY <2>1, <2>2
<1>8. ASSUME NEW i \in DOMAIN r, NEW j \in DOMAIN r, i < j
      PROVE  r[i].nth < r[j].nth
  <2>1. i \in 1..Len(r) - 1 /\ (j = Len(r) \/ j \in 1..Len(r) - 1)
    BY <1>3, <1>8
  <2>2. CASE j = Len(r)
    <3>1. i + cut \in DOMAIN s /\ r[i] = s[i + cut] /\ r[j] = e
      BY ONLY <2>1, <2>2, <1>2, <1>4
    <3>2. r[i].nth \in Nat /\ r[i].nth <= n - 1 /\ r[j].nth = n
      BY ONLY <1>0, <1>6, <3>1
    <3> QED
      BY ONLY <1>6, <3>2
  <2>3. CASE j \in 1..Len(r) - 1
    <3>1. i + cut \in DOMAIN s /\ j + cut \in DOMAIN s
      BY ONLY <2>1, <2>3, <1>4
    <3>2. i + cut < j + cut
      BY <2>1, <2>3, <1>3, <1>8
    <3> QED
      BY ONLY <3>1, <3>2, <1>5, <2>1, <2>3, <1>2
  <2> QED
    BY <2>1, <2>2, <2>3
<1> QED
  BY <1>2, <1>3, <1>7, <1>8 DEF Ordered, r

\* The entry that a full history loses for it is of a publish it need not hold.
LEMMA FullAppend ==
    ASSUME NEW n \in Nat, NEW s, Ordered(s, n - 1), NEW e \in Entries, e.nth = n,
           NEW after \in Nat, NEW missing, Full(s, after, n - 1, missing)
    PROVE  Full(Trim(Append(s, e)), after, n, missing)
<1> DEFINE r == Trim(Append(s, e))
           cut == Cut(s)
<1>0. s \in Seq(Entries) /\ Len(s) \in Nat /\ Len(s) <= MaxHistory /\ DOMAIN s = 1..Len(s)
      /\ \A i \in DOMAIN s : s[i].nth \in Nat
  BY OrderedIs
<1>a. r \in Seq(Entries) /\ ExtendedBy(r, s, e)
  BY <1>0, TrimOfAppend
<1>2. /\ r \in Seq(Entries) /\ Len(r) = Len(s) + 1 - cut /\ r[Len(r)] = e
      /\ \A i \in 1..Len(r) - 1 : r[i] = s[i + cut]
  BY <1>a DEF ExtendedBy
<1>b. cut = IF Len(s) < MaxHistory THEN 0 ELSE 1
  BY DEF Cut
<1> HIDE DEF r, cut
<1>3. cut \in {0, 1} /\ Len(r) \in Nat /\ Len(r) > 0 /\ DOMAIN r = 1..Len(r)
  BY <1>b, <1>0, <1>2, LedgerNumbers
<1>4. n \in Nat /\ e.nth = n /\ after \in Nat
  OBVIOUS
<1>5. \A i \in DOMAIN s : s[i].nth + (Len(s) - i) <= n - 1
  BY DEF Ordered
<1>6. ASSUME NEW m \in after + 1..n, m + MaxHistory > n, m \notin missing
      PROVE  Holds(r, m)
  <2>1. CASE m = n
    BY <1>2, <1>3, <1>4, <2>1 DEF Holds
  <2>2. CASE m # n
    <3>1. m \in after + 1..n - 1 /\ m + MaxHistory > n - 1
      BY <1>4, <1>6, <2>2, LedgerNumbers
    <3>2. PICK k \in DOMAIN s : s[k].nth = m
      BY <1>6, <3>1 DEF Full, Holds
    <3>3. k - cut \in 1..Len(r) - 1
      <4>1. CASE cut = 0
        BY ONLY <1>0, <1>2, <1>3, <3>2, <4>1
      <4>2. CASE cut = 1
        <5>1. Len(s) = MaxHistory
          <6>1. Len(s) \in Nat /\ Len(s) <= MaxHistory
            BY ONLY <1>0
          <6>2. ~(Len(s) < MaxHistory)
            BY ONLY <1>b, <4>2
          <6> QED
            BY ONLY <6>1, <6>2, LedgerNumbers
        <5>2. m + (MaxHistory - k) <= n - 1 /\ m \in Int
          BY <1>4, <1>5, <3>1, <3>2, <5>1
        <5>3. k # 1
          BY ONLY <1>4, <1>6, <5>2, LedgerNumbers
        <5> QED
          BY ONLY <1>0, <1>2, <1>3, <3>2, <4>2, <5>3
      <4> QED
        BY <1>3, <4>1, <4>2
    <3>4. (k - cut) + cut = k
      BY ONLY <1>0, <1>3, <3>2
    <3>5. r[k - cut].nth = m
      BY ONLY <1>2, <3>2, <3>3, <3>4
    <3>6. k - cut \in DOMAIN r
      BY ONLY <1>3, <3>3
    <3> QED
      BY <3>5, <3>6 DEF Holds
  <2> QED
    BY <2>1, <2>2
<1> QED
  BY <1>6 DEF Full, r

\* What is added adds up with the entry before it.
LEMMA SumsAppend ==
    ASSUME NEW n \in Nat, NEW s, Ordered(s, n - 1), NEW e \in Entries, e.nth = n,
           NEW unread, AddsUp(s, unread), NEW listed,
           n \in unread \/ Ends(s, n - 1, listed), e.indexed + e.removed = listed + e.new
    PROVE  AddsUp(Trim(Append(s, e)), unread)
<1> DEFINE r == Trim(Append(s, e))
           cut == Cut(s)
<1>0. s \in Seq(Entries) /\ Len(s) \in Nat /\ Len(s) <= MaxHistory /\ DOMAIN s = 1..Len(s)
      /\ \A i \in DOMAIN s : s[i].nth \in Nat
  BY OrderedIs
<1>a. r \in Seq(Entries) /\ ExtendedBy(r, s, e)
  BY <1>0, TrimOfAppend
<1>2. /\ r \in Seq(Entries) /\ Len(r) = Len(s) + 1 - cut /\ r[Len(r)] = e
      /\ \A i \in 1..Len(r) - 1 : r[i] = s[i + cut]
  BY <1>a DEF ExtendedBy
<1>b. cut = IF Len(s) < MaxHistory THEN 0 ELSE 1
  BY DEF Cut
<1> HIDE DEF r, cut
<1>3. cut \in {0, 1} /\ Len(r) \in Nat /\ Len(r) > 0 /\ DOMAIN r = 1..Len(r)
  BY <1>b, <1>0, <1>2, LedgerNumbers
<1>4. ASSUME NEW i \in DOMAIN r \ {1}, r[i].nth = r[i - 1].nth + 1, r[i].nth \notin unread
      PROVE  r[i].indexed + r[i].removed = r[i - 1].indexed + r[i].new
  <2>1. i \in 2..Len(r) /\ i - 1 \in 1..Len(r) - 1
    BY ONLY <1>3, <1>4
  <2> DEFINE k == i + cut
  <2>2. r[i - 1] = s[k - 1] /\ k - 1 \in DOMAIN s
    <3> DEFINE l == Len(s)
               m == Len(r)
    <3>1. (i - 1) + cut = k - 1
      BY ONLY <1>3, <2>1
    <3>2. r[i - 1] = s[k - 1]
      BY ONLY <1>2, <2>1, <3>1
    <3>3. l \in Nat /\ m = l + 1 - cut /\ cut \in {0, 1} /\ i \in 2..m
      BY ONLY <1>0, <1>2, <1>3, <2>1
    <3> HIDE DEF l, m
    <3>4. k - 1 \in 1..l
      BY ONLY <3>3
    <3> QED
      BY ONLY <1>0, <3>2, <3>4 DEF l
  <2>3. CASE i = Len(r)
    <3>1. k - 1 = Len(s) /\ r[i] = e
      BY ONLY <1>0, <1>2, <1>3, <2>3
    <3>2. s[k - 1].nth = n - 1
      <4> DEFINE x == s[k - 1].nth
      <4>1. x \in Nat /\ n = x + 1
        BY <1>0, <1>4, <2>2, <3>1
      <4> HIDE DEF x
      <4>2. x = n - 1
        BY ONLY <4>1
      <4> QED
        BY <4>2 DEF x
    <3>3. Ends(s, n - 1, listed)
      BY <1>4, <3>1
    <3>4. s[k - 1].indexed = listed
      BY <2>2, <3>1, <3>2, <3>3 DEF Ends
    <3> QED
      BY <2>2, <3>1, <3>4
  <2>4. CASE i # Len(r)
    <3>1. r[i] = s[k] /\ k \in DOMAIN s \ {1}
      BY ONLY <1>0, <1>2, <1>3, <2>1, <2>4
    <3> HIDE DEF k
    <3>2. s[k].nth = s[k - 1].nth + 1 /\ s[k].nth \notin unread
      BY <1>4, <2>2, <3>1
    <3>3. s[k].indexed + s[k].removed = s[k - 1].indexed + s[k].new
      BY <3>1, <3>2 DEF AddsUp
    <3> QED
      BY <2>2, <3>1, <3>3
  <2> QED
    BY <2>3, <2>4
<1> QED
  BY <1>4 DEF AddsUp, r

\* Its last entry is the one added.
LEMMA EndsAppend ==
    ASSUME NEW n \in Nat, NEW s, Ordered(s, n - 1), NEW e \in Entries, NEW m
    PROVE  Ends(Trim(Append(s, e)), m, e.indexed)
<1> DEFINE r == Trim(Append(s, e))
<1>1. s \in Seq(Entries) /\ Len(s) <= MaxHistory
  BY OrderedIs
<1>2. r[Len(r)] = e
  BY <1>1, TrimOfAppend DEF ExtendedBy
<1> HIDE DEF r
<1> QED
  BY <1>2 DEF Ends, r

\* A history of the record of publish n alone, and one of none.
LEMMA ShortHistory ==
    ASSUME NEW n \in Nat, NEW missing, NEW unread
    PROVE  /\ \A e \in Entries : e.nth = n =>
                 /\ Ordered(<<e>>, n) /\ Full(<<e>>, n - 1, n, missing)
                 /\ AddsUp(<<e>>, unread) /\ \A m : Ends(<<e>>, m, e.indexed)
           /\ Ordered(<<>>, n) /\ AddsUp(<<>>, unread) /\ \A m, listed : Ends(<<>>, m, listed)
<1>1. ASSUME NEW e \in Entries, e.nth = n
      PROVE  /\ Ordered(<<e>>, n) /\ Full(<<e>>, n - 1, n, missing)
             /\ AddsUp(<<e>>, unread) /\ \A m : Ends(<<e>>, m, e.indexed)
  <2> DEFINE s == <<e>>
  <2>1. s \in Seq(Entries) /\ Len(s) = 1 /\ s[1] = e
    OBVIOUS
  <2>2. DOMAIN s = {1}
    BY <2>1
  <2> HIDE DEF s
  <2>3. Ordered(s, n)
    BY <1>1, <2>1, <2>2, LedgerNumbers DEF Ordered
  <2>4. Full(s, n - 1, n, missing)
    <3>1. \A m \in (n - 1) + 1..n : m = n
      OBVIOUS
    <3> QED
      BY <1>1, <2>1, <2>2, <3>1 DEF Full, Holds
  <2>5. AddsUp(s, unread) /\ \A m : Ends(s, m, e.indexed)
    BY <2>1, <2>2 DEF AddsUp, Ends
  <2> QED
    BY <2>3, <2>4, <2>5 DEF s
<1>2. Ordered(<<>>, n) /\ AddsUp(<<>>, unread) /\ \A m, listed : Ends(<<>>, m, listed)
  <2> DEFINE s == <<>>
  <2>1. s \in Seq(Entries) /\ Len(s) = 0 /\ DOMAIN s = {}
    OBVIOUS
  <2> HIDE DEF s
  <2>2. Ordered(s, n) /\ AddsUp(s, unread) /\ \A m, listed : Ends(s, m, listed)
    BY <2>1, LedgerNumbers DEF Ordered, AddsUp, Ends
  <2> QED
    BY <2>2 DEF s
<1> QED
  BY <1>1, <1>2

\* After another publish whose record is missing, what is there is still in
\* order and full, and its last entry is of an earlier publish.
LEMMA HistoryStays ==
    ASSUME NEW n \in Nat, NEW s, Ordered(s, n - 1), NEW after \in Nat, NEW missing,
           Full(s, after, n - 1, missing), NEW listed
    PROVE  /\ Ordered(s, n) /\ Full(s, after, n, missing \cup {n}) /\ Ends(s, n, listed)
<1>0. s \in Seq(Entries) /\ Len(s) \in Nat /\ DOMAIN s = 1..Len(s) /\ n \in Nat /\ after \in Nat
      /\ \A i \in DOMAIN s : s[i].nth \in Nat /\ s[i].nth <= n - 1
  BY OrderedIs
<1>1. Ordered(s, n)
  <2>1. ASSUME NEW i \in DOMAIN s
        PROVE  s[i].nth + (Len(s) - i) <= n
    <3>1. s[i].nth + (Len(s) - i) <= n - 1
      BY DEF Ordered
    <3> DEFINE x == s[i].nth
    <3>2. x \in Nat /\ x + (Len(s) - i) <= n - 1 /\ i \in 1..Len(s)
      BY <1>0, <3>1
    <3> HIDE DEF x
    <3>3. x + (Len(s) - i) <= n
      BY ONLY <1>0, <3>2
    <3> QED
      BY <3>3 DEF x
  <2> QED
    BY <2>1 DEF Ordered
<1>2. Full(s, after, n, missing \cup {n})
  <2>1. ASSUME NEW m \in after + 1..n, m + MaxHistory > n, m \notin missing \cup {n}
        PROVE  Holds(s, m)
    <3>1. m \in after + 1..n - 1 /\ m + MaxHistory > n - 1 /\ m \notin missing
      BY <1>0, <2>1, LedgerNumbers
    <3> QED
      BY <3>1 DEF Full
  <2> QED
    BY <2>1 DEF Full
<1>3. Ends(s, n, listed)
  <2>1. \A i \in DOMAIN s : s[i].nth # n
    BY ONLY <1>0
  <2> QED
    BY <2>1 DEF Ends
<1> QED
  BY <1>1, <1>2, <1>3

\* No file and no map have nothing in them.
LEMMA NothingThere == DOMAIN NoMap = {} /\ NoFile.state = "missing" /\ BadFile.state = "corrupt"
                      /\ NoFile.is = NoMap /\ BadFile.is = NoMap
BY DEF NoMap, NoFile, BadFile

\* A file has the contents it was written with.
LEMMA FileIs == \A c : File(c).state = "good" /\ File(c).is = c
BY DEF File

\* The step counter of the crawl, the count of publishes and that of faults
\* are what they are meant to be.
LEMMA CountersStep ==
    ASSUME CountersOK, [Next]_vars
    PROVE  CountersOK' /\ faults' >= faults /\ (faults' = faults \/ faults' = faults + 1)
<1> USE DEF CountersOK, Stages, Stored
<1>1. CASE ReadPrevious
  BY <1>1 DEF ReadPrevious, memory, Fault
<1>2. CASE Stamp
  BY <1>2 DEF Stamp, memory, Fault
<1>3. CASE PutAssets
  BY <1>3 DEF PutAssets, memory, Fault
<1>4. CASE PutFirstSeen
  BY <1>4 DEF PutFirstSeen, memory, Fault
<1>5. CASE RecordCrawlCompletion
  BY <1>5 DEF RecordCrawlCompletion, PutHistory, Fault
<1>6. CASE GiveUp
  BY <1>6 DEF GiveUp, memory, Fault
<1>7. CASE Damage
  BY <1>7 DEF Damage, memory, Fault
<1>8. CASE WebReads \/ WebMovesAside
  BY <1>8 DEF WebReads, WebMovesAside, memory
<1>9. CASE UNCHANGED vars
  BY <1>9 DEF vars, memory
<1> QED
  BY <1>1, <1>2, <1>3, <1>4, <1>5, <1>6, <1>7, <1>8, <1>9 DEF Next

\* Every list of assets is a list of assets.
LEMMA ListsStep ==
    ASSUME ListsOK, [Next]_vars
    PROVE  ListsOK'
<1> USE DEF ListsOK, Stored
<1>1. CASE ReadPrevious
  BY <1>1, NothingThere DEF ReadPrevious, files
<1>2. CASE Stamp
  BY <1>2 DEF Stamp, Stamped
<1>3. CASE PutAssets
  BY <1>3 DEF PutAssets, locals
<1>4. CASE PutFirstSeen \/ RecordCrawlCompletion
  BY <1>4 DEF PutFirstSeen, RecordCrawlCompletion, locals
<1>5. CASE GiveUp \/ Damage \/ WebReads \/ WebMovesAside
  BY <1>5 DEF GiveUp, Damage, WebReads, WebMovesAside, locals, files
<1>6. CASE UNCHANGED vars
  BY <1>6 DEF vars, locals, files
<1> QED
  BY <1>1, <1>2, <1>3, <1>4, <1>5, <1>6 DEF Next

\* The list a crawl read is the one it compares with.
LEMMA ReadStep ==
    ASSUME CountersOK, ReadInv, [Next]_vars
    PROVE  ReadInv'
<1>0. faults \in Nat /\ faults' \in {faults, faults + 1} /\ (Fault => faults' = faults + 1)
  BY CountersStep DEF CountersOK, Fault
<1>1. CASE ReadPrevious
  <2>1. /\ pc' = "stamp" /\ assets' = assets /\ publishes' = publishes
        /\ \/ previous' = assets
           \/ blind' = blind \cup {publishes + 1} /\ faults' = faults + 1
    BY <1>0, <1>1 DEF ReadPrevious, files
  <2> QED
    BY <1>0, <2>1 DEF ReadInv
<1>2. CASE Stamp
  <2>1. /\ pc = "stamp" /\ assets' = assets /\ previous' = previous /\ publishes' = publishes
        /\ blind' = blind
    BY <1>2 DEF Stamp, memory
  <2> QED
    BY <1>0, <2>1 DEF ReadInv
<1>3. CASE PutAssets \/ PutFirstSeen \/ RecordCrawlCompletion \/ GiveUp
  <2>1. pc' \notin {"stamp", "assets"}
    BY <1>3 DEF PutAssets, PutFirstSeen, RecordCrawlCompletion, GiveUp
  <2> QED
    BY <2>1 DEF ReadInv
<1>4. CASE Damage \/ WebReads \/ WebMovesAside \/ UNCHANGED vars
  <2>1. /\ pc' = pc /\ assets' = assets /\ previous' = previous /\ publishes' = publishes
        /\ blind' = blind
    BY <1>4 DEF Damage, WebReads, WebMovesAside, vars, files, locals, memory
  <2> QED
    BY <1>0, <2>1 DEF ReadInv
<1> QED
  BY <1>1, <1>2, <1>3, <1>4 DEF Next

\* The record a crawl leaves: what it is, and what it is added to.
LEMMA EntryIs ==
    ASSUME LedgerInv, pc = "history"
    PROVE  LET entry == Record(DOMAIN previous, DOMAIN current)
           IN  /\ entry \in Entries
               /\ entry.nth = publishes
               /\ entry.indexed = Cardinality(DOMAIN current)
               /\ entry.indexed + entry.removed = Cardinality(DOMAIN previous) + entry.new
<1>1. IsFiniteSet(DOMAIN previous) /\ IsFiniteSet(DOMAIN current) /\ publishes \in Nat
  BY LedgerBounds, FS_Subset DEF LedgerInv, ListsOK, CountersOK
<1> QED
  BY <1>1, RecordAddsUp

\* The crawl's own record keeps the history as it should be, written or not.
LEMMA RecordStep ==
    ASSUME LedgerInv, RecordCrawlCompletion
    PROVE  HistoryInv'
<1> DEFINE entry == Record(DOMAIN previous, DOMAIN current)
           s == history.is
           n == publishes
           listed == Cardinality(DOMAIN previous)
<1>1. /\ pc = "history" /\ pc' = "idle" /\ publishes' = n /\ blind' = blind /\ assets' = assets
      /\ n \in Nat /\ n > 0 /\ assets = current /\ since \in Nat
  BY DEF RecordCrawlCompletion, LedgerInv, CountersOK, ListsOK, HistoryInv, Stored
<1>2. Due = n - 1 /\ Due' = n /\ Compared = DOMAIN previous /\ Compared' = DOMAIN current
  BY <1>1 DEF Due, Compared, Stored
<1>3. /\ entry \in Entries /\ entry.nth = n /\ entry.indexed = Cardinality(DOMAIN current)
      /\ entry.indexed + entry.removed = listed + entry.new
  BY <1>1, EntryIs
<1>4. /\ Ordered(s, n - 1) /\ Full(s, since, n - 1, lost) /\ AddsUp(s, blind)
      /\ n \in blind \/ Ends(s, n - 1, listed)
  BY <1>1, <1>2 DEF LedgerInv, HistoryInv
<1>5. \/ history' = File(Trim(Append(s, entry))) /\ lost' = lost /\ since' = since
      \/ history' = File(<<entry>>) /\ since' = Due
      \/ history' = NoFile /\ since' = Due /\ lost' = lost \cup {n}
      \/ history' = history /\ since' = since /\ lost' = lost \cup {n}
  BY DEF RecordCrawlCompletion, PutHistory
<1> HIDE DEF entry, listed, s, n
<1>6. CASE history' = File(Trim(Append(s, entry))) /\ lost' = lost /\ since' = since
  <2> DEFINE r == Trim(Append(s, entry))
  <2>1. Ordered(r, n) /\ Full(r, since, n, lost)
    BY <1>1, <1>3, <1>4, OrderedAppend, FullAppend
  <2>2. AddsUp(r, blind)
    BY <1>1, <1>3, <1>4, SumsAppend
  <2>3. Ends(r, n, Cardinality(DOMAIN current))
    BY <1>1, <1>3, <1>4, EndsAppend
  <2> HIDE DEF r
  <2>4. history'.is = r
    BY <1>6, FileIs DEF r
  <2> QED
    BY <1>1, <1>2, <1>6, <2>1, <2>2, <2>3, <2>4 DEF HistoryInv
<1>7. CASE history' = File(<<entry>>) /\ since' = Due
  <2> DEFINE r == <<entry>>
  <2>1. /\ Ordered(r, n) /\ Full(r, n - 1, n, lost') /\ AddsUp(r, blind)
        /\ Ends(r, n, Cardinality(DOMAIN current))
    BY <1>1, <1>3, ShortHistory
  <2> HIDE DEF r
  <2>2. history'.is = r
    BY <1>7, FileIs DEF r
  <2>3. since' = n - 1 /\ since' \in Nat
    BY <1>1, <1>2, <1>7
  <2> QED
    BY <1>1, <1>2, <2>1, <2>2, <2>3 DEF HistoryInv
<1>8. CASE history' = NoFile /\ since' = Due /\ lost' = lost \cup {n}
  <2> DEFINE r == <<>>
  <2>1. Ordered(r, n) /\ AddsUp(r, blind) /\ Ends(r, n, Cardinality(DOMAIN current))
    BY <1>1, ShortHistory
  <2> HIDE DEF r
  <2>2. history'.is = r
    BY <1>8 DEF NoFile, r
  <2>3. since' = n - 1 /\ since' \in Nat
    BY <1>1, <1>2, <1>8
  <2>4. \A m \in since' + 1..n : m = n
    BY <1>1, <2>3
  <2>5. Full(r, since', n, lost')
    BY <1>8, <2>4 DEF Full
  <2> QED
    BY <1>1, <1>2, <2>1, <2>2, <2>3, <2>5 DEF HistoryInv
<1>9. CASE history' = history /\ since' = since /\ lost' = lost \cup {n}
  <2>1. Ordered(s, n) /\ Full(s, since, n, lost') /\ Ends(s, n, Cardinality(DOMAIN current))
    BY <1>1, <1>4, <1>9, HistoryStays
  <2> QED
    BY <1>1, <1>2, <1>4, <1>9, <2>1 DEF HistoryInv, s
<1> QED
  BY <1>5, <1>6, <1>7, <1>8, <1>9

\* A history that has gone is as it should be until the next publish is due.
LEMMA HistoryGone ==
    ASSUME LedgerInv, history'.is = <<>>, since' = Due, pc' = pc, publishes' = publishes
    PROVE  HistoryInv'
<1>1. Due \in Nat /\ Due' = Due
  BY DEF LedgerInv, CountersOK, Due, Stored
<1>2. /\ Ordered(<<>>, Due) /\ AddsUp(<<>>, blind') /\ \A m, listed : Ends(<<>>, m, listed)
  BY <1>1, ShortHistory
<1>3. Full(<<>>, Due, Due, lost')
  <2>1. \A m \in Due + 1..Due : FALSE
    BY <1>1
  <2> QED
    BY <2>1 DEF Full
<1> QED
  BY <1>1, <1>2, <1>3 DEF HistoryInv

\* Every step keeps the history as it should be.
LEMMA HistoryStep ==
    ASSUME LedgerInv, [Next]_vars
    PROVE  HistoryInv'
<1>1. /\ since \in Nat /\ Ordered(history.is, Due) /\ Full(history.is, since, Due, lost)
      /\ AddsUp(history.is, blind)
      /\ (pc \in Stored /\ publishes \in blind) \/ Ends(history.is, Due, Cardinality(Compared))
  BY DEF LedgerInv, HistoryInv
<1>2. publishes \in Nat /\ (pc \in Stored => publishes > 0 /\ assets = current)
  BY DEF LedgerInv, CountersOK, ListsOK
\* A step that leaves alone the history, what is due and what it is compared with.
<1>3. ASSUME history' = history, since' = since, lost' = lost, blind' = blind,
             Due' = Due, Compared' = Compared, publishes' = publishes, pc \in Stored <=> pc' \in Stored
      PROVE  HistoryInv'
  BY <1>1, <1>3 DEF HistoryInv
<1>4. CASE RecordCrawlCompletion
  BY <1>4, RecordStep
<1>5. CASE ReadPrevious
  <2>1. /\ history' = history /\ since' = since /\ lost' = lost /\ publishes' = publishes
        /\ pc = "idle" /\ pc' = "stamp" /\ assets' = assets
        /\ blind' = blind \ {publishes + 1} \/ blind' = blind \cup {publishes + 1}
    BY <1>5 DEF ReadPrevious, files
  <2>2. Due = publishes /\ Due' = publishes /\ Compared' = Compared /\ pc \notin Stored
    BY <2>1 DEF Due, Compared, Stored
  <2>3. AddsUp(history.is, blind')
    <3>1. \A i \in DOMAIN history.is : history.is[i].nth # publishes + 1
      <4>1. \A i \in DOMAIN history.is : history.is[i].nth \in Nat /\ history.is[i].nth <= publishes
        BY <1>1, <1>2, <2>2, OrderedIs
      <4> QED
        BY ONLY <1>2, <4>1
    <3>2. \A i \in DOMAIN history.is : history.is[i].nth \notin blind' => history.is[i].nth \notin blind
      BY <2>1, <3>1
    <3> QED
      BY <1>1, <3>2 DEF AddsUp
  <2> QED
    BY <1>1, <2>1, <2>2, <2>3 DEF HistoryInv
<1>6. CASE Stamp
  <2>1. /\ history' = history /\ since' = since /\ lost' = lost /\ publishes' = publishes
        /\ pc = "stamp" /\ pc' = "assets" /\ assets' = assets /\ blind' = blind
    BY <1>6 DEF Stamp, memory
  <2> QED
    BY <1>3, <2>1 DEF Due, Compared, Stored
<1>7. CASE PutAssets
  <2>1. /\ history' = history /\ since' = since /\ lost' = lost /\ publishes' = publishes + 1
        /\ pc = "assets" /\ pc' = "map" /\ previous' = previous /\ blind' = blind
    BY <1>7 DEF PutAssets, locals
  <2>2. Due = publishes /\ Due' = publishes /\ Compared = DOMAIN assets /\ Compared' = DOMAIN previous
        /\ pc \notin Stored
    BY <1>2, <2>1 DEF Due, Compared, Stored
  <2>3. publishes + 1 \notin blind => previous = assets
    BY <2>1 DEF LedgerInv, ReadInv
  <2>4. publishes' \in blind' \/ Compared' = Compared
    BY <2>1, <2>2, <2>3
  <2>5. pc' \in Stored
    BY <2>1 DEF Stored
  <2> QED
    BY <1>1, <2>1, <2>2, <2>4, <2>5 DEF HistoryInv
<1>8. CASE PutFirstSeen
  <2>1. /\ history' = history /\ since' = since /\ lost' = lost /\ publishes' = publishes
        /\ pc = "map" /\ pc' = "history" /\ previous' = previous /\ blind' = blind
    BY <1>8 DEF PutFirstSeen, locals, memory
  <2> QED
    BY <1>3, <2>1 DEF Due, Compared, Stored
<1>9. CASE GiveUp
  <2>1. /\ history' = history /\ since' = since /\ publishes' = publishes /\ pc' = "idle"
        /\ assets' = assets /\ blind' = blind
        /\ IF pc \in Stored THEN lost' = lost \cup {publishes} ELSE lost' = lost
    BY <1>9 DEF GiveUp, files, Stored
  <2>2. CASE pc \in Stored
    <3>1. Due = publishes - 1 /\ Due' = publishes
      BY <2>1, <2>2 DEF Due, Stored
    <3>2. /\ Ordered(history.is, publishes) /\ Full(history.is, since, publishes, lost')
          /\ \A listed : Ends(history.is, publishes, listed)
      <4>1. publishes \in Nat /\ since \in Nat /\ lost' = lost \cup {publishes}
        BY <1>1, <1>2, <2>1, <2>2
      <4>2. Ordered(history.is, publishes - 1) /\ Full(history.is, since, publishes - 1, lost)
        BY <1>1, <3>1
      <4>3. ASSUME NEW listed
            PROVE  /\ Ordered(history.is, publishes)
                   /\ Full(history.is, since, publishes, lost \cup {publishes})
                   /\ Ends(history.is, publishes, listed)
        BY <4>1, <4>2, HistoryStays
      <4> QED
        BY <4>1, <4>3
    <3> QED
      BY <1>1, <2>1, <3>1, <3>2 DEF HistoryInv
  <2>3. CASE pc \notin Stored
    BY <1>3, <2>1, <2>3 DEF Due, Compared, Stored
  <2> QED
    BY <2>2, <2>3
<1>10. CASE Damage \/ WebReads \/ WebMovesAside \/ UNCHANGED vars
  <2>1. /\ pc' = pc /\ publishes' = publishes /\ assets' = assets /\ previous' = previous
        /\ blind' = blind /\ lost' = lost
        /\ \/ history' = history /\ since' = since
           \/ history' \in {NoFile, BadFile} /\ since' = Due
    BY <1>10 DEF Damage, WebReads, WebMovesAside, vars, files, locals, memory
  <2>2. CASE history' = history /\ since' = since
    BY <1>3, <2>1, <2>2 DEF Due, Compared
  <2>3. CASE history' \in {NoFile, BadFile} /\ since' = Due
    <3>1. history'.is = <<>>
      BY <2>3 DEF NoFile, BadFile
    <3> QED
      BY <2>1, <2>3, <3>1, HistoryGone
  <2> QED
    BY <2>1, <2>2, <2>3
<1> QED
  BY <1>4, <1>5, <1>6, <1>7, <1>8, <1>9, <1>10 DEF Next

\* It begins with no history.
LEMMA InitLedger == Init => LedgerInv
<1> SUFFICES ASSUME Init PROVE LedgerInv
  OBVIOUS
<1>1. /\ pc = "idle" /\ history = NoFile /\ faults = 0 /\ publishes = 0 /\ since = 0
      /\ DOMAIN assets \subseteq Assets /\ previous = NoMap /\ current = NoMap
  BY LedgerNumbers DEF Init
<1>2. CountersOK /\ ListsOK /\ ReadInv
  BY <1>1, NothingThere DEF CountersOK, ListsOK, ReadInv, Stages, Stored
<1>3. Due = 0 /\ history.is = <<>>
  BY <1>1 DEF Due, NoFile
<1>4. Ordered(<<>>, 0) /\ AddsUp(<<>>, blind) /\ \A m, listed : Ends(<<>>, m, listed)
  BY ShortHistory
<1>5. Full(<<>>, 0, 0, lost)
  BY DEF Full
<1>6. HistoryInv
  BY <1>1, <1>3, <1>4, <1>5 DEF HistoryInv
<1> QED
  BY <1>2, <1>6 DEF LedgerInv

\* What is known of the history says what the property does.
LEMMA LedgerInvAddsUp == LedgerInv => HistoryAddsUp
BY DEF LedgerInv, HistoryInv, Ordered, Full, Holds, AddsUp, HistoryAddsUp

\* The crawl history adds up (PutHistory, recordCrawlCompletion) through lost
\* writes, failed reads, damaged files and /stats moving the file aside, except
\* where HistoryAddsUp says what they take away: for any number of assets, crawls
\* and faults and any length of the history.
THEOREM HistoryIsSound == Spec => []HistoryAddsUp
<1>1. LedgerInv /\ [Next]_vars => LedgerInv'
  BY CountersStep, ListsStep, ReadStep, HistoryStep DEF LedgerInv
<1> QED
  BY <1>1, InitLedger, LedgerInvAddsUp, PTL DEF Spec
-----------------------------------------------------------------------------
(* The dates.                                                              *)

\* The map gives what it knows of a list the dates of the list.
Agree(known, listed) == \A a \in DOMAIN known \cap DOMAIN listed : known[a].first = listed[a]
Covers(seen, listed) == seen.state = "good" /\ DOMAIN listed \subseteq DOMAIN seen.is

SeenOK ==
    /\ firstSeen.state # "good" => firstSeen.is = NoMap
    /\ crawl \in Nat /\ crawl < Never
    /\ away \in [Assets -> Nat]

\* While at most one write was lost or one file damaged, the map contradicts
\* no published date; while none was, it has them all; and between reading the
\* last list and dating the new one, one of the two is at hand.
OneFaultInv ==
    /\ pc \in {"assets", "map"} =>
          DOMAIN current \subseteq DOMAIN merged /\ Agree(merged, current)
    /\ faults <= 1 /\ pc # "map" => Agree(firstSeen.is, assets)
    /\ faults = 0 /\ pc \in {"assets", "map"} => Agree(firstSeen.is, current)
    /\ faults = 0 /\ pc # "map" /\ publishes > 0 => Covers(firstSeen, assets)
    /\ faults <= 1 /\ pc = "stamp" /\ publishes > 0 =>
          previous = assets \/ (previous = NoMap /\ Covers(firstSeen, assets))
    /\ faults <= 1 /\ pc = "assets" /\ (publishes > 0 \/ previous = assets) =>
          \A a \in DOMAIN current \cap DOMAIN assets : current[a] = assets[a]

\* The assets that have a date and are not yet forgotten, and what should be
\* known of them.
Tracked == {a \in Assets : date[a] # Never /\ away[a] < ForgetAfter}
Known == [a \in Tracked |-> [first |-> date[a], missed |-> away[a]]]

\* Without faults, map and list together know exactly that.
ExactInv ==
    faults = 0 =>
        /\ firstSeen.state # "corrupt"
        /\ pc # "map" => Remembered(firstSeen.is, assets) = Known
        /\ pc = "map" => merged = Known /\ DOMAIN assets \subseteq Tracked
        /\ pc = "assets" => /\ current = Stamped(firstSeen.is, assets, DOMAIN current, crawl)
                            /\ merged = Merged(firstSeen.is, assets, DOMAIN current, crawl)

DatesInv == LedgerInv /\ SeenOK /\ OneFaultInv /\ ExactInv

\* The date a listed asset gets: the one remembered, else that of the last
\* list, else the crawl's.
LEMMA StampedIs ==
    ASSUME NEW known, NEW prev, NEW found, NEW now
    PROVE  /\ DOMAIN Stamped(known, prev, found, now) = found
           /\ \A a \in found : Stamped(known, prev, found, now)[a] =
                 IF a \in DOMAIN known THEN known[a].first
                 ELSE IF a \in DOMAIN prev THEN prev[a] ELSE now
BY DEF Stamped, Remembered

\* The map to store has every listed asset with the date it was given.
LEMMA MergedIs ==
    ASSUME NEW known, NEW prev, NEW found, NEW now
    PROVE  /\ found \subseteq DOMAIN Merged(known, prev, found, now)
           /\ Agree(Merged(known, prev, found, now), Stamped(known, prev, found, now))
BY StampedIs DEF Merged, Agree

\* What stampFirstSeen may find: the map that is there, or nothing in its place.
LEMMA StampCases ==
    ASSUME Stamp, SeenOK
    PROVE  \E known \in {firstSeen.is, NoMap} :
              /\ current' = Stamped(known, previous, DOMAIN current, crawl)
              /\ merged' = Merged(known, previous, DOMAIN current, crawl)
              /\ \/ known = firstSeen.is /\ faults' = faults
                    /\ (firstSeen' = firstSeen \/ (firstSeen' = NoFile /\ firstSeen.state = "corrupt"))
                 \/ known = NoMap /\ firstSeen' \in {NoFile, firstSeen} /\ faults' = faults + 1
<1>1. PICK known \in {firstSeen.is, NoMap} :
        /\ current' = Stamped(known, previous, DOMAIN current, crawl)
        /\ merged' = Merged(known, previous, DOMAIN current, crawl)
        /\ \/ known = firstSeen.is /\ firstSeen' = firstSeen /\ faults' = faults
           \/ known = NoMap /\ firstSeen.state = "corrupt"
              /\ firstSeen' \in {NoFile, firstSeen} /\ faults' = faults
           \/ known = NoMap /\ firstSeen' \in {NoFile, firstSeen} /\ faults' = faults + 1
  BY DEF Stamp, Fault
<1>2. firstSeen.state = "corrupt" => firstSeen.is = NoMap
  BY DEF SeenOK
<1>3. \/ known = firstSeen.is /\ faults' = faults
        /\ (firstSeen' = firstSeen \/ (firstSeen' = NoFile /\ firstSeen.state = "corrupt"))
      \/ known = NoMap /\ firstSeen' \in {NoFile, firstSeen} /\ faults' = faults + 1
  BY <1>1, <1>2
<1> WITNESS known \in {firstSeen.is, NoMap}
<1> QED
  BY <1>1, <1>3

\* The files and counters stay what they are meant to be.
LEMMA SeenStep ==
    ASSUME SeenOK, [Next]_vars
    PROVE  SeenOK'
<1> USE DEF SeenOK
<1>1. CASE ReadPrevious
  BY <1>1, LedgerNumbers DEF ReadPrevious, files, memory, Never
<1>2. CASE Stamp
  BY <1>2, NothingThere, LedgerNumbers DEF Stamp, memory, Never
<1>3. CASE PutAssets
  BY <1>3, LedgerNumbers DEF PutAssets, locals, Never
<1>4. CASE PutFirstSeen
  BY <1>4, FileIs, LedgerNumbers DEF PutFirstSeen, locals, memory, Never
<1>5. CASE RecordCrawlCompletion
  BY <1>5, LedgerNumbers DEF RecordCrawlCompletion, locals, memory, Never
<1>6. CASE GiveUp \/ WebReads \/ WebMovesAside
  BY <1>6, LedgerNumbers DEF GiveUp, WebReads, WebMovesAside, files, locals, memory, Never
<1>7. CASE Damage
  BY <1>7, NothingThere, LedgerNumbers DEF Damage, locals, memory, Never
<1>8. CASE UNCHANGED vars
  BY <1>8, LedgerNumbers DEF vars, files, locals, memory, Never
<1> QED
  BY <1>1, <1>2, <1>3, <1>4, <1>5, <1>6, <1>7, <1>8 DEF Next

\* Dating the new list: with one fault at most it follows the published dates.
LEMMA StampFollows ==
    ASSUME NEW known \in {firstSeen.is, NoMap}, NEW found, NEW now,
           Agree(firstSeen.is, assets),
           \/ previous = assets
           \/ previous = NoMap /\ known = firstSeen.is /\ DOMAIN assets \subseteq DOMAIN firstSeen.is
    PROVE  \A a \in found \cap DOMAIN assets : Stamped(known, previous, found, now)[a] = assets[a]
<1> SUFFICES ASSUME NEW a \in found, a \in DOMAIN assets
             PROVE  Stamped(known, previous, found, now)[a] = assets[a]
  OBVIOUS
<1>1. Stamped(known, previous, found, now)[a] =
         IF a \in DOMAIN known THEN known[a].first
         ELSE IF a \in DOMAIN previous THEN previous[a] ELSE now
  BY StampedIs
<1>2. a \in DOMAIN firstSeen.is => firstSeen.is[a].first = assets[a]
  BY DEF Agree
<1>3. CASE previous = assets
  BY <1>1, <1>2, <1>3, NothingThere
<1>4. CASE previous = NoMap /\ known = firstSeen.is /\ DOMAIN assets \subseteq DOMAIN firstSeen.is
  BY <1>1, <1>2, <1>4
<1> QED
  BY <1>3, <1>4

\* With nothing known there is nothing to contradict.
LEMMA NothingDisagrees == \A listed : Agree(NoMap, listed)
BY NothingThere DEF Agree

\* stampFirstSeen keeps the dates while one fault at most happened.
LEMMA OneFaultStamp ==
    ASSUME DatesInv, Stamp
    PROVE  OneFaultInv'
<1>1. /\ pc = "stamp" /\ pc' = "assets" /\ assets' = assets /\ publishes' = publishes
      /\ previous' = previous /\ faults \in Nat
  BY DEF Stamp, memory, DatesInv, LedgerInv, CountersOK
<1>2. PICK known \in {firstSeen.is, NoMap} :
        /\ current' = Stamped(known, previous, DOMAIN current, crawl)
        /\ merged' = Merged(known, previous, DOMAIN current, crawl)
        /\ \/ known = firstSeen.is /\ faults' = faults
              /\ (firstSeen' = firstSeen \/ (firstSeen' = NoFile /\ firstSeen.state = "corrupt"))
           \/ known = NoMap /\ firstSeen' \in {NoFile, firstSeen} /\ faults' = faults + 1
  BY StampCases DEF DatesInv
<1>3. faults' \in {faults, faults + 1} /\ firstSeen' \in {NoFile, firstSeen}
  BY <1>1, <1>2
<1>4. DOMAIN current' \subseteq DOMAIN merged' /\ Agree(merged', current')
  BY <1>2, MergedIs, StampedIs
<1>5. faults <= 1 => Agree(firstSeen.is, assets)
  BY <1>1 DEF DatesInv, OneFaultInv
<1>6. faults' = 0 => Agree(firstSeen'.is, current')
  <2>1. SUFFICES ASSUME faults' = 0 PROVE Agree(firstSeen'.is, current')
    OBVIOUS
  <2>2. known = firstSeen.is
    BY <2>1, <1>1, <1>2
  <2>3. Agree(known, current')
    BY <1>2, StampedIs DEF Agree
  <2> QED
    BY <2>2, <2>3, <1>3, NothingThere, NothingDisagrees
<1>7. faults' = 0 /\ publishes > 0 => Covers(firstSeen', assets)
  <2>1. SUFFICES ASSUME faults' = 0, publishes > 0 PROVE Covers(firstSeen', assets)
    OBVIOUS
  <2>2. faults = 0
    BY <2>1, <1>1, <1>2
  <2>3. Covers(firstSeen, assets)
    BY <2>1, <2>2, <1>1 DEF DatesInv, OneFaultInv
  <2> QED
    BY <2>1, <2>3, <1>1, <1>2 DEF Covers
<1>8. faults' <= 1 /\ (publishes > 0 \/ previous = assets) =>
          \A a \in DOMAIN current' \cap DOMAIN assets : current'[a] = assets[a]
  <2>1. SUFFICES ASSUME faults' <= 1, publishes > 0 \/ previous = assets
                 PROVE  \A a \in DOMAIN current' \cap DOMAIN assets : current'[a] = assets[a]
    OBVIOUS
  <2>2. faults <= 1 /\ Agree(firstSeen.is, assets)
    BY <2>1, <1>1, <1>3, <1>5
  <2>3. \/ previous = assets
        \/ previous = NoMap /\ known = firstSeen.is /\ DOMAIN assets \subseteq DOMAIN firstSeen.is
    <3>1. CASE previous # assets
      <4>1. faults # 0
        BY <3>1, <1>1 DEF DatesInv, LedgerInv, ReadInv
      <4>2. faults' = faults
        BY <4>1, <2>1, <1>1, <1>2
      <4>3. previous = NoMap /\ Covers(firstSeen, assets)
        BY <3>1, <2>1, <2>2, <1>1 DEF DatesInv, OneFaultInv
      <4> QED
        BY <4>2, <4>3, <1>1, <1>2 DEF Covers
    <3> QED
      BY <3>1
  <2>4. \A a \in DOMAIN current \cap DOMAIN assets :
            Stamped(known, previous, DOMAIN current, crawl)[a] = assets[a]
    BY <2>2, <2>3, StampFollows
  <2> QED
    BY <2>4, <1>2, StampedIs
<1>9. faults' <= 1 => Agree(firstSeen'.is, assets)
  <2>1. firstSeen'.is = firstSeen.is \/ firstSeen'.is = NoMap
    BY <1>3, NothingThere
  <2>2. faults' <= 1 => faults <= 1
    BY <1>1, <1>3
  <2> QED
    BY <2>1, <2>2, <1>5, NothingDisagrees
<1> QED
  BY <1>1, <1>4, <1>6, <1>7, <1>8, <1>9 DEF OneFaultInv

\* No step makes the dates contradict each other while one fault at most happened.
LEMMA OneFaultStep ==
    ASSUME DatesInv, [Next]_vars
    PROVE  OneFaultInv'
<1>0. faults \in Nat /\ faults' \in {faults, faults + 1} /\ (Fault => faults' = faults + 1)
  BY CountersStep DEF DatesInv, LedgerInv, CountersOK, Fault
<1> USE <1>0
<1>1. CASE Stamp
  BY <1>1, OneFaultStamp
<1>2. CASE ReadPrevious
  <2>1. /\ pc = "idle" /\ pc' = "stamp" /\ assets' = assets /\ firstSeen' = firstSeen
        /\ publishes' = publishes
        /\ \/ previous' = assets
           \/ previous' = NoMap /\ faults' = faults + 1
    BY <1>2 DEF ReadPrevious, files, memory
  <2> QED
    BY <2>1 DEF OneFaultInv, DatesInv
<1>3. CASE PutAssets
  <2>1. /\ pc = "assets" /\ pc' = "map" /\ assets' = current /\ firstSeen' = firstSeen
        /\ current' = current /\ merged' = merged /\ faults' = faults
    BY <1>3 DEF PutAssets, locals
  <2> QED
    BY <2>1 DEF OneFaultInv, DatesInv
<1>4. CASE PutFirstSeen
  <2>1. /\ pc = "map" /\ pc' = "history" /\ assets' = assets /\ current' = current
        /\ merged' = merged /\ publishes' = publishes
        /\ \/ firstSeen' = File(merged) /\ faults' = faults
           \/ firstSeen' = firstSeen /\ faults' = faults + 1
    BY <1>4 DEF PutFirstSeen, locals, memory
  <2>2. assets = current /\ DOMAIN current \subseteq DOMAIN merged /\ Agree(merged, current)
    BY <2>1 DEF DatesInv, LedgerInv, ListsOK, OneFaultInv, Stored
  <2>3. CASE firstSeen' = File(merged)
    BY <2>1, <2>2, <2>3, FileIs DEF OneFaultInv, Covers
  <2>4. CASE firstSeen' = firstSeen /\ faults' = faults + 1
    <3>1. faults' <= 1 => Agree(firstSeen.is, current)
      BY <2>1, <2>4 DEF DatesInv, OneFaultInv
    <3> QED
      BY <2>1, <2>2, <2>4, <3>1 DEF OneFaultInv
  <2> QED
    BY <2>1, <2>3, <2>4
<1>5. CASE RecordCrawlCompletion
  <2>1. /\ pc = "history" /\ pc' = "idle" /\ assets' = assets /\ firstSeen' = firstSeen
        /\ publishes' = publishes
    BY <1>5 DEF RecordCrawlCompletion, memory
  <2> QED
    BY <2>1 DEF OneFaultInv, DatesInv
<1>6. CASE GiveUp
  <2>1. /\ pc' = "idle" /\ assets' = assets /\ firstSeen' = firstSeen
        /\ publishes' = publishes /\ (pc \in Stored => faults' = faults + 1)
    BY <1>6 DEF GiveUp, files, memory, Stored
  <2>2. pc = "map" => assets = current
    BY DEF DatesInv, LedgerInv, ListsOK, Stored
  <2> QED
    BY <2>1, <2>2 DEF OneFaultInv, DatesInv, Stored
<1>7. CASE Damage
  <2>1. /\ pc' = pc /\ assets' = assets /\ current' = current /\ merged' = merged
        /\ previous' = previous /\ publishes' = publishes /\ faults' = faults + 1
        /\ firstSeen' \in {firstSeen, BadFile}
    BY <1>7 DEF Damage, locals, memory
  <2>2. Agree(firstSeen.is, assets) => Agree(firstSeen'.is, assets)
    BY <2>1, NothingThere, NothingDisagrees
  <2>3. faults' <= 1 => faults = 0
    BY <2>1
  <2>4. faults = 0 /\ pc = "stamp" => previous = assets
    BY DEF DatesInv, LedgerInv, ReadInv
  <2> QED
    BY <2>1, <2>2, <2>3, <2>4 DEF OneFaultInv, DatesInv
<1>8. CASE WebReads \/ WebMovesAside \/ UNCHANGED vars
  <2>1. /\ pc' = pc /\ assets' = assets /\ current' = current /\ merged' = merged
        /\ previous' = previous /\ publishes' = publishes /\ faults' = faults
        /\ firstSeen' = firstSeen
    BY <1>8 DEF WebReads, WebMovesAside, vars, files, locals, memory
  <2> QED
    BY <2>1 DEF OneFaultInv, DatesInv
<1> QED
  BY <1>1, <1>2, <1>3, <1>4, <1>5, <1>6, <1>7, <1>8 DEF Next

\* What is known stays what is known while no date or count changes.
LEMMA KnownStays ==
    ASSUME date' = date, away' = away
    PROVE  Known' = Known /\ Tracked' = Tracked
BY DEF Known, Tracked

\* Without faults a listed asset gets the date it is tracked with, and one not
\* tracked the crawl's.
LEMMA ExactDates ==
    ASSUME DatesInv, faults = 0, pc = "assets"
    PROVE  \A a \in DOMAIN current : current[a] = IF a \in Tracked THEN date[a] ELSE crawl
<1>1. Remembered(firstSeen.is, assets) = Known
      /\ current = Stamped(firstSeen.is, assets, DOMAIN current, crawl)
  BY DEF DatesInv, ExactInv
<1> DEFINE found == DOMAIN current
<1>2. Stamped(firstSeen.is, assets, found, crawl) =
         [a \in found |-> IF a \in Tracked THEN date[a] ELSE crawl]
  <2>1. DOMAIN Known = Tracked /\ \A a \in Tracked : Known[a].first = date[a]
    BY DEF Known
  <2> HIDE DEF found
  <2> QED
    BY <2>1, <1>1 DEF Stamped
<1> QED
  BY <1>1, <1>2

\* The map that is to be stored tracks what the publish makes tracked.
LEMMA ExactPut ==
    ASSUME DatesInv, PutAssets, faults = 0
    PROVE  merged = Known' /\ DOMAIN current \subseteq Tracked'
<1> DEFINE found == DOMAIN current
<1>1. /\ pc = "assets" /\ found \subseteq Assets
      /\ date' = [a \in Assets |-> IF a \in found THEN current[a] ELSE date[a]]
      /\ away' = [a \in Assets |-> IF a \in found THEN 0 ELSE away[a] + 1]
  BY DEF PutAssets, DatesInv, LedgerInv, ListsOK
<1>2. /\ Remembered(firstSeen.is, assets) = Known
      /\ merged = Merged(firstSeen.is, assets, found, crawl)
      /\ current = Stamped(firstSeen.is, assets, found, crawl)
  BY <1>1 DEF DatesInv, ExactInv
<1>3. \A a \in found : current[a] = IF a \in Tracked THEN date[a] ELSE crawl
  BY <1>1, ExactDates
<1>4. crawl \in Nat /\ crawl < Never /\ away \in [Assets -> Nat]
  BY DEF DatesInv, SeenOK
<1>5. DOMAIN Known = Tracked
      /\ \A a \in Tracked : Known[a] = [first |-> date[a], missed |-> away[a]]
  BY DEF Known
<1> DEFINE kept == {a \in Tracked \ found : away[a] + 1 < ForgetAfter}
<1> HIDE DEF found
<1>6. merged = [a \in found \cup kept |->
                   IF a \in found THEN [first |-> current[a], missed |-> 0]
                   ELSE [first |-> date[a], missed |-> away[a] + 1]]
  <2>1. {a \in DOMAIN Known \ found : Known[a].missed + 1 < ForgetAfter} = kept
    BY <1>5
  <2>2. \A a \in kept : [Known[a] EXCEPT !.missed = @ + 1] = [first |-> date[a], missed |-> away[a] + 1]
    BY <1>5
  <2> HIDE DEF kept
  <2> QED
    BY <2>1, <2>2, <1>2 DEF Merged
<1>7. Tracked' = found \cup kept
  <2>1. \A a \in found : date'[a] # Never /\ away'[a] = 0 /\ a \in Assets
    BY <1>1, <1>3, <1>4 DEF Tracked
  <2>2. \A a \in Assets \ found : date'[a] = date[a] /\ away'[a] = away[a] + 1 /\ away[a] \in Nat
    BY <1>1, <1>4
  <2>3. Never' = Never
    BY DEF Never
  <2>4. Tracked \subseteq Assets
    BY DEF Tracked
  <2> QED
    BY <2>1, <2>2, <2>3, <2>4, LedgerNumbers DEF Tracked
<1>8. Known' = [a \in Tracked' |-> [first |-> date'[a], missed |-> away'[a]]]
  BY DEF Known
<1>9. \A a \in Tracked' : /\ a \in Assets
                          /\ a \in found => date'[a] = current[a] /\ away'[a] = 0
                          /\ a \notin found => date'[a] = date[a] /\ away'[a] = away[a] + 1
  BY <1>1, <1>7 DEF Tracked
<1> HIDE DEF kept
<1> QED
  BY <1>6, <1>7, <1>8, <1>9 DEF found

\* A map that knows every listed asset is all that is remembered.
LEMMA RememberedAll ==
    ASSUME DOMAIN assets \subseteq Tracked
    PROVE  Remembered(Known, assets) = Known
<1>1. DOMAIN Known = Tracked /\ Known = [a \in Tracked |-> Known[a]]
  BY DEF Known
<1> QED
  BY <1>1 DEF Remembered

\* No step makes the records differ from what happened while there are no faults.
LEMMA ExactStep ==
    ASSUME DatesInv, [Next]_vars
    PROVE  ExactInv'
<1>0. faults \in Nat /\ faults' \in {faults, faults + 1} /\ (Fault => faults' = faults + 1)
  BY CountersStep DEF DatesInv, LedgerInv, CountersOK, Fault
<1> SUFFICES ASSUME faults' = 0
             PROVE  ExactInv'
  BY DEF ExactInv
<1>1. faults = 0 /\ ~Fault
  BY <1>0
<1>2. /\ firstSeen.state # "corrupt"
      /\ pc # "map" => Remembered(firstSeen.is, assets) = Known
      /\ pc = "map" => merged = Known /\ DOMAIN assets \subseteq Tracked
      /\ pc = "assets" => /\ current = Stamped(firstSeen.is, assets, DOMAIN current, crawl)
                          /\ merged = Merged(firstSeen.is, assets, DOMAIN current, crawl)
  BY <1>1 DEF DatesInv, ExactInv
\* A step that leaves the map, the list and the dates alone.
<1>3. ASSUME firstSeen' = firstSeen, assets' = assets, date' = date, away' = away,
             pc # "map", pc' \notin {"map", "assets"}
      PROVE  ExactInv'
  BY <1>2, <1>3, KnownStays DEF ExactInv
<1>4. CASE ReadPrevious
  BY <1>3, <1>4 DEF ReadPrevious, files, memory
<1>5. CASE Stamp
  <2>1. /\ pc = "stamp" /\ pc' = "assets" /\ assets' = assets /\ crawl' = crawl
        /\ date' = date /\ away' = away
    BY <1>5 DEF Stamp, memory
  <2>2. previous = assets
    BY <2>1, <1>1 DEF DatesInv, LedgerInv, ReadInv
  <2>3. PICK known \in {firstSeen.is, NoMap} :
          /\ current' = Stamped(known, previous, DOMAIN current, crawl)
          /\ merged' = Merged(known, previous, DOMAIN current, crawl)
          /\ \/ known = firstSeen.is /\ faults' = faults
                /\ (firstSeen' = firstSeen \/ (firstSeen' = NoFile /\ firstSeen.state = "corrupt"))
             \/ known = NoMap /\ firstSeen' \in {NoFile, firstSeen} /\ faults' = faults + 1
    BY <1>5, StampCases DEF DatesInv
  <2>4. known = firstSeen.is /\ firstSeen' = firstSeen
    BY <2>3, <1>0, <1>1, <1>2
  <2>5. DOMAIN current' = DOMAIN current
    BY <2>3, StampedIs
  <2>6. current' = Stamped(firstSeen'.is, assets', DOMAIN current', crawl')
        /\ merged' = Merged(firstSeen'.is, assets', DOMAIN current', crawl')
    BY <2>1, <2>2, <2>3, <2>4, <2>5
  <2>7. Remembered(firstSeen'.is, assets') = Known'
    BY <2>1, <2>4, <1>2, KnownStays
  <2> QED
    BY <2>1, <2>4, <2>6, <2>7, <1>2 DEF ExactInv
<1>6. CASE PutAssets
  <2>1. pc' = "map" /\ firstSeen' = firstSeen /\ assets' = current /\ merged' = merged
    BY <1>6 DEF PutAssets, locals
  <2>2. merged = Known' /\ DOMAIN current \subseteq Tracked'
    BY <1>1, <1>6, ExactPut
  <2> QED
    BY <2>1, <2>2, <1>2 DEF ExactInv
<1>7. CASE PutFirstSeen
  <2>1. /\ pc = "map" /\ pc' = "history" /\ assets' = assets /\ firstSeen' = File(merged)
        /\ date' = date /\ away' = away
    BY <1>1, <1>7 DEF PutFirstSeen, memory
  <2>2. firstSeen'.is = Known /\ Remembered(Known, assets) = Known
    BY <2>1, <1>2, FileIs, RememberedAll
  <2>3. Remembered(firstSeen'.is, assets') = Known'
    BY <2>1, <2>2, KnownStays
  <2> QED
    BY <2>1, <2>3, FileIs DEF ExactInv
<1>8. CASE RecordCrawlCompletion
  BY <1>3, <1>8 DEF RecordCrawlCompletion, memory
<1>9. CASE GiveUp
  BY <1>1, <1>3, <1>9 DEF GiveUp, files, memory
<1>10. CASE Damage
  BY <1>1, <1>10 DEF Damage
<1>11. CASE WebReads \/ WebMovesAside \/ UNCHANGED vars
  <2>1. /\ firstSeen' = firstSeen /\ assets' = assets /\ date' = date /\ away' = away
        /\ pc' = pc /\ merged' = merged /\ current' = current /\ crawl' = crawl
    BY <1>11 DEF WebReads, WebMovesAside, vars, files, locals, memory
  <2> QED
    BY <2>1, <1>2, KnownStays DEF ExactInv
<1> QED
  BY <1>4, <1>5, <1>6, <1>7, <1>8, <1>9, <1>10, <1>11 DEF Next

\* In the beginning the old stock is tracked, with the date 0.
LEMMA InitDates == Init => DatesInv
<1> SUFFICES ASSUME Init PROVE DatesInv
  OBVIOUS
<1>1. /\ pc = "idle" /\ faults = 0 /\ publishes = 0 /\ crawl = 0
      /\ firstSeen.state = "missing" /\ firstSeen.is = NoMap
      /\ assets = [a \in OldStock |-> 0]
      /\ date = [a \in Assets |-> IF a \in OldStock THEN 0 ELSE Never]
      /\ away = [a \in Assets |-> 0]
  BY NothingThere DEF Init
<1>2. SeenOK
  BY <1>1, LedgerNumbers DEF SeenOK, Never
<1>3. OneFaultInv
  BY <1>1, NothingDisagrees DEF OneFaultInv
<1>4. Tracked = OldStock
  BY <1>1, LedgerNumbers DEF Tracked, Never
<1>5. Remembered(firstSeen.is, assets) = [a \in OldStock |-> [first |-> 0, missed |-> 0]]
  BY <1>1, NothingThere DEF Remembered
<1>6. Known = [a \in OldStock |-> [first |-> 0, missed |-> 0]]
  BY <1>1, <1>4, LedgerNumbers DEF Known
<1>7. ExactInv
  BY <1>1, <1>5, <1>6 DEF ExactInv
<1> QED
  BY <1>2, <1>3, <1>7, InitLedger DEF DatesInv

\* The step that stores the new list keeps the promise about its dates.
LEMMA PutKeepsDates ==
    ASSUME DatesInv, PutAssets
    PROVE  \A a \in DOMAIN assets' :
             /\ a \in DOMAIN assets /\ faults <= 1 /\ (publishes > 0 \/ previous = assets) =>
                  assets'[a] = assets[a]
             /\ faults = 0 =>
                  assets'[a] = IF date[a] # Never /\ away[a] < ForgetAfter THEN date[a] ELSE crawl
<1>1. pc = "assets" /\ assets' = current /\ DOMAIN current \subseteq Assets
  BY DEF PutAssets, DatesInv, LedgerInv, ListsOK
<1>2. faults <= 1 /\ (publishes > 0 \/ previous = assets) =>
         \A a \in DOMAIN current \cap DOMAIN assets : current[a] = assets[a]
  BY <1>1 DEF DatesInv, OneFaultInv
<1>3. faults = 0 => \A a \in DOMAIN current :
         current[a] = IF date[a] # Never /\ away[a] < ForgetAfter THEN date[a] ELSE crawl
  BY <1>1, ExactDates DEF Tracked
<1> QED
  BY <1>1, <1>2, <1>3

\* The arrival dates are kept (stampFirstSeen, firstSeenForgetAfter): through one
\* fault, of assets in two publishes in a row; through absences too, and for no
\* longer than ForgetAfter of them, when nothing has failed.  A lost map does not
\* forgive a miss (publishCrawl).  For any number of assets and crawls.
THEOREM DatesAreKept == Spec => DatesKept
<1>1. DatesInv /\ [Next]_vars => DatesInv'
  BY CountersStep, ListsStep, ReadStep, HistoryStep, SeenStep, OneFaultStep, ExactStep
     DEF DatesInv, LedgerInv
<1>2. ASSUME DatesInv, Next, pc = "assets", pc' = "map"
      PROVE  PutAssets
  BY <1>2 DEF Next, ReadPrevious, Stamp, PutFirstSeen, RecordCrawlCompletion, GiveUp,
     Damage, WebReads, WebMovesAside, locals
<1>3. DatesInv /\ [Next]_vars =>
        [pc = "assets" /\ pc' = "map" =>
          \A a \in DOMAIN assets' :
             /\ a \in DOMAIN assets /\ faults <= 1 /\ (publishes > 0 \/ previous = assets) =>
                  assets'[a] = assets[a]
             /\ faults = 0 =>
                  assets'[a] = IF date[a] # Never /\ away[a] < ForgetAfter THEN date[a] ELSE crawl]_vars
  BY <1>2, PutKeepsDates
<1> QED
  BY <1>1, <1>3, InitDates, PTL DEF Spec, DatesKept
-----------------------------------------------------------------------------
(* The tally.                                                              *)

Phases == {"serving", "draining", "persisting", "exiting", "down"}
Stopping == {"persisting", "exiting"}
Steps == {"idle", "total", "searches", "bump"}
AllFields == {"total", "searches", "days"}
Days == [epochDay : Nat, n : Nat]
Zeros == [f \in Fields |-> 0]

\* What is counted, read, written and shown: two totals and a ring of days.
IsTally(t) ==
    /\ t = [f \in AllFields |-> t[f]]
    /\ t["total"] \in Nat /\ t["searches"] \in Nat
    /\ t["days"] \in [Slots -> Days]

Total == base["total"] + count["total"]
Searches == base["searches"] + count["searches"]

\* The searches that are counted in the total and not yet on a day.
Pending == {r \in Requests : req[r].step = "bump"}

ClockOK == day \in 1..MaxDay /\ phase \in Phases

RequestsOK ==
    /\ req \in [Requests -> [step : Steps, search : BOOLEAN, day : Nat]]
    /\ \A r \in Requests : req[r].step = "bump" => req[r].day \in 1..MaxDay

CountsOK ==
    /\ base \in [Fields -> Nat] /\ count \in [Fields -> Nat]
    /\ days \in [Slots -> Days]
    /\ ever = [f \in AllFields |-> ever[f]]
    /\ ever["total"] \in Nat /\ ever["searches"] \in Nat
    /\ ever["days"] \in [1..MaxDay -> Nat]

CopiesOK ==
    /\ snap = [t \in Persisters |-> snap[t]]
    /\ \A t \in Persisters : snap[t].next \in 1..4 /\ IsTally(snap[t].read)
    /\ IsTally(file)

\* A process that is down holds nothing.
DownOK ==
    phase = "down" =>
        /\ base = Zeros /\ count = Zeros
        /\ req = [r \in Requests |-> Idle] /\ snap = [t \in Persisters |-> NotWriting]

TrafficTypes == ClockOK /\ RequestsOK /\ CountsOK /\ CopiesOK /\ DownOK

\* The constants are numbers, the requests finitely many.
LEMMA TrafficNumbers ==
    /\ IsFiniteSet(Requests) /\ DaysKept \in Nat /\ DaysKept > 1
    /\ MaxDay \in Nat /\ MaxDay > 0 /\ MaxArrivals \in Nat /\ MaxLives \in Nat /\ MaxMishaps \in Nat
BY TrafficConstants

\* Every day has a slot of the ring.
LEMMA DayHasSlot == \A d \in Nat : d % DaysKept \in Slots
BY TrafficNumbers DEF Slots

\* No file is a tally of nothing.
LEMMA NoTrafficIs ==
    /\ IsTally(NoTraffic) /\ NoTraffic["total"] = 0 /\ NoTraffic["searches"] = 0
    /\ NoTraffic["days"] = [s \in Slots |-> NoDay]
<1>1. NoDay \in Days
  BY DEF NoDay, Days
<1>2. /\ NoTraffic = [f \in AllFields |-> NoTraffic[f]] /\ NoTraffic["total"] = 0
      /\ NoTraffic["searches"] = 0 /\ NoTraffic["days"] = [s \in Slots |-> NoDay]
  BY DEF NoTraffic, Tally, AllFields, Fields
<1> QED
  BY <1>1, <1>2 DEF IsTally

\* What /stats shows is a tally of the counters.
LEMMA InMemoryIs ==
    ASSUME CountsOK
    PROVE  /\ IsTally(InMemory) /\ InMemory["total"] = Total /\ InMemory["searches"] = Searches
           /\ InMemory["days"] = days /\ Total \in Nat /\ Searches \in Nat
<1>1. /\ InMemory = [f \in AllFields |-> InMemory[f]] /\ InMemory["total"] = Total
      /\ InMemory["searches"] = Searches /\ InMemory["days"] = days
  BY DEF InMemory, Tally, AllFields, Fields, Total, Searches
<1>2. Total \in Nat /\ Searches \in Nat /\ days \in [Slots -> Days]
  BY DEF CountsOK, Total, Searches, Fields
<1> QED
  BY <1>1, <1>2 DEF IsTally

\* Snapshot copies the days, then the total, then the searches.
LEMMA ReadOrderIs ==
    Len(ReadOrder) = 3 /\ ReadOrder[1] = "days" /\ ReadOrder[2] = "total" /\ ReadOrder[3] = "searches"
BY DEF ReadOrder

\* The phase of the process and the clock keep their range.
LEMMA ClockStep ==
    ASSUME ClockOK, [TrafficNext]_trafficVars
    PROVE  ClockOK'
<1> USE DEF ClockOK, Phases
<1>1. CASE Midnight
  BY <1>1, TrafficNumbers DEF Midnight
<1>2. CASE Signal \/ Down \/ Restore
  BY <1>2 DEF Signal, Down, Restore
<1>3. CASE ShutdownReturns
  BY <1>3 DEF ShutdownReturns
<1>4. ASSUME NEW r \in Requests, Arrive(r) \/ AddTo(r) \/ bumpDay(r)
      PROVE  ClockOK'
  BY <1>4 DEF Arrive, AddTo, bumpDay
<1>5. ASSUME NEW t \in Persisters, Read(t)
      PROVE  ClockOK'
  BY <1>5 DEF Read
<1>6. ASSUME NEW t \in Persisters, Write(t)
      PROVE  ClockOK'
  BY <1>6 DEF Write
<1>7. CASE UNCHANGED trafficVars
  BY <1>7 DEF trafficVars
<1> QED
  BY <1>1, <1>2, <1>3, <1>4, <1>5, <1>6, <1>7 DEF TrafficNext

\* Each request is at a step of RecordRequest.
LEMMA RequestsStep ==
    ASSUME ClockOK, RequestsOK, [TrafficNext]_trafficVars
    PROVE  RequestsOK'
<1> USE DEF RequestsOK, Steps
<1>0. Idle \in [step : Steps, search : BOOLEAN, day : Nat] /\ Idle.step = "idle"
      /\ day \in Nat /\ day \in 1..MaxDay
  BY TrafficNumbers DEF Idle, ClockOK
<1>1. CASE Midnight \/ Signal \/ ShutdownReturns \/ Restore \/ UNCHANGED trafficVars
  BY <1>1 DEF Midnight, Signal, ShutdownReturns, Restore, trafficVars
<1>2. CASE Down
  <2>1. req' = [r \in Requests |-> Idle]
    BY <1>2 DEF Down
  <2> QED
    BY <2>1, <1>0
<1>3. ASSUME NEW r \in Requests, Arrive(r)
      PROVE  RequestsOK'
  <2>1. PICK search \in BOOLEAN :
          req' = [req EXCEPT ![r] = [Idle EXCEPT !.step = "total", !.search = search]]
    BY <1>3 DEF Arrive
  <2> DEFINE new == [Idle EXCEPT !.step = "total", !.search = search]
  <2>2. new \in [step : Steps, search : BOOLEAN, day : Nat] /\ new.step = "total"
    BY <2>1 DEF Idle
  <2> HIDE DEF new
  <2> QED
    BY <2>1, <2>2 DEF new
<1>4. ASSUME NEW r \in Requests, AddTo(r)
      PROVE  RequestsOK'
  <2> DEFINE old == req[r]
             new == CASE old.step = "searches" -> [old EXCEPT !.step = "bump", !.day = day]
                      [] old.search /\ old.step = "total" -> [old EXCEPT !.step = "searches"]
                      [] OTHER -> Idle
  <2>1. req' = [req EXCEPT ![r] = new]
    BY <1>4 DEF AddTo
  <2>2. old \in [step : Steps, search : BOOLEAN, day : Nat]
    OBVIOUS
  <2>3. new \in [step : Steps, search : BOOLEAN, day : Nat] /\ (new.step = "bump" => new.day = day)
    <3> HIDE DEF old
    <3>1. CASE old.step = "searches"
      BY <3>1, <2>2, <1>0
    <3>2. CASE old.step # "searches" /\ old.search /\ old.step = "total"
      BY <3>2, <2>2, <1>0
    <3>3. CASE old.step # "searches" /\ ~(old.search /\ old.step = "total")
      BY <3>3, <2>2, <1>0
    <3> QED
      BY <3>1, <3>2, <3>3
  <2> HIDE DEF new
  <2> QED
    BY <2>1, <2>3, <1>0
<1>5. ASSUME NEW r \in Requests, bumpDay(r)
      PROVE  RequestsOK'
  BY <1>0, <1>5 DEF bumpDay
<1>6. ASSUME NEW t \in Persisters, Read(t) \/ Write(t)
      PROVE  RequestsOK'
  BY <1>6 DEF Read, Write
<1> QED
  BY <1>1, <1>2, <1>3, <1>4, <1>5, <1>6 DEF TrafficNext

\* A day's slot once a search is put on it.
LEMMA BumpedIs ==
    ASSUME NEW b \in Days, NEW d \in Nat
    PROVE  /\ Bumped(b, d) \in Days /\ Bumped(b, d).epochDay = d
           /\ Bumped(b, d).n = IF b.epochDay = d THEN b.n + 1 ELSE 1
BY DEF Bumped, Days

\* What restoreDays keeps of a ring: each slot as it is, or empty.
LEMMA RestoredIs ==
    ASSUME NEW ring \in [Slots -> Days]
    PROVE  /\ restoreDays(ring) \in [Slots -> Days]
           /\ \A s \in Slots : restoreDays(ring)[s] \in {ring[s], NoDay}
           /\ NoDay \in Days /\ NoDay.n = 0
<1>1. NoDay \in Days /\ NoDay.n = 0
  BY DEF NoDay, Days
<1> QED
  BY <1>1 DEF restoreDays

\* What is read back at startup is a tally.
LEMMA RestoreIs ==
    ASSUME CopiesOK, Restore
    PROVE  /\ file' = file \/ file' = NoTraffic
           /\ IsTally(file') /\ base' \in [Fields -> Nat]
           /\ base'["total"] = file'["total"] /\ base'["searches"] = file'["searches"]
           /\ days' = restoreDays(file'["days"])
<1>1. file' = file \/ file' = NoTraffic
  BY DEF Restore
<1>2. IsTally(file')
  BY <1>1, NoTrafficIs DEF CopiesOK
<1>3. base' = [f \in Fields |-> file'[f]] /\ days' = restoreDays(file'["days"])
  BY DEF Restore
<1>4. file'["total"] \in Nat /\ file'["searches"] \in Nat
  BY <1>2 DEF IsTally
<1> QED
  BY <1>1, <1>2, <1>3, <1>4 DEF Fields

\* The additions of RecordRequest.
LEMMA AddToIs ==
    ASSUME CountsOK, NEW r \in Requests, AddTo(r)
    PROVE  \E f \in Fields :
              /\ req[r].step = f
              /\ count' \in [Fields -> Nat] /\ count'[f] = count[f] + 1
              /\ \A g \in Fields \ {f} : count'[g] = count[g]
              /\ ever' = [g \in AllFields |-> ever'[g]] /\ ever'[f] = ever[f] + 1
              /\ \A g \in AllFields \ {f} : ever'[g] = ever[g]
<1> DEFINE f == req[r].step
<1>1. f \in Fields /\ count' = [count EXCEPT ![f] = @ + 1] /\ ever' = [ever EXCEPT ![f] = @ + 1]
  BY DEF AddTo
<1> HIDE DEF f
<1>2. Fields \subseteq AllFields
  BY DEF Fields, AllFields
<1>3. /\ count' \in [Fields -> Nat] /\ count'[f] = count[f] + 1
      /\ \A g \in Fields \ {f} : count'[g] = count[g]
  BY <1>1 DEF CountsOK
<1>4. /\ ever' = [g \in AllFields |-> ever'[g]] /\ ever'[f] = ever[f] + 1
      /\ \A g \in AllFields \ {f} : ever'[g] = ever[g]
  BY <1>1, <1>2 DEF CountsOK
<1> QED
  BY <1>1, <1>3, <1>4 DEF f

\* bumpDay puts one search on the day it read.
LEMMA BumpIs ==
    ASSUME CountsOK, RequestsOK, NEW r \in Requests, bumpDay(r)
    PROVE  LET d == req[r].day
           IN  /\ d \in 1..MaxDay /\ d \in Nat /\ d % DaysKept \in Slots
               /\ days' = [days EXCEPT ![d % DaysKept] = Bumped(days[d % DaysKept], d)]
               /\ days' \in [Slots -> Days]
               /\ ever' = [g \in AllFields |-> ever'[g]]
               /\ ever'["total"] = ever["total"] /\ ever'["searches"] = ever["searches"]
               /\ ever'["days"] = [ever["days"] EXCEPT ![d] = @ + 1]
               /\ ever'["days"] \in [1..MaxDay -> Nat]
<1> DEFINE d == req[r].day
           slot == d % DaysKept
<1>1. d \in 1..MaxDay /\ d \in Nat /\ slot \in Slots
  BY TrafficNumbers, DayHasSlot DEF bumpDay, RequestsOK
<1>2. /\ days' = [days EXCEPT ![slot] = Bumped(days[slot], d)]
      /\ ever' = [ever EXCEPT !["days"] = [ever["days"] EXCEPT ![d] = @ + 1]]
  BY DEF bumpDay
<1> HIDE DEF d, slot
<1>3. days' \in [Slots -> Days]
  BY <1>1, <1>2, BumpedIs DEF CountsOK
<1>4. ever'["days"] = [ever["days"] EXCEPT ![d] = @ + 1] /\ ever'["total"] = ever["total"]
      /\ ever'["searches"] = ever["searches"] /\ ever' = [g \in AllFields |-> ever'[g]]
  BY <1>2 DEF CountsOK, AllFields
<1>5. ever'["days"] \in [1..MaxDay -> Nat]
  <2> DEFINE e == ever["days"]
  <2>1. e \in [1..MaxDay -> Nat] /\ ever'["days"] = [e EXCEPT ![d] = @ + 1]
    BY <1>4 DEF CountsOK
  <2> HIDE DEF e
  <2> QED
    BY <1>1, <2>1
<1> QED
  BY <1>1, <1>2, <1>3, <1>4, <1>5 DEF d, slot

\* The counters are numbers, and the days days.
LEMMA CountsStep ==
    ASSUME TrafficTypes, [TrafficNext]_trafficVars
    PROVE  CountsOK'
<1>0. CountsOK /\ RequestsOK /\ CopiesOK
  BY DEF TrafficTypes
<1>1. CASE Midnight \/ Signal \/ ShutdownReturns \/ UNCHANGED trafficVars
  BY <1>0, <1>1 DEF Midnight, Signal, ShutdownReturns, trafficVars, CountsOK
<1>2. CASE Down
  <2>1. base' = Zeros /\ count' = Zeros /\ days' = [s \in Slots |-> NoDay] /\ ever' = ever
    BY <1>2 DEF Down, Zeros
  <2>2. Zeros \in [Fields -> Nat] /\ NoDay \in Days
    BY DEF Zeros, NoDay, Days
  <2> QED
    BY <1>0, <2>1, <2>2 DEF CountsOK
<1>3. CASE Restore
  <2>1. count' = count /\ ever' = ever
    BY <1>3 DEF Restore
  <2>2. base' \in [Fields -> Nat] /\ days' \in [Slots -> Days]
    BY <1>0, <1>3, RestoreIs, RestoredIs DEF IsTally
  <2> QED
    BY <1>0, <2>1, <2>2 DEF CountsOK
<1>4. ASSUME NEW r \in Requests, Arrive(r)
      PROVE  CountsOK'
  BY <1>0, <1>4 DEF Arrive, CountsOK
<1>5. ASSUME NEW r \in Requests, AddTo(r)
      PROVE  CountsOK'
  <2>1. base' = base /\ days' = days
    BY <1>5 DEF AddTo
  <2>2. PICK f \in Fields :
              /\ count' \in [Fields -> Nat]
              /\ ever' = [g \in AllFields |-> ever'[g]] /\ ever'[f] = ever[f] + 1
              /\ \A g \in AllFields \ {f} : ever'[g] = ever[g]
    BY <1>0, <1>5, AddToIs
  <2>3. ever'["total"] \in Nat /\ ever'["searches"] \in Nat /\ ever'["days"] = ever["days"]
    <3>1. ever["total"] \in Nat /\ ever["searches"] \in Nat
      BY <1>0 DEF CountsOK
    <3>2. CASE f = "total"
      BY <3>1, <3>2, <2>2 DEF AllFields
    <3>3. CASE f = "searches"
      BY <3>1, <3>3, <2>2 DEF AllFields
    <3> QED
      BY <3>2, <3>3 DEF Fields
  <2> QED
    BY <1>0, <2>1, <2>2, <2>3 DEF CountsOK
<1>6. ASSUME NEW r \in Requests, bumpDay(r)
      PROVE  CountsOK'
  <2>1. base' = base /\ count' = count
    BY <1>6 DEF bumpDay
  <2> QED
    BY <1>0, <1>6, <2>1, BumpIs DEF CountsOK
<1>7. ASSUME NEW t \in Persisters, Read(t) \/ Write(t)
      PROVE  CountsOK'
  BY <1>0, <1>7 DEF Read, Write, CountsOK
<1> QED
  BY <1>1, <1>2, <1>3, <1>4, <1>5, <1>6, <1>7 DEF TrafficNext

\* A step of Snapshot copies the next of its three parts as it is now.
LEMMA ReadIs ==
    ASSUME TrafficTypes, NEW t \in Persisters, Read(t)
    PROVE  /\ snap[t].next \in 1..3 /\ snap'[t].next = snap[t].next + 1
           /\ IsTally(snap'[t].read)
           /\ snap'[t].read["days"] = IF snap[t].next = 1 THEN days ELSE snap[t].read["days"]
           /\ snap'[t].read["total"] = IF snap[t].next = 2 THEN Total ELSE snap[t].read["total"]
           /\ snap'[t].read["searches"] = IF snap[t].next = 3 THEN Searches ELSE snap[t].read["searches"]
           /\ snap[t].next = 1 /\ snap'[t].late => phase \in Stopping
           /\ snap[t].next # 1 => snap'[t].late = snap[t].late
           /\ \A x \in Persisters \ {t} : snap'[x] = snap[x]
           /\ snap' = [x \in Persisters |-> snap'[x]]
<1> DEFINE n == snap[t].next
           f == ReadOrder[n]
           old == snap[t].read
           read == [old EXCEPT ![f] = InMemory[f]]
           new == [next |-> n + 1, read |-> read,
                   late |-> IF n = 1 THEN phase \in {"persisting", "exiting"} ELSE snap[t].late]
<1>1. snap' = [snap EXCEPT ![t] = new]
  BY DEF Read
<1>2. snap = [x \in Persisters |-> snap[x]] /\ n \in 1..4 /\ IsTally(old)
  BY DEF TrafficTypes, CopiesOK
<1>3. n \in 1..3
  <2>1. n <= Len(ReadOrder)
    BY DEF Read
  <2> HIDE DEF n
  <2> QED
    BY <2>1, <1>2, ReadOrderIs
<1>4. /\ IsTally(InMemory) /\ InMemory["total"] = Total /\ InMemory["searches"] = Searches
      /\ InMemory["days"] = days
  BY InMemoryIs DEF TrafficTypes
<1>5. /\ snap'[t] = new /\ \A x \in Persisters \ {t} : snap'[x] = snap[x]
      /\ snap' = [x \in Persisters |-> snap'[x]]
  <2> HIDE DEF new
  <2> QED
    BY <1>1, <1>2
<1>6. f = (IF n = 1 THEN "days" ELSE IF n = 2 THEN "total" ELSE "searches")
  <2> HIDE DEF n
  <2> QED
    BY <1>3, ReadOrderIs
<1> HIDE DEF f, n, old
<1>7. /\ IsTally(read)
      /\ read["days"] = IF n = 1 THEN days ELSE old["days"]
      /\ read["total"] = IF n = 2 THEN Total ELSE old["total"]
      /\ read["searches"] = IF n = 3 THEN Searches ELSE old["searches"]
  BY <1>2, <1>3, <1>4, <1>6 DEF IsTally, AllFields
<1> HIDE DEF read
<1>8. /\ new.next = n + 1 /\ new.read = read
      /\ n = 1 /\ new.late => phase \in Stopping
      /\ n # 1 => new.late = snap[t].late
  BY DEF Stopping
<1> HIDE DEF new
<1> QED
  BY <1>3, <1>5, <1>7, <1>8 DEF n, old

\* What is being written, and the file, are tallies.
LEMMA CopiesStep ==
    ASSUME TrafficTypes, [TrafficNext]_trafficVars
    PROVE  CopiesOK'
<1>0. CopiesOK
  BY DEF TrafficTypes
<1>a. NotWriting.next = 1 /\ NotWriting.read = NoTraffic
  BY DEF NotWriting
<1>1. CASE Midnight \/ Signal \/ ShutdownReturns \/ UNCHANGED trafficVars
  BY <1>0, <1>1 DEF Midnight, Signal, ShutdownReturns, trafficVars, CopiesOK
<1>2. CASE Down
  <2>1. snap' = [t \in Persisters |-> NotWriting] /\ file' = file
    BY <1>2 DEF Down
  <2> QED
    BY <1>0, <1>a, <2>1, NoTrafficIs DEF CopiesOK
<1>3. CASE Restore
  <2>1. snap' = snap
    BY <1>3 DEF Restore
  <2> QED
    BY <1>0, <1>3, <2>1, RestoreIs DEF CopiesOK
<1>4. ASSUME NEW r \in Requests, Arrive(r) \/ AddTo(r) \/ bumpDay(r)
      PROVE  CopiesOK'
  BY <1>0, <1>4 DEF Arrive, AddTo, bumpDay, CopiesOK
<1>5. ASSUME NEW t \in Persisters, Read(t)
      PROVE  CopiesOK'
  <2>1. file' = file
    BY <1>5 DEF Read
  <2>2. \A x \in Persisters : snap'[x].next \in 1..4 /\ IsTally(snap'[x].read)
    BY <1>0, <1>5, ReadIs DEF CopiesOK
  <2>3. snap' = [x \in Persisters |-> snap'[x]]
    BY <1>5, ReadIs
  <2> QED
    BY <1>0, <2>1, <2>2, <2>3 DEF CopiesOK
<1>6. ASSUME NEW t \in Persisters, Write(t)
      PROVE  CopiesOK'
  <2>1. snap' = [snap EXCEPT ![t] = NotWriting] /\ file' \in {file, snap[t].read}
    BY <1>6 DEF Write
  <2> QED
    BY <1>0, <1>a, <2>1, NoTrafficIs DEF CopiesOK
<1> QED
  BY <1>1, <1>2, <1>3, <1>4, <1>5, <1>6 DEF TrafficNext

\* A process that is down holds nothing, whatever happens.
LEMMA DownStep ==
    ASSUME DownOK, [TrafficNext]_trafficVars
    PROVE  DownOK'
<1>1. CASE Midnight \/ UNCHANGED trafficVars
  BY <1>1 DEF Midnight, trafficVars, DownOK
<1>2. CASE Signal \/ ShutdownReturns \/ Restore
  BY <1>2 DEF Signal, ShutdownReturns, Restore, DownOK
<1>3. CASE Down
  BY <1>3 DEF Down, DownOK, Zeros
<1>4. ASSUME NEW r \in Requests, Arrive(r) \/ AddTo(r) \/ bumpDay(r)
      PROVE  DownOK'
  BY <1>4 DEF Arrive, AddTo, bumpDay, DownOK, Up
<1>5. ASSUME NEW t \in Persisters, Read(t) \/ Write(t)
      PROVE  DownOK'
  BY <1>5 DEF Read, Write, DownOK, Up
<1> QED
  BY <1>1, <1>2, <1>3, <1>4, <1>5 DEF TrafficNext

\* Initially the values have their types: nothing was counted, read or written.
LEMMA InitTraffic == TrafficInit => TrafficTypes
<1> SUFFICES ASSUME TrafficInit PROVE TrafficTypes
  OBVIOUS
<1>1. ClockOK /\ DownOK
  <2>1. day = 1 /\ phase = "serving"
    BY DEF TrafficInit
  <2> QED
    BY <2>1, TrafficNumbers DEF ClockOK, DownOK, Phases
<1>2. RequestsOK
  <2>1. Idle \in [step : Steps, search : BOOLEAN, day : Nat] /\ Idle.step # "bump"
    BY DEF Idle, Steps
  <2> QED
    BY <2>1 DEF TrafficInit, RequestsOK
<1>3. CountsOK
  <2>1. NoDay \in Days
    BY DEF NoDay, Days
  <2>2. /\ ever = [f \in AllFields |-> ever[f]] /\ ever["total"] = 0 /\ ever["searches"] = 0
        /\ ever["days"] = [d \in 1..MaxDay |-> 0]
    BY DEF TrafficInit, Tally, AllFields, Fields
  <2>3. base = Zeros /\ count = Zeros /\ days = [s \in Slots |-> NoDay]
    BY DEF TrafficInit, Zeros
  <2> QED
    BY <2>1, <2>2, <2>3 DEF Zeros, CountsOK
<1>4. CopiesOK
  <2>1. NotWriting.next = 1 /\ NotWriting.read = NoTraffic
    BY DEF NotWriting
  <2>2. snap = [t \in Persisters |-> NotWriting] /\ file = NoTraffic
    BY DEF TrafficInit
  <2> QED
    BY <2>1, <2>2, NoTrafficIs DEF CopiesOK
<1> QED
  BY <1>1, <1>2, <1>3, <1>4 DEF TrafficTypes

\* The values of Traffic's variables have their types.
THEOREM TrafficTypeCorrect == TrafficSpec => []TrafficTypes
<1>1. TrafficTypes /\ [TrafficNext]_trafficVars => TrafficTypes'
  BY ClockStep, RequestsStep, CountsStep, CopiesStep, DownStep DEF TrafficTypes
<1> QED
  BY <1>1, InitTraffic, PTL DEF TrafficSpec
-----------------------------------------------------------------------------
(* Nothing is lost on a clean stop.                                        *)

\* Once Shutdown has waited for the last request nothing changes what is
\* counted, so whatever a snapshot begun since has read is still so.
StopInv ==
    /\ drained => phase \in Stopping /\ NothingInFlight
    /\ written => phase \in Stopping
    /\ drained /\ written => file = InMemory
    /\ \A t \in Persisters :
          /\ snap[t].late => phase \in Stopping
          /\ drained /\ snap[t].late =>
                /\ snap[t].next > 1 /\ snap[t].read["days"] = days
                /\ snap[t].next > 2 => snap[t].read["total"] = Total
                /\ snap[t].next > 3 => snap[t].read["searches"] = Searches

\* Two tallies with the same parts are the same.
LEMMA SameTally ==
    ASSUME NEW t, NEW u, IsTally(t), IsTally(u),
           t["total"] = u["total"], t["searches"] = u["searches"], t["days"] = u["days"]
    PROVE  t = u
BY DEF IsTally, AllFields

\* No step loses what was counted before a clean stop.
LEMMA StopStep ==
    ASSUME TrafficTypes, StopInv, [TrafficNext]_trafficVars
    PROVE  StopInv'
<1>a. NotWriting.next = 1 /\ NotWriting.late = FALSE
  BY DEF NotWriting
<1>b. /\ drained => phase \in Stopping /\ NothingInFlight
      /\ written => phase \in Stopping
      /\ drained /\ written => file = InMemory
      /\ \A t \in Persisters :
          /\ snap[t].late => phase \in Stopping
          /\ drained /\ snap[t].late =>
                /\ snap[t].next > 1 /\ snap[t].read["days"] = days
                /\ snap[t].next > 2 => snap[t].read["total"] = Total
                /\ snap[t].next > 3 => snap[t].read["searches"] = Searches
  BY DEF StopInv
\* A step that leaves what is counted alone, and what is written.
<1>c. ASSUME base' = base, count' = count, days' = days, snap' = snap, file' = file,
             written' = written, phase' = phase, drained' = drained, drained => req' = req
      PROVE  StopInv'
  <2>1. InMemory' = InMemory /\ Total' = Total /\ Searches' = Searches
    BY <1>c DEF InMemory, Tally, Total, Searches
  <2>2. drained => NothingInFlight' = NothingInFlight
    BY <1>c DEF NothingInFlight
  <2> QED
    BY <1>b, <1>c, <2>1, <2>2 DEF StopInv
<1>1. CASE Midnight \/ UNCHANGED trafficVars
  BY <1>1, <1>c DEF Midnight, trafficVars
<1>2. ASSUME NEW r \in Requests, Arrive(r)
      PROVE  StopInv'
  <2>1. ~drained
    BY <1>2, <1>b DEF Arrive, Stopping
  <2> QED
    BY <1>2, <2>1, <1>c DEF Arrive
<1>3. ASSUME NEW r \in Requests, AddTo(r) \/ bumpDay(r)
      PROVE  StopInv'
  <2>1. req[r] # Idle
    BY <1>3 DEF AddTo, bumpDay, Idle, Fields
  <2>2. ~drained
    BY <2>1, <1>b DEF NothingInFlight
  <2>3. /\ drained' = drained /\ written' = written /\ phase' = phase /\ snap' = snap
    BY <1>3 DEF AddTo, bumpDay
  <2> QED
    BY <2>2, <2>3, <1>b DEF StopInv
<1>4. CASE Signal
  <2>1. phase = "serving" /\ drained' = drained /\ written' = written /\ snap' = snap
    BY <1>4 DEF Signal
  <2>2. ~drained /\ ~written /\ \A t \in Persisters : ~snap[t].late
    BY <2>1, <1>b DEF Stopping
  <2> QED
    BY <2>1, <2>2 DEF StopInv
<1>5. CASE ShutdownReturns
  <2>1. /\ phase = "draining" /\ phase' = "persisting" /\ written' = written /\ snap' = snap
        /\ req' = req /\ drained' \in {NothingInFlight, FALSE}
    BY <1>5 DEF ShutdownReturns
  <2>4. drained' => NothingInFlight
    BY <2>1, Zenon
  <2>2. ~written /\ \A t \in Persisters : ~snap[t].late
    BY <2>1, <1>b DEF Stopping
  <2>3. NothingInFlight' = NothingInFlight
    BY <2>1 DEF NothingInFlight
  <2> QED
    BY <2>1, <2>2, <2>3, <2>4 DEF StopInv, Stopping
<1>6. CASE Down
  <2>1. drained' = FALSE /\ written' = FALSE /\ snap' = [t \in Persisters |-> NotWriting]
    BY <1>6 DEF Down
  <2> QED
    BY <1>a, <2>1 DEF StopInv
<1>7. CASE Restore
  <2>1. phase = "down" /\ drained' = drained /\ written' = written /\ snap' = snap
    BY <1>7 DEF Restore
  <2>2. ~drained /\ ~written /\ \A t \in Persisters : ~snap[t].late
    BY <2>1, <1>b DEF Stopping
  <2> QED
    BY <2>1, <2>2 DEF StopInv
<1>8. ASSUME NEW t \in Persisters, Read(t)
      PROVE  StopInv'
  <2>1. /\ phase' = phase /\ drained' = drained /\ written' = written /\ file' = file
        /\ req' = req /\ base' = base /\ count' = count /\ days' = days
    BY <1>8 DEF Read
  <2>2. /\ InMemory' = InMemory /\ Total' = Total /\ Searches' = Searches
        /\ NothingInFlight' = NothingInFlight
    BY <2>1 DEF InMemory, Tally, Total, Searches, NothingInFlight
  <2>3. /\ snap[t].next \in 1..3 /\ snap'[t].next = snap[t].next + 1
        /\ snap'[t].read["days"] = IF snap[t].next = 1 THEN days ELSE snap[t].read["days"]
        /\ snap'[t].read["total"] = IF snap[t].next = 2 THEN Total ELSE snap[t].read["total"]
        /\ snap'[t].read["searches"] = IF snap[t].next = 3 THEN Searches ELSE snap[t].read["searches"]
        /\ snap[t].next = 1 /\ snap'[t].late => phase \in Stopping
        /\ snap[t].next # 1 => snap'[t].late = snap[t].late
        /\ \A x \in Persisters \ {t} : snap'[x] = snap[x]
    BY <1>8, ReadIs
  <2>4. ASSUME NEW x \in Persisters
        PROVE  /\ snap'[x].late => phase \in Stopping
               /\ drained /\ snap'[x].late =>
                    /\ snap'[x].next > 1 /\ snap'[x].read["days"] = days
                    /\ snap'[x].next > 2 => snap'[x].read["total"] = Total
                    /\ snap'[x].next > 3 => snap'[x].read["searches"] = Searches
    <3>1. CASE x # t
      BY <3>1, <2>3, <1>b
    <3>2. CASE x = t
      <4>1. CASE snap[t].next = 1
        BY <3>2, <4>1, <2>3
      <4>2. CASE snap[t].next = 2
        BY <3>2, <4>2, <2>3, <1>b
      <4>3. CASE snap[t].next = 3
        BY <3>2, <4>3, <2>3, <1>b
      <4> QED
        BY <4>1, <4>2, <4>3, <2>3
    <3> QED
      BY <3>1, <3>2
  <2> QED
    BY <1>b, <2>1, <2>2, <2>4 DEF StopInv
<1>9. ASSUME NEW t \in Persisters, Write(t)
      PROVE  StopInv'
  <2>1. /\ drained' = drained /\ req' = req /\ base' = base /\ count' = count /\ days' = days
        /\ snap' = [snap EXCEPT ![t] = NotWriting] /\ phase' \in {phase, "exiting"}
        /\ \/ file' = snap[t].read /\ written' = snap[t].late
           \/ file' = file /\ written' = written
    BY <1>9 DEF Write
  <2>2. /\ InMemory' = InMemory /\ Total' = Total /\ Searches' = Searches
        /\ NothingInFlight' = NothingInFlight
    BY <2>1 DEF InMemory, Tally, Total, Searches, NothingInFlight
  <2>3. snap[t].next = 4 /\ IsTally(snap[t].read)
    <3>1. snap[t].next \in 1..4 /\ IsTally(snap[t].read)
      BY DEF TrafficTypes, CopiesOK
    <3>2. snap[t].next > 3
      BY <1>9, ReadOrderIs DEF Write
    <3> QED
      BY <3>1, <3>2
  <2>4. drained /\ snap[t].late => snap[t].read = InMemory
    <3>1. /\ IsTally(InMemory) /\ InMemory["total"] = Total /\ InMemory["searches"] = Searches
          /\ InMemory["days"] = days
      BY InMemoryIs DEF TrafficTypes
    <3> QED
      BY <3>1, <2>3, <1>b, SameTally
  <2>5. snap = [x \in Persisters |-> snap[x]]
    BY DEF TrafficTypes, CopiesOK
  <2>6. \A x \in Persisters : snap'[x] = IF x = t THEN NotWriting ELSE snap[x]
    BY <2>1, <2>5
  <2> QED
    BY <1>a, <1>b, <2>1, <2>2, <2>4, <2>6 DEF StopInv, Stopping
<1> QED
  BY <1>1, <1>2, <1>3, <1>4, <1>5, <1>6, <1>7, <1>8, <1>9 DEF TrafficNext

\* "A clean stop never loses a count" (PersistNow), provided that the drain did
\* not time out (drained) and that the file is one put together after it
\* (written): neither did the stop's own write fail, nor was a snapshot that the
\* ticker had begun before renamed over it.  For any number of requests and days.
THEOREM CleanStopLosesNothing == TrafficSpec => []CleanStopKeeps
<1>1. ASSUME TrafficInit PROVE StopInv
  <2>1. drained = FALSE /\ written = FALSE /\ snap = [t \in Persisters |-> NotWriting]
    BY <1>1 DEF TrafficInit
  <2>2. NotWriting.late = FALSE
    BY DEF NotWriting
  <2> QED
    BY <2>1, <2>2 DEF StopInv
<1>2. TrafficTypes /\ StopInv /\ [TrafficNext]_trafficVars => StopInv'
  BY StopStep
<1>3. StopInv => CleanStopKeeps
  BY DEF StopInv, CleanStopKeeps
<1> QED
  BY <1>1, <1>2, <1>3, TrafficTypeCorrect, PTL DEF TrafficSpec
-----------------------------------------------------------------------------
(* Nothing is counted twice.                                               *)

\* No more is on a day of the ring than was ever counted for it, and it is the
\* day the slot stands for.
DaysOK(ring, e) ==
    \A s \in Slots : ring[s].n > 0 =>
        /\ ring[s].epochDay \in 1..MaxDay /\ ring[s].epochDay % DaysKept = s
        /\ ring[s].n <= e[ring[s].epochDay]

TallyOK(t, e) ==
    t["total"] <= e["total"] /\ t["searches"] <= e["searches"] /\ DaysOK(t["days"], e["days"])

\* The searches of a ring as a sum over its slots.
LEMMA RingTerms ==
    ASSUME NEW ring \in [Slots -> Days]
    PROVE  /\ IsFiniteSet(Slots) /\ [s \in Slots |-> ring[s].n] \in [Slots -> Nat]
           /\ InRing(ring) \in Nat
<1>1. IsFiniteSet(Slots)
  BY TrafficNumbers, FS_Interval DEF Slots
<1>2. [s \in Slots |-> ring[s].n] \in [Slots -> Nat]
  BY DEF Days
<1> QED
  BY <1>1, <1>2, SumIsNat DEF InRing

\* An empty ring has no searches.
LEMMA RingEmpty == InRing([s \in Slots |-> NoDay]) = 0
<1> DEFINE ring == [s \in Slots |-> NoDay]
           f == [s \in Slots |-> ring[s].n]
<1>1. NoDay \in Days /\ NoDay.n = 0
  BY DEF NoDay, Days
<1>2. ring \in [Slots -> Days] /\ \A s \in Slots : f[s] = 0
  BY <1>1
<1>3. IsFiniteSet(Slots) /\ f \in [Slots -> Nat] /\ InRing(ring) = FoldFunction(+, 0, f)
  BY <1>2, RingTerms DEF InRing
<1> HIDE DEF f, ring
<1>4. InRing(ring) = 0
  BY <1>2, <1>3, SumIsNat
<1> QED
  BY <1>4 DEF ring

\* Putting a search on a day adds one at most.
LEMMA RingBumped ==
    ASSUME NEW ring \in [Slots -> Days], NEW i \in Slots, NEW d \in Nat
    PROVE  InRing([ring EXCEPT ![i] = Bumped(ring[i], d)]) <= InRing(ring) + 1
<1> DEFINE new == [ring EXCEPT ![i] = Bumped(ring[i], d)]
           f == [s \in Slots |-> ring[s].n]
           g == [s \in Slots |-> new[s].n]
<1>1. Bumped(ring[i], d) \in Days /\ Bumped(ring[i], d).n <= ring[i].n + 1
  <2> DEFINE b == ring[i]
  <2>1. b \in Days /\ b.n \in Nat
    BY DEF Days
  <2> HIDE DEF b
  <2>2. Bumped(b, d) \in Days /\ Bumped(b, d).n = IF b.epochDay = d THEN b.n + 1 ELSE 1
    BY <2>1, BumpedIs
  <2>3. Bumped(b, d).n <= b.n + 1
    BY <2>1, <2>2
  <2> QED
    BY <2>2, <2>3 DEF b
<1>2. new \in [Slots -> Days] /\ \A s \in Slots : new[s] = IF s = i THEN Bumped(ring[i], d) ELSE ring[s]
  BY <1>1
<1>3. IsFiniteSet(Slots) /\ f \in [Slots -> Nat] /\ InRing(ring) = FoldFunction(+, 0, f)
  BY RingTerms DEF InRing
<1> HIDE DEF new
<1>4. g \in [Slots -> Nat] /\ InRing(new) = FoldFunction(+, 0, g)
  BY <1>2, RingTerms DEF InRing
<1> DEFINE k == 1
<1>5. k \in Nat /\ \A s \in Slots : g[s] <= f[s] + (IF s = i THEN k ELSE 0)
  BY <1>1, <1>2 DEF Days
<1> HIDE DEF f, g, k
<1>6. FoldFunction(+, 0, g) <= FoldFunction(+, 0, f) + k
  BY <1>3, <1>4, <1>5, SumGrows
<1> QED
  BY <1>3, <1>4, <1>6 DEF new, k

\* restoreDays adds none.
LEMMA RingRestored ==
    ASSUME NEW ring \in [Slots -> Days]
    PROVE  InRing(restoreDays(ring)) <= InRing(ring)
<1> DEFINE new == restoreDays(ring)
           f == [s \in Slots |-> ring[s].n]
           g == [s \in Slots |-> new[s].n]
<1>1. new \in [Slots -> Days] /\ (\A s \in Slots : new[s] \in {ring[s], NoDay}) /\ NoDay.n = 0
  BY RestoredIs
<1>2. IsFiniteSet(Slots) /\ f \in [Slots -> Nat] /\ InRing(ring) = FoldFunction(+, 0, f)
      /\ InRing(ring) \in Nat
  BY RingTerms DEF InRing
<1> HIDE DEF new
<1>3. g \in [Slots -> Nat] /\ InRing(new) = FoldFunction(+, 0, g) /\ InRing(new) \in Nat
  BY <1>1, RingTerms DEF InRing
<1> DEFINE k == 0
<1>4. k \in Nat /\ \A s \in Slots : g[s] <= f[s] + (IF s = 0 THEN k ELSE 0)
  <2>1. \A s \in Slots : new[s].n <= ring[s].n /\ ring[s].n \in Nat
    BY <1>1 DEF Days
  <2> QED
    BY <2>1
<1> HIDE DEF f, g, k
<1>5. FoldFunction(+, 0, g) <= FoldFunction(+, 0, f) + k
  BY <1>2, <1>3, <1>4, SumGrows
<1>6. InRing(new) <= InRing(ring) + k /\ k = 0
  BY <1>2, <1>3, <1>5 DEF k
<1>7. InRing(new) <= InRing(ring)
  <2>1. InRing(new) \in Nat /\ InRing(ring) \in Nat
    BY <1>2, <1>3
  <2> QED
    BY <2>1, <1>6
<1> QED
  BY <1>7 DEF new

\* The searches between the total and the ring are finitely many.
LEMMA PendingFinite == IsFiniteSet(Pending) /\ Cardinality(Pending) \in Nat
BY TrafficNumbers, FS_Subset, FS_CardinalityType DEF Pending

\* What was ever counted only grows.
LEMMA EverGrows ==
    ASSUME TrafficTypes, [TrafficNext]_trafficVars
    PROVE  /\ ever'["total"] >= ever["total"] /\ ever'["searches"] >= ever["searches"]
           /\ \A d \in 1..MaxDay : ever'["days"][d] >= ever["days"][d]
<1>0. CountsOK /\ RequestsOK
  BY DEF TrafficTypes
<1>1. /\ ever["total"] \in Nat /\ ever["searches"] \in Nat
      /\ \A d \in 1..MaxDay : ever["days"][d] \in Nat
  BY <1>0 DEF CountsOK
<1>2. CASE ever' = ever
  BY <1>1, <1>2
<1>3. ASSUME NEW r \in Requests, AddTo(r)
      PROVE  /\ ever'["total"] >= ever["total"] /\ ever'["searches"] >= ever["searches"]
             /\ \A d \in 1..MaxDay : ever'["days"][d] >= ever["days"][d]
  <2>1. PICK f \in Fields : ever'[f] = ever[f] + 1 /\ \A g \in AllFields \ {f} : ever'[g] = ever[g]
    BY <1>0, <1>3, AddToIs
  <2>2. CASE f = "total"
    BY <2>1, <2>2, <1>1 DEF AllFields
  <2>3. CASE f = "searches"
    BY <2>1, <2>3, <1>1 DEF AllFields
  <2> QED
    BY <2>2, <2>3 DEF Fields
<1>4. ASSUME NEW r \in Requests, bumpDay(r)
      PROVE  /\ ever'["total"] >= ever["total"] /\ ever'["searches"] >= ever["searches"]
             /\ \A d \in 1..MaxDay : ever'["days"][d] >= ever["days"][d]
  <2> DEFINE e == ever["days"]
             d == req[r].day
  <2>1. /\ ever'["total"] = ever["total"] /\ ever'["searches"] = ever["searches"]
        /\ ever'["days"] = [e EXCEPT ![d] = @ + 1]
    BY <1>0, <1>4, BumpIs
  <2>2. e \in [1..MaxDay -> Nat]
    BY <1>0 DEF CountsOK
  <2> HIDE DEF e, d
  <2>3. \A x \in 1..MaxDay : [e EXCEPT ![d] = @ + 1][x] >= e[x]
    BY <2>2
  <2> QED
    BY <2>1, <2>3, <1>1 DEF e
<1> QED
  BY <1>2, <1>3, <1>4 DEF TrafficNext, Midnight, Signal, ShutdownReturns, Down, Restore, Arrive,
     Read, Write, trafficVars

\* So what was honest stays honest.
LEMMA StaysHonest ==
    ASSUME TrafficTypes, [TrafficNext]_trafficVars
    PROVE  /\ \A ring \in [Slots -> Days] : DaysOK(ring, ever["days"]) => DaysOK(ring, ever'["days"])
           /\ \A t : IsTally(t) /\ TallyOK(t, ever) => TallyOK(t, ever')
<1>1. /\ ever'["total"] >= ever["total"] /\ ever'["searches"] >= ever["searches"]
      /\ \A d \in 1..MaxDay : ever'["days"][d] >= ever["days"][d]
  BY EverGrows
<1>2. /\ ever["total"] \in Nat /\ ever["searches"] \in Nat /\ ever["days"] \in [1..MaxDay -> Nat]
      /\ ever'["total"] \in Nat /\ ever'["searches"] \in Nat /\ ever'["days"] \in [1..MaxDay -> Nat]
  BY CountsStep DEF TrafficTypes, CountsOK
<1>3. ASSUME NEW ring \in [Slots -> Days], DaysOK(ring, ever["days"])
      PROVE  DaysOK(ring, ever'["days"])
  <2> DEFINE e == ever["days"]
             g == ever'["days"]
  <2>1. e \in [1..MaxDay -> Nat] /\ g \in [1..MaxDay -> Nat] /\ \A d \in 1..MaxDay : g[d] >= e[d]
    BY <1>1, <1>2
  <2> HIDE DEF e, g
  <2>2. ASSUME NEW s \in Slots, ring[s].n > 0, DaysOK(ring, e)
        PROVE  ring[s].epochDay \in 1..MaxDay /\ ring[s].epochDay % DaysKept = s
               /\ ring[s].n <= g[ring[s].epochDay]
    <3>1. ring[s].n \in Nat
      BY DEF Days
    <3>2. ring[s].epochDay \in 1..MaxDay /\ ring[s].epochDay % DaysKept = s
          /\ ring[s].n <= e[ring[s].epochDay]
      BY <2>2 DEF DaysOK
    <3> QED
      BY <3>1, <3>2, <2>1
  <2> QED
    BY <1>3, <2>2 DEF DaysOK, e, g
<1>4. ASSUME NEW t, IsTally(t), TallyOK(t, ever)
      PROVE  TallyOK(t, ever')
  BY <1>1, <1>2, <1>3, <1>4 DEF TallyOK, IsTally
<1> QED
  BY <1>3, <1>4

\* bumpDay writes on the slot of its day no more than was counted for that day.
LEMMA BumpHonest ==
    ASSUME TrafficTypes, DaysOK(days, ever["days"]), NEW r \in Requests, bumpDay(r)
    PROVE  DaysOK(days', ever'["days"])
<1> DEFINE d == req[r].day
           slot == d % DaysKept
           e == ever["days"]
           b == days[slot]
<1>1. /\ d \in 1..MaxDay /\ d \in Nat /\ slot \in Slots
      /\ days' = [days EXCEPT ![slot] = Bumped(b, d)]
      /\ ever'["days"] = [e EXCEPT ![d] = @ + 1]
  BY BumpIs DEF TrafficTypes
<1>2. e \in [1..MaxDay -> Nat] /\ days \in [Slots -> Days] /\ b \in Days /\ b.n \in Nat
  BY <1>1 DEF TrafficTypes, CountsOK, Days
<1>3. d % DaysKept = slot
  OBVIOUS
<1>4. DaysOK(days, e)
  OBVIOUS
<1> HIDE DEF e, b, slot, d
<1>5. Bumped(b, d).epochDay = d /\ Bumped(b, d).n = IF b.epochDay = d THEN b.n + 1 ELSE 1
  BY <1>1, <1>2, BumpedIs
<1>6. b.n > 0 => b.n <= e[b.epochDay]
  BY <1>1, <1>4 DEF DaysOK, b
<1> DEFINE g == [e EXCEPT ![d] = @ + 1]
           new == [days EXCEPT ![slot] = Bumped(b, d)]
<1>7. g \in [1..MaxDay -> Nat] /\ g[d] = e[d] + 1 /\ \A x \in 1..MaxDay : g[x] >= e[x]
  BY <1>1, <1>2
<1>8. new[slot] = Bumped(b, d) /\ \A s \in Slots \ {slot} : new[s] = days[s]
  BY <1>1, <1>2
<1> HIDE DEF g, new
<1>9. ASSUME NEW s \in Slots, new[s].n > 0
      PROVE  /\ new[s].epochDay \in 1..MaxDay /\ new[s].epochDay % DaysKept = s
             /\ new[s].n <= g[new[s].epochDay]
  <2>1. CASE s = slot
    <3>1. new[s].epochDay = d /\ e[d] \in Nat
      BY <2>1, <1>1, <1>2, <1>5, <1>8
    <3>2. new[s].n <= g[d]
      <4>1. CASE b.epochDay = d
        BY <2>1, <4>1, <3>1, <1>2, <1>5, <1>6, <1>7, <1>8
      <4>2. CASE b.epochDay # d
        BY <2>1, <4>2, <3>1, <1>5, <1>7, <1>8
      <4> QED
        BY <4>1, <4>2
    <3> QED
      BY <2>1, <3>1, <3>2, <1>1, <1>3
  <2>2. CASE s # slot
    <3>1. new[s] = days[s] /\ days[s].n \in Nat
      BY <2>2, <1>2, <1>8 DEF Days
    <3>2. days[s].epochDay \in 1..MaxDay /\ days[s].epochDay % DaysKept = s
          /\ days[s].n <= e[days[s].epochDay]
      BY <3>1, <1>4, <1>9 DEF DaysOK
    <3>3. e[days[s].epochDay] \in Nat /\ g[days[s].epochDay] \in Nat
          /\ g[days[s].epochDay] >= e[days[s].epochDay]
      BY <3>2, <1>2, <1>7
    <3> QED
      BY <3>1, <3>2, <3>3
  <2> QED
    BY <2>1, <2>2
<1>10. DaysOK(new, g)
  BY <1>9 DEF DaysOK
<1> QED
  BY <1>1, <1>10 DEF new, g

\* The searches on their way to a day, after an addition and after bumpDay.
LEMMA PendingAfter ==
    ASSUME TrafficTypes, NEW r \in Requests
    PROVE  /\ AddTo(r) => Cardinality(Pending') =
                  Cardinality(Pending) + (IF req[r].step = "searches" THEN 1 ELSE 0)
           /\ bumpDay(r) => Cardinality(Pending') = Cardinality(Pending) - 1
           /\ Arrive(r) => Pending' = Pending
<1>0. req \in [Requests -> [step : Steps, search : BOOLEAN, day : Nat]] /\ Idle.step = "idle"
  BY DEF TrafficTypes, RequestsOK, Idle
<1>1. ASSUME AddTo(r)
      PROVE  Cardinality(Pending') = Cardinality(Pending) + (IF req[r].step = "searches" THEN 1 ELSE 0)
  <2> DEFINE old == req[r]
             new == CASE old.step = "searches" -> [old EXCEPT !.step = "bump", !.day = day]
                      [] old.search /\ old.step = "total" -> [old EXCEPT !.step = "searches"]
                      [] OTHER -> Idle
  <2>1. old.step \in Fields /\ req' = [req EXCEPT ![r] = new]
    BY <1>1 DEF AddTo
  <2>2. old \in [step : Steps, search : BOOLEAN, day : Nat]
    BY <1>0
  <2>3. new.step = "bump" <=> old.step = "searches"
    <3> HIDE DEF old
    <3>1. CASE old.step = "searches"
      BY <3>1, <2>2
    <3>2. CASE old.step # "searches" /\ old.search /\ old.step = "total"
      BY <3>2, <2>2
    <3>3. CASE old.step # "searches" /\ ~(old.search /\ old.step = "total")
      BY <3>3, <2>2, <1>0
    <3> QED
      BY <3>1, <3>2, <3>3
  <2> HIDE DEF new
  <2>4. Pending' = IF old.step = "searches" THEN Pending \cup {r} ELSE Pending
    <3>1. \A x \in Requests : req'[x] = IF x = r THEN new ELSE req[x]
      BY <2>1, <1>0
    <3>2. old.step # "bump"
      BY <2>1 DEF Fields
    <3> QED
      BY <3>1, <3>2, <2>3 DEF Pending
  <2>5. r \notin Pending
    BY <2>1 DEF Pending, Fields
  <2>6. Cardinality(Pending \cup {r}) = Cardinality(Pending) + 1 /\ Cardinality(Pending) \in Nat
    BY <2>5, PendingFinite, FS_AddElement
  <2>7. CASE old.step = "searches"
    BY <2>4, <2>6, <2>7
  <2>8. CASE old.step # "searches"
    BY <2>4, <2>6, <2>8
  <2> QED
    BY <2>7, <2>8
<1>2. ASSUME bumpDay(r)
      PROVE  Cardinality(Pending') = Cardinality(Pending) - 1
  <2>1. r \in Pending /\ req' = [req EXCEPT ![r] = Idle]
    BY <1>2 DEF bumpDay, Pending
  <2>2. Pending' = Pending \ {r}
    BY <2>1, <1>0 DEF Pending
  <2> QED
    BY <2>1, <2>2, PendingFinite, FS_RemoveElement
<1>3. ASSUME Arrive(r)
      PROVE  Pending' = Pending
  <2>1. PICK search \in BOOLEAN :
          req' = [req EXCEPT ![r] = [Idle EXCEPT !.step = "total", !.search = search]]
    BY <1>3 DEF Arrive
  <2> DEFINE new == [Idle EXCEPT !.step = "total", !.search = search]
  <2>2. new.step = "total"
    BY DEF Idle
  <2>3. req[r].step = "idle"
    BY <1>0, <1>3 DEF Arrive
  <2> HIDE DEF new
  <2>4. \A x \in Requests : req'[x] = IF x = r THEN new ELSE req[x]
    BY <2>1, <1>0 DEF new
  <2> QED
    BY <2>2, <2>3, <2>4 DEF Pending
<1> QED
  BY <1>1, <1>2, <1>3

\* A snapshot's days are no more than its searches, or than there are searches
\* now if it has not read those yet.
SnapOK(s, searches, e) ==
    /\ InRing(s.read["days"]) <= (IF s.next = 4 THEN s.read["searches"] ELSE searches)
    /\ TallyOK(s.read, e)

\* A snapshot stays honest while the searches do not become fewer.
LEMMA SnapStays ==
    ASSUME TrafficTypes, [TrafficNext]_trafficVars, Searches' \in Nat, Searches' >= Searches
    PROVE  \A t \in Persisters : SnapOK(snap[t], Searches, ever) => SnapOK(snap[t], Searches', ever')
<1> SUFFICES ASSUME NEW t \in Persisters, SnapOK(snap[t], Searches, ever)
             PROVE  SnapOK(snap[t], Searches', ever')
  OBVIOUS
<1>1. IsTally(snap[t].read)
  BY DEF TrafficTypes, CopiesOK
<1>2. TallyOK(snap[t].read, ever')
  BY <1>1, StaysHonest DEF SnapOK
<1>3. InRing(snap[t].read["days"]) \in Nat /\ snap[t].read["searches"] \in Nat
  BY <1>1, RingTerms DEF IsTally
<1>4. Searches \in Nat
  BY InMemoryIs DEF TrafficTypes
<1> QED
  BY <1>2, <1>3, <1>4 DEF SnapOK

\* A persister that is not writing holds nothing.
LEMMA NotWritingOK ==
    ASSUME CountsOK, NEW searches \in Nat
    PROVE  SnapOK(NotWriting, searches, ever) /\ TallyOK(NoTraffic, ever)
           /\ InRing(NoTraffic["days"]) = 0
<1>1. NotWriting.next = 1 /\ NotWriting.read = NoTraffic
  BY DEF NotWriting
<1>2. /\ NoTraffic["total"] = 0 /\ NoTraffic["searches"] = 0
      /\ NoTraffic["days"] = [s \in Slots |-> NoDay] /\ NoDay.n = 0
  BY NoTrafficIs DEF NoDay
<1>3. InRing(NoTraffic["days"]) = 0
  BY <1>2, RingEmpty
<1>4. DaysOK(NoTraffic["days"], ever["days"])
  BY <1>2 DEF DaysOK
<1>5. TallyOK(NoTraffic, ever)
  BY <1>2, <1>4 DEF TallyOK, CountsOK
<1> QED
  BY <1>1, <1>3, <1>5 DEF SnapOK

\* The three parts of the invariant: what is in memory, in the file, in the snapshots.
MemoryHonest ==
    /\ InRing(days) + Cardinality(Pending) <= Searches
    /\ Total <= ever["total"] /\ Searches <= ever["searches"] /\ DaysOK(days, ever["days"])

FileHonest == InRing(file["days"]) <= file["searches"] /\ TallyOK(file, ever)

SnapsHonest == \A t \in Persisters : SnapOK(snap[t], Searches, ever)

HonestInv == TrafficTypes /\ MemoryHonest /\ FileHonest /\ SnapsHonest

\* The ring shows no more than the total of searches, even with the searches
\* added that are counted in the total and not yet on a day.
LEMMA MemoryStep ==
    ASSUME HonestInv, [TrafficNext]_trafficVars
    PROVE  MemoryHonest'
<1>0. /\ TrafficTypes /\ CountsOK /\ CopiesOK /\ days \in [Slots -> Days]
      /\ InRing(days) \in Nat /\ Cardinality(Pending) \in Nat
      /\ Total \in Nat /\ Searches \in Nat
  BY RingTerms, PendingFinite, InMemoryIs DEF HonestInv, TrafficTypes, CountsOK
<1>a. /\ InRing(days) + Cardinality(Pending) <= Searches
      /\ Total <= ever["total"] /\ Searches <= ever["searches"] /\ DaysOK(days, ever["days"])
  BY DEF HonestInv, MemoryHonest
\* A step that leaves the counters alone.
<1>b. ASSUME base' = base, count' = count, days' = days, Pending' = Pending, ever' = ever
      PROVE  MemoryHonest'
  BY <1>a, <1>b DEF MemoryHonest, Total, Searches
<1>1. CASE Midnight \/ Signal \/ ShutdownReturns \/ UNCHANGED trafficVars
  BY <1>1, <1>b DEF Midnight, Signal, ShutdownReturns, trafficVars, Pending
<1>2. ASSUME NEW t \in Persisters, Read(t) \/ Write(t)
      PROVE  MemoryHonest'
  BY <1>2, <1>b DEF Read, Write, Pending
<1>3. ASSUME NEW r \in Requests, Arrive(r)
      PROVE  MemoryHonest'
  <2>1. Pending' = Pending
    BY <1>0, <1>3, PendingAfter
  <2> QED
    BY <1>3, <1>b, <2>1 DEF Arrive
<1>4. CASE Down
  <2>1. /\ base' = Zeros /\ count' = Zeros /\ days' = [s \in Slots |-> NoDay]
        /\ ever' = ever /\ req' = [r \in Requests |-> Idle]
    BY <1>4 DEF Down, Zeros
  <2>2. Total' = 0 /\ Searches' = 0
    BY <2>1 DEF Total, Searches, Zeros, Fields
  <2>3. Pending' = {}
    BY <2>1 DEF Pending, Idle
  <2>4. InRing(days') = 0 /\ DaysOK(days', ever["days"])
    BY <2>1, RingEmpty DEF DaysOK, NoDay
  <2>5. ever["total"] \in Nat /\ ever["searches"] \in Nat
    BY <1>0 DEF CountsOK
  <2> QED
    BY <2>1, <2>2, <2>3, <2>4, <2>5, FS_EmptySet DEF MemoryHonest
<1>5. CASE Restore
  <2>1. /\ phase = "down" /\ count' = count /\ req' = req /\ ever' = ever
    BY <1>5 DEF Restore
  <2>2. count = Zeros /\ req = [r \in Requests |-> Idle]
    BY <2>1, <1>0 DEF TrafficTypes, DownOK
  <2>3. /\ file' = file \/ file' = NoTraffic
        /\ IsTally(file')
        /\ base'["total"] = file'["total"] /\ base'["searches"] = file'["searches"]
        /\ days' = restoreDays(file'["days"])
    BY <1>0, <1>5, RestoreIs
  <2>4. InRing(file'["days"]) <= file'["searches"] /\ TallyOK(file', ever)
    <3>1. CASE file' = file
      BY <3>1 DEF HonestInv, FileHonest
    <3>2. CASE file' = NoTraffic
      <4>1. InRing(NoTraffic["days"]) = 0 /\ NoTraffic["searches"] = 0 /\ TallyOK(NoTraffic, ever)
        BY <1>0, NotWritingOK, NoTrafficIs
      <4> QED
        BY <3>2, <4>1
    <3> QED
      BY <2>3, <3>1, <3>2
  <2> DEFINE t == file'
  <2>5. t["days"] \in [Slots -> Days] /\ t["total"] \in Nat /\ t["searches"] \in Nat
    BY <2>3 DEF IsTally
  <2>6. InRing(t["days"]) <= t["searches"] /\ TallyOK(t, ever)
    BY <2>4
  <2> HIDE DEF t
  <2>7. Total' = t["total"] /\ Searches' = t["searches"]
    BY <2>1, <2>2, <2>3, <2>5 DEF Total, Searches, Zeros, Fields, t
  <2>8. Pending' = {}
    BY <2>1, <2>2 DEF Pending, Idle
  <2>9. InRing(days') <= t["searches"]
    <3>1. InRing(days') <= InRing(t["days"]) /\ days' \in [Slots -> Days]
      BY <2>3, <2>5, RingRestored, RestoredIs DEF t
    <3>2. InRing(days') \in Nat /\ InRing(t["days"]) \in Nat
      BY <3>1, <2>5, RingTerms
    <3> QED
      BY <3>1, <3>2, <2>5, <2>6
  <2>10. DaysOK(days', ever["days"])
    <3>1. days' = restoreDays(t["days"]) /\ DaysOK(t["days"], ever["days"])
      BY <2>3, <2>6 DEF t, TallyOK
    <3>2. \A s \in Slots : days'[s] = t["days"][s] \/ days'[s].n = 0
      BY <3>1, <2>5, RestoredIs
    <3> QED
      BY <3>1, <3>2 DEF DaysOK
  <2>11. InRing(days') \in Nat
    <3>1. days' \in [Slots -> Days]
      BY <2>3, <2>5, RestoredIs DEF t
    <3> QED
      BY <3>1, RingTerms
  <2> QED
    BY <2>1, <2>5, <2>6, <2>7, <2>8, <2>9, <2>10, <2>11, FS_EmptySet DEF MemoryHonest, TallyOK
<1>6. ASSUME NEW r \in Requests, AddTo(r)
      PROVE  MemoryHonest'
  <2>1. base' = base /\ days' = days
    BY <1>6 DEF AddTo
  <2>2. PICK f \in Fields :
              /\ req[r].step = f
              /\ count' \in [Fields -> Nat] /\ count'[f] = count[f] + 1
              /\ \A g \in Fields \ {f} : count'[g] = count[g]
              /\ ever'[f] = ever[f] + 1 /\ \A g \in AllFields \ {f} : ever'[g] = ever[g]
    BY <1>0, <1>6, AddToIs
  <2>3. Cardinality(Pending') = Cardinality(Pending) + (IF f = "searches" THEN 1 ELSE 0)
    BY <1>0, <1>6, <2>2, PendingAfter
  <2>4. /\ base["total"] \in Nat /\ base["searches"] \in Nat
        /\ count["total"] \in Nat /\ count["searches"] \in Nat
        /\ ever["total"] \in Nat /\ ever["searches"] \in Nat
    BY <1>0 DEF CountsOK, Fields
  <2>5. CASE f = "total"
    <3>1. /\ Total' = Total + 1 /\ Searches' = Searches /\ ever'["total"] = ever["total"] + 1
          /\ ever'["searches"] = ever["searches"] /\ ever'["days"] = ever["days"]
      BY <2>1, <2>2, <2>4, <2>5 DEF Total, Searches, Fields, AllFields
    <3>2. Cardinality(Pending') = Cardinality(Pending)
      BY <2>3, <2>5, <1>0
    <3> QED
      BY <3>1, <3>2, <2>1, <2>4, <1>0, <1>a DEF MemoryHonest
  <2>6. CASE f = "searches"
    <3>1. /\ Total' = Total /\ Searches' = Searches + 1 /\ ever'["searches"] = ever["searches"] + 1
          /\ ever'["total"] = ever["total"] /\ ever'["days"] = ever["days"]
      BY <2>1, <2>2, <2>4, <2>6 DEF Total, Searches, Fields, AllFields
    <3>2. Cardinality(Pending') = Cardinality(Pending) + 1
      BY <2>3, <2>6, <1>0
    <3> QED
      BY <3>1, <3>2, <2>1, <2>4, <1>0, <1>a DEF MemoryHonest
  <2> QED
    BY <2>5, <2>6 DEF Fields
<1>7. ASSUME NEW r \in Requests, bumpDay(r)
      PROVE  MemoryHonest'
  <2> DEFINE d == req[r].day
             slot == d % DaysKept
  <2>1. base' = base /\ count' = count
    BY <1>7 DEF bumpDay
  <2>2. /\ d \in Nat /\ slot \in Slots /\ days' = [days EXCEPT ![slot] = Bumped(days[slot], d)]
        /\ days' \in [Slots -> Days]
        /\ ever'["total"] = ever["total"] /\ ever'["searches"] = ever["searches"]
    BY <1>0, <1>7, BumpIs DEF TrafficTypes
  <2> HIDE DEF d, slot
  <2>3. InRing(days') <= InRing(days) + 1 /\ InRing(days') \in Nat
    BY <1>0, <2>2, RingBumped, RingTerms
  <2>4. Cardinality(Pending') = Cardinality(Pending) - 1
    BY <1>0, <1>7, PendingAfter
  <2>5. DaysOK(days', ever'["days"])
    BY <1>0, <1>7, <1>a, BumpHonest
  <2>6. Total' = Total /\ Searches' = Searches
    BY <2>1 DEF Total, Searches
  <2> QED
    BY <1>0, <1>a, <2>2, <2>3, <2>4, <2>5, <2>6 DEF MemoryHonest
<1> QED
  BY <1>1, <1>2, <1>3, <1>4, <1>5, <1>6, <1>7 DEF TrafficNext

\* What a persister reads is what was there then: the days when it begins, with
\* at least as many searches in memory as they show from then on.
LEMMA ReadKeepsOK ==
    ASSUME HonestInv, NEW t \in Persisters, Read(t)
    PROVE  SnapOK(snap'[t], Searches, ever)
<1> DEFINE old == snap[t].read
           new == snap'[t].read
           n == snap[t].next
<1>1. /\ n \in 1..3 /\ snap'[t].next = n + 1 /\ IsTally(new)
      /\ new["days"] = IF n = 1 THEN days ELSE old["days"]
      /\ new["total"] = IF n = 2 THEN Total ELSE old["total"]
      /\ new["searches"] = IF n = 3 THEN Searches ELSE old["searches"]
  BY ReadIs DEF HonestInv
<1>2. /\ InRing(days) <= Searches /\ Searches \in Nat
      /\ Total <= ever["total"] /\ Searches <= ever["searches"] /\ DaysOK(days, ever["days"])
  <2>1. InRing(days) \in Nat /\ Cardinality(Pending) \in Nat /\ Searches \in Nat
    BY RingTerms, PendingFinite, InMemoryIs DEF HonestInv, TrafficTypes, CountsOK
  <2> QED
    BY <2>1 DEF HonestInv, MemoryHonest
<1>3. SnapOK(snap[t], Searches, ever)
  BY DEF HonestInv, SnapsHonest
<1>4. InRing(old["days"]) <= Searches /\ TallyOK(old, ever)
  <2>1. n # 4
    BY <1>1
  <2> QED
    BY <2>1, <1>3 DEF SnapOK
<1> HIDE DEF n, old, new
<1>5. TallyOK(new, ever)
  BY <1>1, <1>2, <1>4 DEF TallyOK
<1>6. InRing(new["days"]) <= Searches
  BY <1>1, <1>2, <1>4
<1>7. InRing(new["days"]) <= (IF snap'[t].next = 4 THEN new["searches"] ELSE Searches)
  <2>1. CASE n = 3
    BY <2>1, <1>1, <1>6
  <2>2. CASE n # 3
    BY <2>2, <1>1, <1>6
  <2> QED
    BY <2>1, <2>2
<1> QED
  BY <1>5, <1>7 DEF SnapOK, new

\* The searches counted only grow while the process lives.
LEMMA SearchesGrow ==
    ASSUME TrafficTypes, [TrafficNext]_trafficVars, ~Down, ~Restore
    PROVE  Searches' \in Nat /\ Searches' >= Searches
<1>1. CountsOK /\ Searches \in Nat
  BY InMemoryIs DEF TrafficTypes
<1>2. CASE base' = base /\ count' = count
  BY <1>1, <1>2 DEF Searches
<1>3. ASSUME NEW r \in Requests, AddTo(r)
      PROVE  Searches' \in Nat /\ Searches' >= Searches
  <2>1. PICK f \in Fields : count'[f] = count[f] + 1 /\ \A g \in Fields \ {f} : count'[g] = count[g]
    BY <1>1, <1>3, AddToIs
  <2>2. base' = base /\ base["searches"] \in Nat /\ count["searches"] \in Nat
    BY <1>1, <1>3 DEF AddTo, CountsOK, Fields
  <2>3. count'["searches"] \in {count["searches"], count["searches"] + 1}
    BY <2>1 DEF Fields
  <2> QED
    BY <2>2, <2>3 DEF Searches
<1> QED
  BY <1>2, <1>3 DEF TrafficNext, Midnight, Signal, ShutdownReturns, Arrive, bumpDay, Read, Write,
     trafficVars

\* The snapshots keep their bound.
LEMMA SnapsStep ==
    ASSUME HonestInv, [TrafficNext]_trafficVars
    PROVE  SnapsHonest'
<1>0. /\ TrafficTypes /\ snap = [t \in Persisters |-> snap[t]]
      /\ \A t \in Persisters : SnapOK(snap[t], Searches, ever)
  BY DEF HonestInv, SnapsHonest, TrafficTypes, CopiesOK
<1>1. CountsOK' /\ Searches' \in Nat
  <2>1. CountsOK'
    BY <1>0, CountsStep
  <2> QED
    BY <2>1 DEF CountsOK, Searches, Fields
<1>2. SnapOK(NotWriting, Searches', ever')
  <2> DEFINE n == Searches'
             e == ever'
  <2>1. NotWriting.next = 1 /\ NotWriting.read = NoTraffic
    BY DEF NotWriting
  <2>2. TallyOK(NoTraffic, ever) /\ InRing(NoTraffic["days"]) = 0 /\ IsTally(NoTraffic)
    BY <1>0, NotWritingOK, NoTrafficIs, InMemoryIs DEF TrafficTypes
  <2>3. TallyOK(NoTraffic, ever')
    BY <1>0, <2>2, StaysHonest
  <2>4. Searches' >= 0
    BY <1>1
  <2> QED
    BY <2>1, <2>2, <2>3, <2>4 DEF SnapOK
\* A persister that does nothing keeps its bound while the process lives.
<1>3. ASSUME ~Down, ~Restore
      PROVE  \A t \in Persisters : SnapOK(snap[t], Searches', ever')
  BY <1>0, <1>3, SearchesGrow, SnapStays
<1>4. CASE Down \/ Restore
  <2>1. snap' = [t \in Persisters |-> NotWriting]
    <3>1. CASE Down
      BY <3>1 DEF Down
    <3>2. CASE Restore
      BY <3>2, <1>0 DEF Restore, TrafficTypes, DownOK
    <3> QED
      BY <1>4, <3>1, <3>2
  <2>2. \A t \in Persisters : snap'[t] = NotWriting
    BY <2>1
  <2> QED
    BY <1>2, <2>2 DEF SnapsHonest
<1>5. ASSUME ~Down, ~Restore, snap' = snap
      PROVE  SnapsHonest'
  BY <1>3, <1>5 DEF SnapsHonest
<1>6. ASSUME NEW t \in Persisters, Read(t), ~Down, ~Restore
      PROVE  SnapsHonest'
  <2>1. SnapOK(snap'[t], Searches, ever)
    BY <1>6, ReadKeepsOK
  <2>2. Searches' = Searches /\ ever' = ever
    BY <1>6 DEF Read, Searches
  <2>3. \A x \in Persisters \ {t} : snap'[x] = snap[x]
    BY <1>0, <1>6, ReadIs
  <2> QED
    BY <1>0, <2>1, <2>2, <2>3 DEF SnapsHonest
<1>7. ASSUME NEW t \in Persisters, Write(t), ~Down, ~Restore
      PROVE  SnapsHonest'
  <2>1. snap' = [snap EXCEPT ![t] = NotWriting]
    BY <1>7 DEF Write
  <2>2. \A x \in Persisters : snap'[x] = IF x = t THEN NotWriting ELSE snap[x]
    BY <1>0, <2>1
  <2> QED
    BY <1>2, <1>3, <1>7, <2>2 DEF SnapsHonest
<1> QED
  BY <1>4, <1>5, <1>6, <1>7 DEF TrafficNext, Midnight, Signal, ShutdownReturns, Arrive, AddTo, bumpDay,
     trafficVars

\* The file is what it was, a finished snapshot, or none.
LEMMA FileStep ==
    ASSUME HonestInv, [TrafficNext]_trafficVars
    PROVE  FileHonest'
<1>0. TrafficTypes /\ CountsOK /\ CopiesOK /\ IsTally(file)
  BY DEF HonestInv, TrafficTypes, CopiesOK
<1>1. CASE file' = file
  <2>1. TallyOK(file, ever')
    BY <1>0, StaysHonest DEF HonestInv, FileHonest
  <2> QED
    BY <1>1, <2>1 DEF HonestInv, FileHonest
<1>2. ASSUME NEW t \in Persisters, Write(t), file' # file
      PROVE  FileHonest'
  <2>1. file' = snap[t].read /\ ever' = ever /\ snap[t].next > 3
    BY <1>2, ReadOrderIs DEF Write
  <2>2. SnapOK(snap[t], Searches, ever) /\ snap[t].next \in 1..4
    BY <1>0 DEF HonestInv, SnapsHonest, CopiesOK
  <2>3. snap[t].next = 4
    BY <2>1, <2>2
  <2> QED
    BY <2>1, <2>2, <2>3 DEF SnapOK, FileHonest
<1>3. CASE Restore /\ file' # file
  <2>1. file' = NoTraffic /\ ever' = ever
    BY <1>3 DEF Restore
  <2>2. InRing(NoTraffic["days"]) = 0 /\ NoTraffic["searches"] = 0 /\ TallyOK(NoTraffic, ever)
    BY <1>0, NotWritingOK, NoTrafficIs
  <2> QED
    BY <2>1, <2>2 DEF FileHonest
<1> QED
  BY <1>1, <1>2, <1>3 DEF TrafficNext, Midnight, Signal, ShutdownReturns, Down, Arrive, AddTo, bumpDay,
     Read, trafficVars

\* Initially nothing was counted and nothing is shown.
LEMMA InitHonest == TrafficInit => HonestInv
<1> SUFFICES ASSUME TrafficInit PROVE HonestInv
  OBVIOUS
<1>1. TrafficTypes /\ CountsOK
  BY InitTraffic DEF TrafficTypes
<1>2. /\ base = Zeros /\ count = Zeros /\ days = [s \in Slots |-> NoDay]
      /\ req = [r \in Requests |-> Idle] /\ file = NoTraffic
      /\ snap = [t \in Persisters |-> NotWriting]
  BY DEF TrafficInit, Zeros
<1>3. Total = 0 /\ Searches = 0
  BY <1>2 DEF Total, Searches, Zeros, Fields
<1>4. Pending = {} /\ Cardinality(Pending) = 0
  BY <1>2, FS_EmptySet DEF Pending, Idle
<1>5. InRing(days) = 0 /\ DaysOK(days, ever["days"])
  BY <1>2, RingEmpty DEF DaysOK, NoDay
<1>6. ever["total"] \in Nat /\ ever["searches"] \in Nat
  BY <1>1 DEF CountsOK
<1>7. MemoryHonest
  BY <1>3, <1>4, <1>5, <1>6 DEF MemoryHonest
<1>8. FileHonest
  <2>1. InRing(NoTraffic["days"]) = 0 /\ NoTraffic["searches"] = 0 /\ TallyOK(NoTraffic, ever)
    BY <1>1, NotWritingOK, NoTrafficIs
  <2> QED
    BY <1>2, <2>1 DEF FileHonest
<1>9. SnapsHonest
  <2>1. SnapOK(NotWriting, 0, ever)
    BY <1>1, NotWritingOK
  <2>2. \A t \in Persisters : snap[t] = NotWriting
    BY <1>2
  <2> QED
    BY <1>3, <2>1, <2>2 DEF SnapsHonest
<1> QED
  BY <1>1, <1>7, <1>8, <1>9 DEF HonestInv

\* The invariant says that what is shown and what is in the file are honest.
LEMMA HonestInvMeans == HonestInv => TallyHonest
<1> SUFFICES ASSUME HonestInv PROVE TallyHonest
  OBVIOUS
<1>1. ASSUME NEW t, InRing(t["days"]) <= t["searches"], TallyOK(t, ever)
      PROVE  Honest(t)
  BY <1>1 DEF Honest, TallyOK, DaysOK, Fields
<1>2. /\ InMemory["total"] = Total /\ InMemory["searches"] = Searches /\ InMemory["days"] = days
      /\ InRing(days) \in Nat /\ Cardinality(Pending) \in Nat /\ Searches \in Nat
  BY RingTerms, PendingFinite, InMemoryIs DEF HonestInv, TrafficTypes, CountsOK
<1>3. InRing(days) <= Searches
  BY <1>2 DEF HonestInv, MemoryHonest
<1>4. TallyOK(InMemory, ever)
  BY <1>2 DEF HonestInv, MemoryHonest, TallyOK
<1>5. Honest(InMemory)
  BY <1>1, <1>2, <1>3, <1>4
<1>6. Honest(file)
  BY <1>1 DEF HonestInv, FileHonest
<1> QED
  BY <1>5, <1>6 DEF TallyHonest

\* What /stats shows and what the file holds is never more than was counted, in
\* all and for each day, over any number of restarts, and the ring never shows
\* more searches than the total (RecordRequest, Snapshot, Restore).
THEOREM TallyIsHonest == TrafficSpec => []TallyHonest
<1>1. HonestInv /\ [TrafficNext]_trafficVars => HonestInv'
  <2> SUFFICES ASSUME HonestInv, [TrafficNext]_trafficVars PROVE HonestInv'
    OBVIOUS
  <2>1. TrafficTypes'
    BY ClockStep, RequestsStep, CountsStep, CopiesStep, DownStep DEF HonestInv, TrafficTypes
  <2> QED
    BY <2>1, MemoryStep, FileStep, SnapsStep DEF HonestInv
<1> QED
  BY <1>1, InitHonest, HonestInvMeans, PTL DEF TrafficSpec
==============================================================================
