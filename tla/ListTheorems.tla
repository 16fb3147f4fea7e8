------------------------------ MODULE ListTheorems ------------------------------
(***************************************************************************)
(* Facts about sums over a finite set of indices, as FoldFunction and      *)
(* FoldSeq compute them, and about sequences: sorted and filtered as in    *)
(* module Lists, concatenated, cut into pages.                             *)
(***************************************************************************)
EXTENDS Lists, Functions, FiniteSetTheorems, SequenceTheorems, WellFoundedInduction, TLAPS

-----------------------------------------------------------------------------
(* Sums, which take one index after another off the domain.                *)

\* The index it takes off next.
Some(s) == CHOOSE x \in s : TRUE
Rest(s) == s \ {Some(s)}

\* sum gives every set of f's indices in S its sum.
IsSumOver(f, S, sum) ==
    \A s \in S : sum[s] = IF s = {} THEN 0 ELSE f[Some(s)] + sum[Rest(s)]

Sums(f) ==
    CHOOSE sum : sum = [s \in SUBSET (DOMAIN f) |-> IF s = {} THEN 0 ELSE f[Some(s)] + sum[Rest(s)]]

\* Every non-empty set of natural numbers has a least element.
LEMMA LeastNat ==
    ASSUME NEW T, T \subseteq Nat, T # {}
    PROVE  \E x \in T : \A y \in T : x <= y
<1> DEFINE R == OpToRel(<, Nat)
<1>1. IsWellFoundedOn(R, Nat)
  BY NatLessThanWellFounded
<1>2. \A x, y \in Nat : y < x => <<y, x>> \in R
  BY DEF OpToRel
<1> HIDE DEF R
<1>3. PICK x \in T : \A y \in T : ~ (<<y, x>> \in R)
  BY <1>1, WFMin
<1>4. ASSUME NEW y \in T
      PROVE  x <= y
  <2>1. x \in Nat /\ y \in Nat
    BY <1>3
  <2>2. ~(y < x)
    BY <2>1, <1>2, <1>3
  <2> QED
    BY <2>1, <2>2
<1> QED
  BY <1>3, <1>4

\* Taking an index off a finite set makes it smaller by one.
LEMMA RestSmaller ==
    ASSUME NEW s, IsFiniteSet(s), s # {}
    PROVE  /\ Some(s) \in s /\ Rest(s) \subseteq s /\ IsFiniteSet(Rest(s))
           /\ Cardinality(s) \in Nat /\ Cardinality(Rest(s)) = Cardinality(s) - 1
           /\ Cardinality(Rest(s)) \in Nat
<1>1. Some(s) \in s
  BY DEF Some
<1> QED
  BY <1>1, FS_RemoveElement, FS_CardinalityType DEF Rest

\* What holds of the empty set, and of a set when it holds of the set less the
\* index taken off, holds of every subset of a finite set.
LEMMA SubsetInduction ==
    ASSUME NEW D, IsFiniteSet(D), NEW G, {} \in G,
           \A s \in SUBSET D : s # {} /\ Rest(s) \in G => s \in G
    PROVE  SUBSET D \subseteq G
<1> SUFFICES ASSUME NEW t \in SUBSET D, t \notin G
             PROVE  FALSE
  OBVIOUS
<1> DEFINE Bad == {s \in SUBSET D : s \notin G}
           Sizes == {Cardinality(s) : s \in Bad}
<1>1. \A s \in SUBSET D : IsFiniteSet(s) /\ Cardinality(s) \in Nat
  BY FS_Subset, FS_CardinalityType
<1>2. Sizes \subseteq Nat /\ Sizes # {}
  BY <1>1
<1>3. PICK n \in Sizes : \A m \in Sizes : n <= m
  <2> HIDE DEF Sizes
  <2> QED
    BY <1>2, LeastNat
<1>4. PICK s \in Bad : n = Cardinality(s)
  BY <1>3
<1>5. s # {}
  BY <1>4
<1>6. Rest(s) \in SUBSET D /\ Cardinality(Rest(s)) = n - 1 /\ n \in Nat
  BY <1>1, <1>4, <1>5, RestSmaller
<1>7. Rest(s) \in G
  <2>1. SUFFICES ASSUME Rest(s) \notin G PROVE FALSE
    OBVIOUS
  <2>2. n - 1 \in Sizes
    BY <2>1, <1>6
  <2> QED
    BY <2>2, <1>3, <1>6
<1> QED
  BY <1>4, <1>5, <1>7

\* There is a function that sums the sets of up to n indices.
LEMMA SumsUpTo ==
    ASSUME NEW f, NEW D, IsFiniteSet(D)
    PROVE  \A n \in Nat : \E sum : IsSumOver(f, {s \in SUBSET D : Cardinality(s) <= n}, sum)
<1> DEFINE Sets(n) == {s \in SUBSET D : Cardinality(s) <= n}
           Bad == {n \in Nat : ~ \E sum : IsSumOver(f, Sets(n), sum)}
<1>1. SUFFICES ASSUME Bad # {} PROVE FALSE
  OBVIOUS
<1>2. \A s \in SUBSET D : IsFiniteSet(s) /\ Cardinality(s) \in Nat
  BY FS_Subset, FS_CardinalityType
<1>3. PICK n \in Bad : \A m \in Bad : n <= m
  <2>1. Bad \subseteq Nat
    OBVIOUS
  <2> HIDE DEF Bad
  <2> QED
    BY <1>1, <2>1, LeastNat
<1>4. CASE n = 0
  <2>1. \A s \in Sets(0) : s = {}
    BY <1>2, FS_EmptySet
  <2>2. IsSumOver(f, Sets(0), [s \in SUBSET D |-> 0])
    BY <2>1 DEF IsSumOver
  <2> QED
    BY <2>2, <1>3, <1>4
<1>5. CASE n # 0
  <2>1. n \in Nat /\ n - 1 \in Nat /\ n - 1 \notin Bad
    <3>1. n \in Nat
      BY <1>3
    <3>2. n - 1 \in Nat /\ ~(n <= n - 1)
      BY <3>1, <1>5
    <3> HIDE DEF Bad
    <3> QED
      BY <3>1, <3>2, <1>3
  <2>2. PICK part : IsSumOver(f, Sets(n - 1), part)
    BY <2>1
  <2> DEFINE sum == [s \in SUBSET D |-> IF Cardinality(s) <= n - 1 THEN part[s]
                                        ELSE f[Some(s)] + part[Rest(s)]]
  <2>3. ASSUME NEW s \in Sets(n)
        PROVE  sum[s] = IF s = {} THEN 0 ELSE f[Some(s)] + sum[Rest(s)]
    <3>1. CASE s = {}
      <4>1. s \in Sets(n - 1)
        BY <2>1, <3>1, FS_EmptySet
      <4> QED
        BY <2>2, <3>1, <4>1 DEF IsSumOver
    <3>2. CASE s # {}
      <4>1. /\ s \in SUBSET D /\ Rest(s) \in SUBSET D /\ Cardinality(s) \in Nat /\ Cardinality(s) <= n
            /\ Cardinality(Rest(s)) = Cardinality(s) - 1
        BY <3>2, <1>2, RestSmaller
      <4>2. sum[Rest(s)] = part[Rest(s)]
        BY <4>1, <2>1
      <4>3. CASE Cardinality(s) <= n - 1
        <5>1. part[s] = f[Some(s)] + part[Rest(s)]
          BY <4>1, <4>3, <3>2, <2>2 DEF IsSumOver
        <5> QED
          BY <5>1, <4>1, <4>2, <4>3, <3>2
      <4>4. CASE ~(Cardinality(s) <= n - 1)
        BY <4>1, <4>2, <4>4, <3>2
      <4> QED
        BY <4>3, <4>4
    <3> QED
      BY <3>1, <3>2
  <2> HIDE DEF sum
  <2>4. IsSumOver(f, Sets(n), sum)
    BY <2>3 DEF IsSumOver
  <2> QED
    BY <2>4, <1>3
<1> QED
  BY <1>4, <1>5

\* The sums FoldFunction is made of exist.
LEMMA SumsAre ==
    ASSUME NEW f, IsFiniteSet(DOMAIN f)
    PROVE  IsSumOver(f, SUBSET (DOMAIN f), Sums(f))
<1> DEFINE D == DOMAIN f
           n == Cardinality(D)
<1>1. n \in Nat /\ \A m \in Nat : \E sum : IsSumOver(f, {s \in SUBSET D : Cardinality(s) <= m}, sum)
  BY SumsUpTo, FS_CardinalityType
<1>a. PICK sum : IsSumOver(f, {s \in SUBSET D : Cardinality(s) <= n}, sum)
  <2> HIDE DEF n
  <2> QED
    BY <1>1
<1>2. \A s \in SUBSET D : Cardinality(s) <= n
  BY FS_Subset
<1>3. IsSumOver(f, SUBSET D, sum)
  BY <1>a, <1>2 DEF IsSumOver
<1> DEFINE all == [s \in SUBSET D |-> sum[s]]
<1>4. \A s \in SUBSET D : Rest(s) \in SUBSET D
  BY DEF Rest
<1>5. all = [s \in SUBSET D |-> IF s = {} THEN 0 ELSE f[Some(s)] + all[Rest(s)]]
  BY <1>3, <1>4 DEF IsSumOver
<1> HIDE DEF all
<1>6. Sums(f) = [s \in SUBSET D |-> IF s = {} THEN 0 ELSE f[Some(s)] + Sums(f)[Rest(s)]]
  BY <1>5 DEF Sums
<1> QED
  BY <1>6 DEF IsSumOver

\* FoldFunction with + is the sum over the whole domain.
LEMMA FoldIsSum ==
    ASSUME NEW f
    PROVE  FoldFunction(+, 0, f) = Sums(f)[DOMAIN f]
BY DEF FoldFunction, FoldFunctionOnSet, MapThenFoldSet, Sums, Some, Rest

\* A sum of natural numbers is one, and if they are all 0 so is it.
LEMMA SumIsNat ==
    ASSUME NEW D, IsFiniteSet(D), NEW f \in [D -> Nat]
    PROVE  /\ FoldFunction(+, 0, f) \in Nat
           /\ (\A x \in D : f[x] = 0) => FoldFunction(+, 0, f) = 0
<1>1. DOMAIN f = D /\ IsSumOver(f, SUBSET D, Sums(f))
  BY SumsAre
<1> DEFINE G == {s \in SUBSET D : Sums(f)[s] \in Nat /\ ((\A x \in D : f[x] = 0) => Sums(f)[s] = 0)}
<1>2. {} \in G
  BY <1>1 DEF IsSumOver
<1>3. ASSUME NEW s \in SUBSET D, s # {}, Rest(s) \in G
      PROVE  s \in G
  <2>1. Some(s) \in D /\ Sums(f)[s] = f[Some(s)] + Sums(f)[Rest(s)]
    BY <1>1, <1>3, FS_Subset, RestSmaller DEF IsSumOver
  <2>2. f[Some(s)] \in Nat
    BY <2>1
  <2> QED
    BY <2>1, <2>2, <1>3
<1> HIDE DEF G
<1>4. SUBSET D \subseteq G
  BY <1>2, <1>3, SubsetInduction
<1> QED
  BY <1>1, <1>4, FoldIsSum DEF G

\* A sum grows by no more than one of its terms does.
LEMMA SumGrows ==
    ASSUME NEW D, IsFiniteSet(D), NEW f \in [D -> Nat], NEW g \in [D -> Nat],
           NEW x, NEW k \in Nat,
           \A y \in D : g[y] <= f[y] + (IF y = x THEN k ELSE 0)
    PROVE  FoldFunction(+, 0, g) <= FoldFunction(+, 0, f) + k
<1>1. /\ DOMAIN f = D /\ IsSumOver(f, SUBSET D, Sums(f))
      /\ DOMAIN g = D /\ IsSumOver(g, SUBSET D, Sums(g))
  BY SumsAre
<1> DEFINE G == {s \in SUBSET D : /\ Sums(f)[s] \in Nat /\ Sums(g)[s] \in Nat
                                  /\ Sums(g)[s] <= Sums(f)[s] + (IF x \in s THEN k ELSE 0)}
<1>2. {} \in G
  <2>1. Sums(f)[{}] = 0 /\ Sums(g)[{}] = 0
    BY <1>1 DEF IsSumOver
  <2> QED
    BY <2>1
<1>3. ASSUME NEW s \in SUBSET D, s # {}, Rest(s) \in G
      PROVE  s \in G
  <2> DEFINE y == Some(s)
  <2>1. /\ y \in s /\ y \in D
        /\ Sums(f)[s] = f[y] + Sums(f)[Rest(s)] /\ Sums(g)[s] = g[y] + Sums(g)[Rest(s)]
    BY <1>1, <1>3, FS_Subset, RestSmaller DEF IsSumOver
  <2>2. f[y] \in Nat /\ g[y] \in Nat /\ g[y] <= f[y] + (IF y = x THEN k ELSE 0)
    BY <2>1
  <2>3. x \in Rest(s) <=> x \in s /\ x # y
    BY DEF Rest
  <2>4. /\ Sums(f)[Rest(s)] \in Nat /\ Sums(g)[Rest(s)] \in Nat
        /\ Sums(g)[Rest(s)] <= Sums(f)[Rest(s)] + (IF x \in Rest(s) THEN k ELSE 0)
    BY <1>3
  <2> HIDE DEF y
  <2>5. Sums(f)[s] \in Nat /\ Sums(g)[s] \in Nat
        /\ Sums(g)[s] <= Sums(f)[s] + (IF x \in s THEN k ELSE 0)
    BY <2>1, <2>2, <2>3, <2>4
  <2> QED
    BY <2>5
<1> HIDE DEF G
<1>4. SUBSET D \subseteq G
  BY <1>2, <1>3, SubsetInduction
<1>5. Sums(g)[D] <= Sums(f)[D] + k
  <2>1. D \in G
    BY <1>4
  <2>2. Sums(f)[D] \in Nat /\ Sums(g)[D] \in Nat
        /\ Sums(g)[D] <= Sums(f)[D] + (IF x \in D THEN k ELSE 0)
    BY <2>1 DEF G
  <2> QED
    BY <2>2
<1>6. FoldFunction(+, 0, f) = Sums(f)[D] /\ FoldFunction(+, 0, g) = Sums(g)[D]
  BY <1>1, FoldIsSum
<1> QED
  BY <1>5, <1>6

\* The union of sets is no larger than the sum of bounds on their sizes.
LEMMA UnionWithinSum ==
    ASSUME NEW D, IsFiniteSet(D), NEW f \in [D -> Nat], NEW part,
           \A x \in D : IsFiniteSet(part[x]) /\ Cardinality(part[x]) <= f[x]
    PROVE  LET all == UNION {part[x] : x \in D}
           IN  IsFiniteSet(all) /\ Cardinality(all) <= FoldFunction(+, 0, f)
<1>1. DOMAIN f = D /\ IsSumOver(f, SUBSET D, Sums(f))
  BY SumsAre
<1> DEFINE All(s) == UNION {part[x] : x \in s}
           G == {s \in SUBSET D : /\ Sums(f)[s] \in Nat /\ IsFiniteSet(All(s))
                                  /\ Cardinality(All(s)) <= Sums(f)[s]}
<1>2. {} \in G
  <2>1. Sums(f)[{}] = 0 /\ All({}) = {}
    BY <1>1 DEF IsSumOver
  <2> QED
    BY <2>1, FS_EmptySet
<1>3. ASSUME NEW s \in SUBSET D, s # {}, Rest(s) \in G
      PROVE  s \in G
  <2>1. Some(s) \in s /\ Some(s) \in D /\ Sums(f)[s] = f[Some(s)] + Sums(f)[Rest(s)]
    BY <1>1, <1>3, FS_Subset, RestSmaller DEF IsSumOver
  <2>2. f[Some(s)] \in Nat /\ IsFiniteSet(part[Some(s)]) /\ Cardinality(part[Some(s)]) <= f[Some(s)]
    BY <2>1
  <2>3. All(s) = part[Some(s)] \cup All(Rest(s))
    BY <2>1 DEF Rest
  <2>4. /\ Sums(f)[Rest(s)] \in Nat /\ IsFiniteSet(All(Rest(s)))
        /\ Cardinality(All(Rest(s))) <= Sums(f)[Rest(s)]
    BY <1>3
  <2> DEFINE a == part[Some(s)]
             b == All(Rest(s))
  <2> HIDE DEF a, b, All
  <2>5. /\ IsFiniteSet(a \cup b) /\ Cardinality(a \cup b) <= Cardinality(a) + Cardinality(b)
        /\ Cardinality(a \cup b) \in Nat /\ Cardinality(a) \in Nat /\ Cardinality(b) \in Nat
    <3>1. IsFiniteSet(a) /\ IsFiniteSet(b)
      BY <2>2, <2>4 DEF a, b
    <3>2. /\ Cardinality(a \cup b) = Cardinality(a) + Cardinality(b) - Cardinality(a \cap b)
          /\ Cardinality(a \cap b) \in Nat
      BY <3>1, FS_Union, FS_Intersection, FS_CardinalityType
    <3> QED
      BY <3>1, <3>2, FS_Union, FS_CardinalityType
  <2>6. All(s) = a \cup b /\ Cardinality(a) <= f[Some(s)] /\ Cardinality(b) <= Sums(f)[Rest(s)]
    BY <2>2, <2>3, <2>4 DEF a, b
  <2>7. Sums(f)[s] \in Nat /\ IsFiniteSet(All(s)) /\ Cardinality(All(s)) <= Sums(f)[s]
    BY <2>1, <2>2, <2>4, <2>5, <2>6
  <2> QED
    BY <1>3, <2>7
<1> HIDE DEF G
<1>4. D \in G
  BY <1>2, <1>3, SubsetInduction
<1> QED
  BY <1>1, <1>4, FoldIsSum DEF G
-----------------------------------------------------------------------------
(* Numbers.                                                                *)

\* The smaller and the larger of two numbers.
LEMMA MinMaxOfTwo ==
  ASSUME NEW a \in Int, NEW b \in Int
  PROVE  /\ Min({a, b}) \in {a, b} /\ Min({a, b}) <= a /\ Min({a, b}) <= b
         /\ Max({a, b}) \in {a, b} /\ Max({a, b}) >= a /\ Max({a, b}) >= b
<1>1. \E x \in {a, b} : \A y \in {a, b} : x <= y
  OBVIOUS
<1>2. \E x \in {a, b} : \A y \in {a, b} : x >= y
  OBVIOUS
<1>3. Min({a, b}) \in {a, b} /\ \A y \in {a, b} : Min({a, b}) <= y
  BY <1>1 DEF Min
<1>4. Max({a, b}) \in {a, b} /\ \A y \in {a, b} : Max({a, b}) >= y
  BY <1>2 DEF Max
<1> QED
  BY <1>3, <1>4
\* Multiples grow with their factor.
LEMMA Multiples ==
    ASSUME NEW b \in Nat, NEW x \in Nat, NEW y \in Nat
    PROVE  /\ x <= y => x * b <= y * b
           /\ x < y => x * b + b <= y * b
           /\ x * b \in Nat /\ (x + 1) * b = x * b + b
<1>1. (x + 1) * b = x * b + b /\ x * b \in Nat
  OBVIOUS
<1>2. ASSUME NEW d \in Nat, y = x + d PROVE y * b = x * b + d * b /\ d * b \in Nat
  BY <1>2
<1>3. ASSUME NEW d \in Nat, d > 0 PROVE d * b >= b
  <2>1. PICK e \in Nat : d = e + 1
    <3>1. d - 1 \in Nat /\ d = d - 1 + 1
      BY <1>3
    <3> QED
      BY <3>1
  <2>2. d * b = e * b + b /\ e * b \in Nat
    BY <2>1
  <2> QED
    BY <2>2
<1>4. ASSUME x <= y
      PROVE  /\ x * b <= y * b
             /\ x < y => x * b + b <= y * b
  <2> DEFINE d == y - x
  <2>1. d \in Nat /\ y = x + d /\ (x < y => d > 0)
    BY <1>4
  <2> HIDE DEF d
  <2>2. y * b = x * b + d * b /\ d * b \in Nat /\ (d > 0 => d * b >= b)
    BY <2>1, <1>2, <1>3
  <2> QED
    BY <1>1, <2>1, <2>2
<1> QED
  BY <1>1, <1>4

\* A quotient.
LEMMA Quotient ==
    ASSUME NEW a \in Nat, NEW b \in Nat \ {0}
    PROVE  /\ a \div b \in Nat
           /\ (a \div b) * b <= a /\ a < (a \div b) * b + b
OBVIOUS

\* What holds of 1, and of the next number below n with a number, holds up to n.
LEMMA UpTo ==
    ASSUME NEW n \in Nat, NEW G, n > 0 => 1 \in G,
           \A m \in 1..n : m \in G /\ m < n => m + 1 \in G
    PROVE  1..n \subseteq G
<1> DEFINE Bad == {m \in 1..n : m \notin G}
<1>1. SUFFICES ASSUME Bad # {} PROVE FALSE
  OBVIOUS
<1>2. Bad \subseteq Nat
  OBVIOUS
<1>3. PICK m \in Bad : \A k \in Bad : m <= k
  <2> HIDE DEF Bad
  <2> QED
    BY <1>1, <1>2, LeastNat
<1>4. m \in 1..n /\ m \notin G /\ m # 1
  BY <1>3
<1>5. m - 1 \in 1..n /\ m - 1 < n /\ m - 1 + 1 = m /\ ~(m <= m - 1)
  BY <1>4
<1>6. m - 1 \in G
  BY <1>3, <1>5
<1> QED
  BY <1>4, <1>5, <1>6

-----------------------------------------------------------------------------
(* Sequences.                                                              *)

\* A function of the numbers up to n is a sequence.
LEMMA FunctionIsSeq ==
    ASSUME NEW S, NEW n \in Nat, NEW f \in [1..n -> S]
    PROVE  f \in Seq(S) /\ Len(f) = n /\ DOMAIN f = 1..n
<1>1. f \in Seq(S)
  BY DEF Seq
<1>2. DOMAIN f = 1..n /\ DOMAIN f = 1..Len(f) /\ Len(f) \in Nat
  BY <1>1, LenProperties
<1> QED
  BY <1>1, <1>2

\* A finite set as a sequence: each element once.
LEMMA SetAsSeq ==
    ASSUME NEW T, IsFiniteSet(T)
    PROVE  /\ SetToSeq(T) \in Seq(T)
           /\ \A t \in T : \E i \in 1..Len(SetToSeq(T)) : SetToSeq(T)[i] = t
           /\ \A i, j \in 1..Len(SetToSeq(T)) : i # j => SetToSeq(T)[i] # SetToSeq(T)[j]
<1> DEFINE n == Cardinality(T)
           f == SetToSeq(T)
<1>1. n \in Nat /\ ExistsBijection(1..n, T)
  BY FS_CardinalityType
<1>2. \E g \in [1..n -> T] : IsInjective(g)
  BY <1>1 DEF ExistsBijection, Bijection, Injection
<1>3. f \in [1..n -> T] /\ IsInjective(f)
  BY <1>2 DEF SetToSeq
<1> HIDE DEF f
<1>4. f \in Seq(T) /\ Len(f) = n
  <2>1. f = [i \in 1..n |-> f[i]] /\ \A i \in 1..n : f[i] \in T
    BY <1>3
  <2>2. f \in Seq(T)
    BY <1>1, <1>3 DEF Seq
  <2>3. DOMAIN f = 1..n /\ DOMAIN f = 1..Len(f) /\ Len(f) \in Nat
    BY <1>3, <2>2, LenProperties
  <2> QED
    BY <1>1, <2>2, <2>3
<1>5. f \in Injection(1..n, T)
  BY <1>3 DEF Injection
<1>6. IsFiniteSet(1..n) /\ Cardinality(1..n) = n
  BY <1>1, FS_Interval
<1>7. f \in Surjection(1..n, T)
  BY <1>5, <1>6, FS_Injection
<1>8. \A t \in T : \E i \in 1..n : f[i] = t
  BY <1>7 DEF Surjection
<1>9. \A i, j \in 1..n : i # j => f[i] # f[j]
  BY <1>3 DEF IsInjective
<1> QED
  BY <1>4, <1>8, <1>9 DEF f

\* The concatenations of the first sequences of a sequence of them, one more
\* at a time.
IsJoined(seqs, m, parts) ==
    \A i \in 1..m : parts[i] = IF i = 1 THEN seqs[i] ELSE parts[i - 1] \o seqs[i]

\* That is what FlattenSeq computes, in the end.
LEMMA FlattenJoins ==
    ASSUME NEW S, NEW seqs \in Seq(S), Len(seqs) > 0
    PROVE  \E parts : IsJoined(seqs, Len(seqs), parts) /\ FlattenSeq(seqs) = parts[Len(seqs)]
<1> DEFINE n == Len(seqs)
           G == {m \in Nat : \E parts : IsJoined(seqs, m, parts)}
<1>0. n \in Nat /\ n > 0
  BY LenProperties
<1>1. 1 \in G
  <2>1. IsJoined(seqs, 1, [i \in 1..1 |-> seqs[1]])
    BY DEF IsJoined
  <2> QED
    BY <2>1
<1>2. ASSUME NEW m \in 1..n, m \in G, m < n
      PROVE  m + 1 \in G
  <2>1. PICK parts : IsJoined(seqs, m, parts)
    BY <1>2
  <2> DEFINE more == [i \in 1..m + 1 |-> IF i <= m THEN parts[i] ELSE parts[m] \o seqs[m + 1]]
  <2>2. ASSUME NEW i \in 1..m + 1
        PROVE  more[i] = IF i = 1 THEN seqs[i] ELSE more[i - 1] \o seqs[i]
    <3>1. CASE i <= m
      <4>1. more[i] = parts[i] /\ i \in 1..m /\ (i # 1 => more[i - 1] = parts[i - 1])
        BY <3>1, <1>0
      <4> QED
        BY <4>1, <2>1 DEF IsJoined
    <3>2. CASE i = m + 1
      BY <3>2, <1>0
    <3> QED
      BY <3>1, <3>2, <1>0
  <2> HIDE DEF more
  <2>3. IsJoined(seqs, m + 1, more)
    BY <2>2 DEF IsJoined
  <2> QED
    BY <2>3, <1>0
<1> HIDE DEF G
<1>3. n \in G
  <2>1. 1..n \subseteq G
    BY <1>0, <1>1, <1>2, UpTo
  <2> QED
    BY <2>1, <1>0
<1>4. PICK parts : IsJoined(seqs, n, parts)
  BY <1>3 DEF G
<1> DEFINE flat == CHOOSE f : f = [i \in 1..n |-> IF i = 1 THEN seqs[i] ELSE f[i - 1] \o seqs[i]]
<1>5. flat = [i \in 1..n |-> IF i = 1 THEN seqs[i] ELSE flat[i - 1] \o seqs[i]]
  <2> DEFINE cut == [i \in 1..n |-> parts[i]]
  <2>1. ASSUME NEW i \in 1..n
        PROVE  cut[i] = IF i = 1 THEN seqs[i] ELSE cut[i - 1] \o seqs[i]
    <3>1. cut[i] = parts[i] /\ (i # 1 => cut[i - 1] = parts[i - 1])
      BY <1>0
    <3> QED
      BY <3>1, <1>4 DEF IsJoined
  <2>2. cut = [i \in 1..n |-> cut[i]]
    OBVIOUS
  <2> HIDE DEF cut
  <2>3. cut = [i \in 1..n |-> IF i = 1 THEN seqs[i] ELSE cut[i - 1] \o seqs[i]]
    BY <2>1, <2>2
  <2> QED
    BY <2>3
<1>6. FlattenSeq(seqs) = flat[n]
  BY <1>0 DEF FlattenSeq
<1> HIDE DEF flat
<1>7. IsJoined(seqs, n, flat)
  BY <1>5 DEF IsJoined
<1> QED
  BY <1>6, <1>7

-----------------------------------------------------------------------------
(* Rankings.                                                               *)

IsOrder(order, D) ==
    /\ \A i, j \in D : <<i, j>> \in order \/ <<j, i>> \in order
    /\ \A i, j \in D : <<i, j>> \in order /\ <<j, i>> \in order => i = j
    /\ \A i, j, k \in D : <<i, j>> \in order /\ <<j, k>> \in order => <<i, k>> \in order

\* In the order of their ranks the elements of a sequence are all there, each
\* once, and a place that is first in the order comes first.
LEMMA RankedIs ==
    ASSUME NEW S, NEW seq \in Seq(S), NEW order, IsOrder(order, 1..Len(seq))
    PROVE  \E place \in [1..Len(seq) -> 1..Len(seq)] :
              /\ Ranked(seq, order) = [k \in 1..Len(seq) |-> seq[place[k]]]
              /\ \A i \in 1..Len(seq) : \E k \in 1..Len(seq) : place[k] = i
              /\ \A k, l \in 1..Len(seq) : k < l => place[k] # place[l] /\ <<place[k], place[l]>> \in order
<1> DEFINE D == 1..Len(seq)
           Below(i) == {j \in D : <<j, i>> \in order}
           rank == [i \in D |-> Cardinality(Below(i))]
<1>0. Len(seq) \in Nat /\ DOMAIN seq = D /\ IsFiniteSet(D) /\ Cardinality(D) = Len(seq)
  <2>1. Len(seq) \in Nat /\ DOMAIN seq = D
    BY LenProperties
  <2>2. IsFiniteSet(D) /\ Cardinality(D) = IF 1 > Len(seq) THEN 0 ELSE Len(seq) - 1 + 1
    BY <2>1, FS_Interval
  <2> QED
    BY <2>1, <2>2
<1>1. ASSUME NEW i \in D
      PROVE  /\ IsFiniteSet(Below(i)) /\ i \in Below(i) /\ Below(i) \subseteq D
             /\ Cardinality(Below(i)) \in D
  <2>1. i \in Below(i) /\ Below(i) \subseteq D
    BY DEF IsOrder
  <2>2. /\ IsFiniteSet(Below(i)) /\ Cardinality(Below(i)) <= Cardinality(D)
    BY <2>1, <1>0, FS_Subset
  <2>3. Cardinality(Below(i)) \in Nat /\ Cardinality(Below(i)) # 0
    BY <2>1, <2>2, FS_CardinalityType, FS_EmptySet
  <2> HIDE DEF Below
  <2> QED
    BY <1>0, <2>1, <2>2, <2>3
<1>2. ASSUME NEW i \in D, NEW j \in D, i # j, <<i, j>> \in order
      PROVE  rank[i] < rank[j]
  <2>1. Below(i) \subseteq Below(j) \ {j} /\ j \in Below(j)
    BY <1>1, <1>2 DEF IsOrder
  <2> HIDE DEF Below
  <2>2. /\ IsFiniteSet(Below(j) \ {j})
        /\ Cardinality(Below(j) \ {j}) = Cardinality(Below(j)) - 1
    BY <2>1, <1>1, FS_RemoveElement
  <2>3. Cardinality(Below(i)) <= Cardinality(Below(j) \ {j})
    BY <2>1, <2>2, FS_Subset
  <2>4. Cardinality(Below(i)) \in D /\ Cardinality(Below(j)) \in D
    BY <1>1
  <2>5. Cardinality(Below(i)) < Cardinality(Below(j))
    BY <1>0, <2>2, <2>3, <2>4
  <2> QED
    BY <2>5
<1>3. rank \in [D -> D]
  BY <1>1
<1>4. \A i, j \in D : rank[i] = rank[j] => i = j
  <2>1. SUFFICES ASSUME NEW i \in D, NEW j \in D, rank[i] = rank[j], i # j
                 PROVE  FALSE
    OBVIOUS
  <2>2. rank[i] < rank[j] \/ rank[j] < rank[i]
    BY <2>1, <1>2 DEF IsOrder
  <2> HIDE DEF rank
  <2>3. rank[i] \in Nat /\ rank[j] \in Nat
    BY <1>3, <1>0
  <2> QED
    BY <2>1, <2>2, <2>3
<1> HIDE DEF rank
<1>5. \A k \in D : \E i \in D : rank[i] = k
  <2>1. rank \in Injection(D, D)
    BY <1>3, <1>4 DEF Injection, IsInjective
  <2>2. rank \in Surjection(D, D)
    BY <2>1, <1>0, FS_Injection
  <2> QED
    BY <2>2 DEF Surjection
<1> DEFINE place == [k \in D |-> CHOOSE i \in D : rank[i] = k]
<1>6. \A k \in D : place[k] \in D /\ rank[place[k]] = k
  BY <1>5
<1>7. Ranked(seq, order) = [k \in D |-> seq[place[k]]]
  BY <1>0 DEF Ranked, rank
<1> HIDE DEF place, D
<1>8. place \in [D -> D]
  BY <1>6 DEF place
<1>9. \A i \in D : \E k \in D : place[k] = i
  BY <1>3, <1>4, <1>6
<1>10. ASSUME NEW k \in D, NEW l \in D, k < l
       PROVE  place[k] # place[l] /\ <<place[k], place[l]>> \in order
  <2>1. place[k] \in D /\ place[l] \in D /\ rank[place[k]] = k /\ rank[place[l]] = l
    BY <1>6
  <2>2. k \in Nat /\ l \in Nat /\ k # l /\ ~(l < k)
    BY <1>0, <1>10 DEF D
  <2>3. place[k] # place[l]
    BY <2>1, <2>2
  <2>4. <<place[k], place[l]>> \in order \/ <<place[l], place[k]>> \in order
    BY <2>1 DEF IsOrder, D
  <2> QED
    BY <2>1, <2>2, <2>3, <2>4, <1>2
<1> QED
  BY <1>7, <1>8, <1>9, <1>10 DEF D

\* A set that is numbered off, each element once, is as large as its numbers.
LEMMA SameSize ==
    ASSUME NEW S, IsFiniteSet(S), NEW T, NEW f \in [S -> T],
           \A x, y \in S : f[x] = f[y] => x = y, \A t \in T : \E x \in S : f[x] = t
    PROVE  IsFiniteSet(T) /\ Cardinality(T) = Cardinality(S)
<1>1. f \in Bijection(S, T)
  BY DEF Bijection, Injection, Surjection, IsInjective
<1>2. ExistsBijection(S, T)
  BY <1>1 DEF ExistsBijection
<1> QED
  BY <1>2, FS_Bijection

\* How far down in the order an element is.
Rank(S, order, x) == Cardinality({y \in S : <<y, x>> \in order})

\* In an order of a finite set the ranks number the elements off.
LEMMA RanksNumber ==
    ASSUME NEW S, IsFiniteSet(S), NEW order, IsOrder(order, S)
    PROVE  /\ \A x \in S : Rank(S, order, x) \in 1..Cardinality(S)
           /\ \A x, y \in S : Rank(S, order, x) = Rank(S, order, y) => x = y
           /\ \A x, y \in S : x # y /\ <<x, y>> \in order => Rank(S, order, x) < Rank(S, order, y)
           /\ \A k \in 1..Cardinality(S) : \E x \in S : Rank(S, order, x) = k
<1> DEFINE n == Cardinality(S)
           Below(x) == {y \in S : <<y, x>> \in order}
           rank == [x \in S |-> Rank(S, order, x)]
<1>0. n \in Nat /\ IsFiniteSet(1..n) /\ Cardinality(1..n) = n
  BY FS_CardinalityType, FS_Interval
<1>1. ASSUME NEW x \in S
      PROVE  /\ IsFiniteSet(Below(x)) /\ x \in Below(x)
             /\ Rank(S, order, x) = Cardinality(Below(x)) /\ Rank(S, order, x) \in 1..n
             /\ Rank(S, order, x) \in Nat
  <2>1. x \in Below(x) /\ Below(x) \in SUBSET S
    BY DEF IsOrder
  <2>2. IsFiniteSet(Below(x)) /\ Cardinality(Below(x)) <= n
    BY <2>1, FS_Subset
  <2>3. Cardinality(Below(x)) \in Nat /\ Cardinality(Below(x)) # 0
    BY <2>1, <2>2, FS_CardinalityType, FS_EmptySet
  <2>4. Rank(S, order, x) = Cardinality(Below(x))
    BY DEF Rank
  <2> HIDE DEF Below, n
  <2> QED
    BY <1>0, <2>1, <2>2, <2>3, <2>4
<1>2. ASSUME NEW x \in S, NEW y \in S, x # y, <<x, y>> \in order
      PROVE  Rank(S, order, x) < Rank(S, order, y)
  <2>1. Below(x) \in SUBSET (Below(y) \ {y}) /\ y \in Below(y)
    BY <1>1, <1>2 DEF IsOrder
  <2>2. /\ IsFiniteSet(Below(x)) /\ IsFiniteSet(Below(y))
        /\ Rank(S, order, x) = Cardinality(Below(x)) /\ Rank(S, order, x) \in Nat
        /\ Rank(S, order, y) = Cardinality(Below(y)) /\ Rank(S, order, y) \in Nat
    BY <1>1
  <2> HIDE DEF Below
  <2>3. /\ IsFiniteSet(Below(y) \ {y})
        /\ Cardinality(Below(y) \ {y}) = Cardinality(Below(y)) - 1
    BY <2>1, <2>2, FS_RemoveElement
  <2>4. Cardinality(Below(x)) <= Cardinality(Below(y) \ {y})
    BY <2>1, <2>3, FS_Subset
  <2> QED
    BY <2>2, <2>3, <2>4
<1>3. ASSUME NEW x \in S, NEW y \in S, Rank(S, order, x) = Rank(S, order, y), x # y
      PROVE  FALSE
  <2>1. <<x, y>> \in order \/ <<y, x>> \in order
    BY DEF IsOrder
  <2>2. Rank(S, order, x) < Rank(S, order, y) \/ Rank(S, order, y) < Rank(S, order, x)
    BY <2>1, <1>2, <1>3
  <2>3. Rank(S, order, x) \in Nat /\ Rank(S, order, y) \in Nat
    BY <1>1
  <2> QED
    BY <1>3, <2>2, <2>3
<1>4. rank \in Injection(S, 1..n)
  <2>1. rank \in [S -> 1..n]
    BY <1>1
  <2> QED
    BY <2>1, <1>3 DEF Injection, IsInjective
<1>5. rank \in Surjection(S, 1..n)
  <2> HIDE DEF rank
  <2> QED
    BY <1>0, <1>4, FS_Injection
<1>6. \A k \in 1..n : \E x \in S : Rank(S, order, x) = k
  BY <1>5 DEF Surjection
<1> QED
  BY <1>1, <1>2, <1>3, <1>6

\* A sequence that holds the elements of a set, each once and in order.
IsArrangement(s, S, order) ==
    /\ s \in Seq(S)
    /\ \A x \in S : \E k \in 1..Len(s) : s[k] = x
    /\ \A k, l \in 1..Len(s) : k < l => s[k] # s[l] /\ <<s[k], s[l]>> \in order

\* It is as long as the set is large.
LEMMA ArrangementSize ==
    ASSUME NEW S, NEW order, NEW s, IsArrangement(s, S, order)
    PROVE  /\ IsFiniteSet(S) /\ Len(s) = Cardinality(S) /\ Len(s) \in Nat /\ DOMAIN s = 1..Len(s)
           /\ s \in [1..Len(s) -> S]
           /\ \A k, l \in 1..Len(s) : s[k] = s[l] => k = l
<1>1. s \in Seq(S)
  BY DEF IsArrangement
<1>2. Len(s) \in Nat /\ s \in [1..Len(s) -> S] /\ DOMAIN s = 1..Len(s)
  BY <1>1, LenProperties
<1>3. IsFiniteSet(1..Len(s)) /\ Cardinality(1..Len(s)) = Len(s)
  BY <1>2, FS_Interval
<1>4. \A k, l \in 1..Len(s) : s[k] = s[l] => k = l
  <2>1. \A k, l \in 1..Len(s) : k < l => s[k] # s[l]
    BY DEF IsArrangement
  <2>2. \A k, l \in 1..Len(s) : k = l \/ k < l \/ l < k
    BY <1>2
  <2> QED
    BY <2>1, <2>2
<1>5. \A x \in S : \E k \in 1..Len(s) : s[k] = x
  BY DEF IsArrangement
<1>6. IsFiniteSet(S) /\ Cardinality(S) = Cardinality(1..Len(s))
  <2> DEFINE D == 1..Len(s)
  <2> HIDE DEF D
  <2>1. s \in [D -> S] /\ IsFiniteSet(D) /\ (\A k, l \in D : s[k] = s[l] => k = l)
        /\ \A x \in S : \E k \in D : s[k] = x
    BY <1>2, <1>3, <1>4, <1>5 DEF D
  <2>2. IsFiniteSet(S) /\ Cardinality(S) = Cardinality(D)
    BY <2>1, SameSize
  <2> QED
    BY <2>2 DEF D
<1> QED
  BY <1>2, <1>3, <1>4, <1>6

\* Sorting a finite set arranges it.
LEMMA ArrangedIs ==
    ASSUME NEW S, IsFiniteSet(S), NEW order, IsOrder(order, S)
    PROVE  IsArrangement(Arranged(S, order), S, order)
<1> DEFINE n == Cardinality(S)
           pick == [k \in 1..n |-> CHOOSE x \in S : Rank(S, order, x) = k]
<1>0. n \in Nat
  BY FS_CardinalityType
<1>1. Arranged(S, order) = pick
  <2> DEFINE rank == [x \in S |-> Cardinality({y \in S : <<y, x>> \in order})]
  <2>1. \A x \in S : rank[x] = Rank(S, order, x)
    BY DEF Rank
  <2>2. Arranged(S, order) = [k \in 1..n |-> CHOOSE x \in S : rank[x] = k]
    BY DEF Arranged
  <2> HIDE DEF rank
  <2>3. \A k \in 1..n : (CHOOSE x \in S : rank[x] = k) = CHOOSE x \in S : Rank(S, order, x) = k
    BY <2>1
  <2> QED
    BY <2>2, <2>3
<1>2. ASSUME NEW k \in 1..n
      PROVE  pick[k] \in S /\ Rank(S, order, pick[k]) = k
  BY RanksNumber
<1>3. pick \in [1..n -> S]
  BY <1>2
<1> HIDE DEF pick
<1>4. pick \in Seq(S) /\ Len(pick) = n
  BY <1>0, <1>3, FunctionIsSeq
<1>5. ASSUME NEW x \in S
      PROVE  \E k \in 1..n : pick[k] = x
  <2>1. Rank(S, order, x) \in 1..n
    BY RanksNumber
  <2>2. Rank(S, order, pick[Rank(S, order, x)]) = Rank(S, order, x) /\ pick[Rank(S, order, x)] \in S
    BY <1>2, <2>1
  <2> QED
    BY <2>1, <2>2, RanksNumber
<1>6. ASSUME NEW k \in 1..n, NEW l \in 1..n, k < l
      PROVE  pick[k] # pick[l] /\ <<pick[k], pick[l]>> \in order
  <2>1. /\ pick[k] \in S /\ pick[l] \in S
        /\ Rank(S, order, pick[k]) = k /\ Rank(S, order, pick[l]) = l /\ k # l /\ ~(l < k)
    BY <1>0, <1>2, <1>6
  <2>2. <<pick[k], pick[l]>> \in order \/ <<pick[l], pick[k]>> \in order
    BY <2>1 DEF IsOrder
  <2> QED
    BY <2>1, <2>2, RanksNumber
<1> QED
  BY <1>1, <1>4, <1>5, <1>6 DEF IsArrangement

\* There is no other arrangement.
LEMMA ArrangedOnly ==
    ASSUME NEW S, NEW order, IsOrder(order, S), NEW s, IsArrangement(s, S, order)
    PROVE  s = Arranged(S, order)
<1> DEFINE n == Len(s)
           t == Arranged(S, order)
<1>1. /\ IsFiniteSet(S) /\ n = Cardinality(S) /\ n \in Nat /\ s \in [1..n -> S]
      /\ \A k, l \in 1..n : s[k] = s[l] => k = l
  BY ArrangementSize
<1>2. IsArrangement(t, S, order)
  BY <1>1, ArrangedIs
<1>3. Len(t) = n /\ t \in [1..n -> S]
  <2>1. Len(t) = Cardinality(S) /\ t \in [1..Len(t) -> S]
    BY <1>2, ArrangementSize
  <2> QED
    BY <2>1, <1>1
<1>4. ASSUME NEW u, IsArrangement(u, S, order), Len(u) = n, NEW k \in 1..n
      PROVE  Rank(S, order, u[k]) = k
  <2> DEFINE Below == {y \in S : <<y, u[k]>> \in order}
             f == [l \in 1..k |-> u[l]]
  <2>1. u \in [1..n -> S] /\ \A l, m \in 1..n : u[l] = u[m] => l = m
    BY <1>4, ArrangementSize
  <2>2. ASSUME NEW l \in 1..k
        PROVE  f[l] = u[l] /\ l \in 1..n /\ u[l] \in Below
    <3>1. l \in 1..n /\ u[l] \in S /\ u[k] \in S
      BY <1>1, <2>1
    <3>2. CASE l < k
      BY <3>1, <3>2, <1>4 DEF IsArrangement
    <3>3. CASE l = k
      BY <3>1, <3>3 DEF IsOrder
    <3> QED
      BY <3>1, <3>2, <3>3
  <2>3. ASSUME NEW y \in Below
        PROVE  \E l \in 1..k : f[l] = y
    <3>1. PICK l \in 1..n : u[l] = y
      BY <1>4 DEF IsArrangement
    <3>2. ~(k < l)
      <4>1. SUFFICES ASSUME k < l PROVE FALSE
        OBVIOUS
      <4>2. u[k] # u[l] /\ <<u[k], u[l]>> \in order /\ <<u[l], u[k]>> \in order
        BY <3>1, <4>1, <1>4 DEF IsArrangement
      <4> QED
        BY <4>2, <2>1 DEF IsOrder
    <3>3. l \in 1..k
      BY <1>1, <3>2
    <3> QED
      BY <3>1, <3>3
  <2>4. f \in [1..k -> Below] /\ IsFiniteSet(1..k) /\ Cardinality(1..k) = k
    <3>1. f \in [1..k -> Below]
      BY <2>2
    <3>2. k \in Int /\ 1 \in Int /\ ~(1 > k) /\ k - 1 + 1 = k
      BY <1>1
    <3> QED
      BY <3>1, <3>2, FS_Interval
  <2>5. \A l, m \in 1..k : f[l] = f[m] => l = m
    BY <2>1, <2>2
  <2>6. Rank(S, order, u[k]) = Cardinality(Below)
    BY DEF Rank
  <2> DEFINE D == 1..k
  <2> HIDE DEF f, Below
  <2>7. f \in [D -> Below] /\ IsFiniteSet(D) /\ Cardinality(D) = k
        /\ (\A l, m \in D : f[l] = f[m] => l = m) /\ \A y \in Below : \E l \in D : f[l] = y
    BY <2>3, <2>4, <2>5
  <2> HIDE DEF D
  <2>8. Cardinality(Below) = Cardinality(D)
    BY <2>7, SameSize
  <2> QED
    BY <2>6, <2>7, <2>8
<1>5. ASSUME NEW k \in 1..n
      PROVE  s[k] = t[k]
  <2>1. Rank(S, order, s[k]) = k
    BY <1>4
  <2>2. Rank(S, order, t[k]) = k
    BY <1>2, <1>3, <1>4
  <2>3. s[k] \in S /\ t[k] \in S
    BY <1>1, <1>3
  <2> QED
    BY <1>1, <2>1, <2>2, <2>3, RanksNumber
<1> HIDE DEF t, n
<1> QED
  BY <1>1, <1>3, <1>5 DEF t

\* Numbers are ordered by their size.
LEMMA RisingOrder ==
    ASSUME NEW S, S \subseteq Int
    PROVE  IsOrder(Rising(S), S) /\ \A x, y \in S : <<x, y>> \in Rising(S) <=> x <= y
<1>1. \A x, y \in S : <<x, y>> \in Rising(S) <=> x <= y
  BY DEF Rising
<1>2. \A x, y \in S : x \in Int /\ y \in Int
  OBVIOUS
<1>3. \A x, y, z \in S : x <= y /\ y <= z => x <= z
  BY <1>2
<1> QED
  BY <1>1, <1>2, <1>3 DEF IsOrder

\* s lists the numbers of S, smallest first.
Climbs(s, S) ==
    /\ s \in Seq(S)
    /\ \A x \in S : \E k \in 1..Len(s) : s[k] = x
    /\ \A k, l \in 1..Len(s) : k < l => s[k] < s[l]

\* That is one list, and what Ascending makes.
LEMMA AscendingIs ==
    ASSUME NEW S, S \subseteq Int, IsFiniteSet(S)
    PROVE  /\ Climbs(Ascending(S), S)
           /\ Len(Ascending(S)) = Cardinality(S)
           /\ \A s : Climbs(s, S) => s = Ascending(S)
<1> DEFINE a == Ascending(S)
<1>1. IsOrder(Rising(S), S) /\ \A x, y \in S : <<x, y>> \in Rising(S) <=> x <= y
  BY RisingOrder
<1>2. IsArrangement(a, S, Rising(S))
  BY <1>1, ArrangedIs DEF Ascending
<1>3. Len(a) = Cardinality(S) /\ a \in [1..Len(a) -> S]
  BY <1>2, ArrangementSize
<1>4. ASSUME NEW k \in 1..Len(a), NEW l \in 1..Len(a), k < l
      PROVE  a[k] < a[l]
  <2>1. a[k] \in S /\ a[l] \in S
    BY <1>3
  <2>2. a[k] # a[l] /\ <<a[k], a[l]>> \in Rising(S)
    BY <1>2, <1>4 DEF IsArrangement
  <2>3. a[k] <= a[l] /\ a[k] \in Int /\ a[l] \in Int
    BY <1>1, <2>1, <2>2
  <2> HIDE DEF a
  <2> QED
    BY <2>2, <2>3
<1>5. Climbs(a, S)
  BY <1>2, <1>4 DEF Climbs, IsArrangement
<1>6. ASSUME NEW s, Climbs(s, S)
      PROVE  s = a
  <2>1. s \in Seq(S) /\ s \in [1..Len(s) -> S]
    BY <1>6, LenProperties DEF Climbs
  <2>2. ASSUME NEW k \in 1..Len(s), NEW l \in 1..Len(s), k < l
        PROVE  s[k] # s[l] /\ <<s[k], s[l]>> \in Rising(S)
    <3>1. s[k] \in S /\ s[l] \in S /\ s[k] < s[l]
      BY <2>1, <2>2, <1>6 DEF Climbs
    <3>2. s[k] # s[l] /\ s[k] <= s[l]
      <4>1. s[k] \in Int /\ s[l] \in Int
        BY <3>1
      <4> QED
        BY <3>1, <4>1
    <3> QED
      BY <3>1, <3>2, <1>1
  <2>3. IsArrangement(s, S, Rising(S))
    BY <2>1, <2>2, <1>6 DEF IsArrangement, Climbs
  <2> QED
    BY <2>3, <1>1, ArrangedOnly DEF Ascending
<1> QED
  BY <1>3, <1>5, <1>6

\* The numbers up to n.
LEMMA UpToSize ==
    ASSUME NEW n \in Nat
    PROVE  IsFiniteSet(1..n) /\ Cardinality(1..n) = n
<1>1. IsFiniteSet(1..n) /\ Cardinality(1..n) = IF 1 > n THEN 0 ELSE n - 1 + 1
  BY FS_Interval
<1> QED
  BY <1>1

\* A sequence, of whatever it holds.
IsList(s) == s \in Seq(ToSet(s))

\* Every sequence is one.
LEMMA SeqIsList ==
    ASSUME NEW T, NEW s \in Seq(T)
    PROVE  /\ IsList(s) /\ Len(s) \in Nat /\ DOMAIN s = 1..Len(s)
           /\ \A i \in 1..Len(s) : s[i] \in T
<1>1. Len(s) \in Nat /\ DOMAIN s = 1..Len(s) /\ s \in [1..Len(s) -> T]
  BY LenProperties
<1>2. s \in [1..Len(s) -> ToSet(s)]
  BY <1>1 DEF ToSet
<1>3. s \in Seq(ToSet(s))
  BY <1>1, <1>2, FunctionIsSeq
<1> QED
  BY <1>1, <1>3 DEF IsList

\* What it is as a function.
LEMMA ListIs ==
    ASSUME NEW s, IsList(s)
    PROVE  /\ Len(s) \in Nat /\ DOMAIN s = 1..Len(s)
           /\ \A x : x \in ToSet(s) <=> \E i \in 1..Len(s) : s[i] = x
<1>1. Len(s) \in Nat /\ DOMAIN s = 1..Len(s)
  BY LenProperties DEF IsList
<1> QED
  BY <1>1 DEF ToSet

\* What its elements are in, it is a sequence of.
LEMMA ListInto ==
    ASSUME NEW s, IsList(s), NEW T, \A i \in 1..Len(s) : s[i] \in T
    PROVE  s \in Seq(T)
<1>1. Len(s) \in Nat /\ s \in [1..Len(s) -> ToSet(s)]
  BY LenProperties DEF IsList
<1>2. s \in [1..Len(s) -> T]
  BY <1>1
<1> QED
  BY <1>1, <1>2, FunctionIsSeq

\* A function on the numbers up to n is one.
LEMMA ListMade ==
    ASSUME NEW n \in Nat, NEW f, f = [k \in 1..n |-> f[k]]
    PROVE  IsList(f) /\ Len(f) = n /\ DOMAIN f = 1..n
<1>1. f \in [1..n -> ToSet(f)]
  BY DEF ToSet
<1> QED
  BY <1>1, FunctionIsSeq DEF IsList

\* Lists are the same when they hold the same at each place.
LEMMA SameList ==
    ASSUME NEW s, IsList(s), NEW t, IsList(t), Len(s) = Len(t), \A i \in 1..Len(s) : s[i] = t[i]
    PROVE  s = t
<1>1. /\ Len(s) \in Nat /\ s \in [1..Len(s) -> ToSet(s)]
      /\ t \in [1..Len(t) -> ToSet(t)]
  BY LenProperties DEF IsList
<1> QED
  BY <1>1

\* Where the elements of a sequence are that are in S.
Spots(seq, S) == {i \in 1..Len(seq) : seq[i] \in S}

\* A filter goes through them.
LEMMA KeptIs ==
    ASSUME NEW seq, IsList(seq), NEW S
    PROVE  /\ IsFiniteSet(Spots(seq, S)) /\ Spots(seq, S) \subseteq 1..Len(seq)
           /\ Climbs(Ascending(Spots(seq, S)), Spots(seq, S))
           /\ IsList(Kept(seq, S)) /\ Len(Kept(seq, S)) = Cardinality(Spots(seq, S))
           /\ Len(Ascending(Spots(seq, S))) = Len(Kept(seq, S))
           /\ \A k \in 1..Len(Kept(seq, S)) : Kept(seq, S)[k] = seq[Ascending(Spots(seq, S))[k]]
<1> DEFINE at == Spots(seq, S)
           place == Ascending(at)
           n == Cardinality(at)
           kept == [k \in DOMAIN place |-> seq[place[k]]]
<1>1. Len(seq) \in Nat /\ DOMAIN seq = 1..Len(seq)
  BY ListIs
<1>2. at \in SUBSET (1..Len(seq)) /\ at \subseteq Int
  BY <1>1 DEF Spots
<1>3. IsFiniteSet(at)
  <2>1. IsFiniteSet(1..Len(seq))
    BY <1>1, UpToSize
  <2> QED
    BY <1>2, <2>1, FS_Subset
<1>4. Climbs(place, at) /\ Len(place) = n
  BY <1>2, <1>3, AscendingIs
<1>5. n \in Nat /\ place \in [1..n -> at] /\ DOMAIN place = 1..n
  <2>1. place \in Seq(at)
    BY <1>4 DEF Climbs
  <2> HIDE DEF place
  <2> QED
    BY <1>4, <2>1, LenProperties
<1>6. Kept(seq, S) = kept
  <2>1. at = {i \in DOMAIN seq : seq[i] \in S}
    BY <1>1 DEF Spots
  <2> QED
    BY <2>1 DEF Kept
<1> HIDE DEF place, n
<1>7. kept = [k \in 1..n |-> kept[k]] /\ \A k \in 1..n : kept[k] = seq[place[k]]
  BY <1>5
<1>8. IsList(kept) /\ Len(kept) = n
  <2> HIDE DEF kept
  <2> QED
    BY <1>5, <1>7, ListMade
<1> QED
  BY <1>2, <1>3, <1>4, <1>5, <1>6, <1>7, <1>8 DEF place, n

\* Whatever goes through them in the same order is the same.
LEMMA KeptOnly ==
    ASSUME NEW seq, IsList(seq), NEW S, NEW place, Climbs(place, Spots(seq, S))
    PROVE  /\ Len(Kept(seq, S)) = Len(place)
           /\ \A k \in 1..Len(place) : Kept(seq, S)[k] = seq[place[k]]
<1>1. IsFiniteSet(Spots(seq, S)) /\ Spots(seq, S) \subseteq Int
  <2>1. IsFiniteSet(Spots(seq, S)) /\ Spots(seq, S) \subseteq 1..Len(seq) /\ Len(seq) \in Nat
    BY KeptIs, ListIs
  <2> QED
    BY <2>1
<1>2. place = Ascending(Spots(seq, S))
  BY <1>1, AscendingIs
<1> QED
  BY <1>2, KeptIs

\* What is left are the elements that are in S, in their order.
LEMMA KeptHas ==
    ASSUME NEW seq, IsList(seq), NEW S
    PROVE  /\ \A k \in 1..Len(Kept(seq, S)) :
                 Kept(seq, S)[k] \in S /\ \E i \in 1..Len(seq) : Kept(seq, S)[k] = seq[i]
           /\ \A i \in 1..Len(seq) : seq[i] \in S => \E k \in 1..Len(Kept(seq, S)) : Kept(seq, S)[k] = seq[i]
           /\ \A k, l \in 1..Len(Kept(seq, S)) : k < l =>
                 \E i, j \in 1..Len(seq) : i < j /\ Kept(seq, S)[k] = seq[i] /\ Kept(seq, S)[l] = seq[j]
           /\ Len(Kept(seq, S)) \in Nat /\ Len(Kept(seq, S)) <= Len(seq)
<1> DEFINE at == Spots(seq, S)
           place == Ascending(at)
           kept == Kept(seq, S)
           n == Len(kept)
<1>1. /\ Climbs(place, at) /\ Len(place) = n /\ (\A k \in 1..n : kept[k] = seq[place[k]])
      /\ n = Cardinality(at) /\ IsList(kept)
  BY KeptIs
<1>2. place \in [1..n -> at]
  <2>1. place \in Seq(at)
    BY <1>1 DEF Climbs
  <2> HIDE DEF place
  <2> QED
    BY <1>1, <2>1, LenProperties
<1>3. n \in Nat /\ n <= Len(seq)
  <2>1. Len(seq) \in Nat /\ n \in Nat
    BY <1>1, ListIs
  <2>2. IsFiniteSet(1..Len(seq)) /\ Cardinality(1..Len(seq)) = Len(seq)
    BY <2>1, UpToSize
  <2>3. at \in SUBSET (1..Len(seq))
    BY DEF Spots
  <2>4. Cardinality(at) <= Cardinality(1..Len(seq))
    BY <2>2, <2>3, FS_Subset
  <2> QED
    BY <1>1, <2>1, <2>2, <2>4
<1> HIDE DEF place, kept
<1>4. ASSUME NEW k \in 1..n
      PROVE  place[k] \in 1..Len(seq) /\ seq[place[k]] \in S /\ kept[k] = seq[place[k]]
  BY <1>1, <1>2 DEF Spots
<1>5. ASSUME NEW i \in 1..Len(seq), seq[i] \in S
      PROVE  \E k \in 1..n : kept[k] = seq[i]
  <2>1. i \in at
    BY <1>5 DEF Spots
  <2>2. PICK k \in 1..n : place[k] = i
    BY <2>1, <1>1 DEF Climbs
  <2> QED
    BY <2>2, <1>4
<1>6. ASSUME NEW k \in 1..n, NEW l \in 1..n, k < l
      PROVE  place[k] < place[l]
  BY <1>1, <1>6 DEF Climbs
<1> QED
  BY <1>3, <1>4, <1>5, <1>6 DEF kept

\* A filter that keeps everything changes nothing.
LEMMA KeptAll ==
    ASSUME NEW seq, IsList(seq), NEW S, \A i \in 1..Len(seq) : seq[i] \in S
    PROVE  Kept(seq, S) = seq
<1> DEFINE n == Len(seq)
           all == [i \in 1..n |-> i]
<1>1. n \in Nat /\ Spots(seq, S) = 1..n
  BY ListIs DEF Spots
<1>2. all \in Seq(1..n) /\ Len(all) = n
  <2>1. all \in [1..n -> 1..n]
    OBVIOUS
  <2> HIDE DEF all
  <2> QED
    BY <1>1, <2>1, FunctionIsSeq
<1>3. Climbs(all, 1..n)
  BY <1>2 DEF Climbs
<1>4. Len(Kept(seq, S)) = Len(all) /\ \A k \in 1..Len(all) : Kept(seq, S)[k] = seq[all[k]]
  <2> HIDE DEF all
  <2> QED
    BY <1>1, <1>3, KeptOnly
<1>5. Len(Kept(seq, S)) = n /\ \A k \in 1..n : Kept(seq, S)[k] = seq[k]
  BY <1>2, <1>4
<1>6. IsList(Kept(seq, S))
  BY KeptIs
<1> QED
  BY <1>5, <1>6, SameList

\* A filtered arrangement arranges what is left.
LEMMA KeptArranged ==
    ASSUME NEW S, NEW order, NEW s, IsArrangement(s, S, order), NEW M
    PROVE  IsArrangement(Kept(s, M), S \cap M, order)
<1> DEFINE kept == Kept(s, M)
<1>1. IsList(s) /\ \A k \in 1..Len(s) : s[k] \in S
  BY SeqIsList DEF IsArrangement
<1>2. IsList(kept) /\ \A k \in 1..Len(kept) : kept[k] \in S \cap M
  <2>1. IsList(kept)
    BY <1>1, KeptIs
  <2>2. ASSUME NEW k \in 1..Len(kept)
        PROVE  kept[k] \in S \cap M
    <3>1. kept[k] \in M /\ \E i \in 1..Len(s) : kept[k] = s[i]
      BY <1>1, KeptHas
    <3> QED
      BY <3>1, <1>1
  <2> QED
    BY <2>1, <2>2
<1>3. ASSUME NEW x \in S \cap M
      PROVE  \E k \in 1..Len(kept) : kept[k] = x
  <2>1. PICK i \in 1..Len(s) : s[i] = x
    BY DEF IsArrangement
  <2> QED
    BY <2>1, <1>1, KeptHas
<1>4. ASSUME NEW k \in 1..Len(kept), NEW l \in 1..Len(kept), k < l
      PROVE  kept[k] # kept[l] /\ <<kept[k], kept[l]>> \in order
  <2>1. PICK i \in 1..Len(s), j \in 1..Len(s) : i < j /\ kept[k] = s[i] /\ kept[l] = s[j]
    BY <1>1, <1>4, KeptHas
  <2> QED
    BY <2>1 DEF IsArrangement
<1>5. kept \in Seq(S \cap M)
  BY <1>2, ListInto
<1> QED
  BY <1>3, <1>4, <1>5 DEF IsArrangement

\* Filtering a concatenation filters its parts.
LEMMA KeptConcat ==
    ASSUME NEW T, NEW a \in Seq(T), NEW b \in Seq(T), NEW S
    PROVE  Kept(a \o b, S) = Kept(a, S) \o Kept(b, S)
<1> DEFINE ab == a \o b
           la == Len(a)
           pa == Ascending(Spots(a, S))
           pb == Ascending(Spots(b, S))
           na == Len(Kept(a, S))
           nb == Len(Kept(b, S))
           place == [k \in 1..na + nb |-> IF k <= na THEN pa[k] ELSE pb[k - na] + la]
<1>0. IsList(a) /\ IsList(b)
  BY SeqIsList
<1>1. /\ IsList(ab) /\ Len(ab) = la + Len(b) /\ la \in Nat /\ Len(b) \in Nat
      /\ \A i \in 1..la + Len(b) : ab[i] = IF i <= la THEN a[i] ELSE b[i - la]
  <2>1. ab \in Seq(T)
    BY ConcatProperties
  <2>2. IsList(ab)
    BY <2>1, SeqIsList
  <2> QED
    BY <2>2, ConcatProperties, LenProperties
<1>2. /\ Climbs(pa, Spots(a, S)) /\ Len(pa) = na /\ (\A k \in 1..na : Kept(a, S)[k] = a[pa[k]])
      /\ IsList(Kept(a, S)) /\ na \in Nat
  BY <1>0, KeptIs, KeptHas
<1>3. /\ Climbs(pb, Spots(b, S)) /\ Len(pb) = nb /\ (\A k \in 1..nb : Kept(b, S)[k] = b[pb[k]])
      /\ IsList(Kept(b, S)) /\ nb \in Nat
  BY <1>0, KeptIs, KeptHas
<1>20. Kept(a, S) \in Seq(T) /\ Kept(b, S) \in Seq(T)
  <2>1. /\ \A k \in 1..Len(a) : a[k] \in T
        /\ \A k \in 1..Len(b) : b[k] \in T
    BY ElementOfSeq
  <2>2. ASSUME NEW k \in 1..Len(Kept(a, S))
        PROVE  Kept(a, S)[k] \in T
    <3>1. \E i \in 1..Len(a) : Kept(a, S)[k] = a[i]
      BY <1>0, KeptHas
    <3> QED
      BY <3>1, <2>1
  <2>3. ASSUME NEW k \in 1..Len(Kept(b, S))
        PROVE  Kept(b, S)[k] \in T
    <3>1. \E i \in 1..Len(b) : Kept(b, S)[k] = b[i]
      BY <1>0, KeptHas
    <3> QED
      BY <3>1, <2>1
  <2> QED
    BY <1>2, <1>3, <2>2, <2>3, ListInto
<1> HIDE DEF pa, pb, na, nb, ab, la
<1>4. pa \in [1..na -> Spots(a, S)] /\ pb \in [1..nb -> Spots(b, S)]
  <2>1. pa \in Seq(Spots(a, S)) /\ pb \in Seq(Spots(b, S))
    BY <1>2, <1>3 DEF Climbs
  <2> QED
    BY <1>2, <1>3, <2>1, LenProperties
<1>5. /\ \A k \in 1..na : pa[k] \in 1..la /\ a[pa[k]] \in S
      /\ \A k \in 1..nb : pb[k] \in 1..Len(b) /\ b[pb[k]] \in S
  BY <1>4 DEF Spots, la
<1>6. ASSUME NEW k \in 1..na + nb
      PROVE  /\ place[k] \in Spots(ab, S) /\ place[k] \in 1..la + Len(b)
             /\ k <= na => place[k] = pa[k] /\ place[k] <= la /\ k \in 1..na
             /\ k > na => place[k] = pb[k - na] + la /\ place[k] > la /\ k - na \in 1..nb
             /\ ab[place[k]] = IF k <= na THEN a[pa[k]] ELSE b[pb[k - na]]
  <2>1. CASE k <= na
    <3>1. k \in 1..na /\ place[k] = pa[k] /\ pa[k] \in 1..la /\ a[pa[k]] \in S
      BY <1>2, <1>5, <2>1
    <3>2. pa[k] \in 1..la + Len(b) /\ pa[k] <= la
      BY <3>1, <1>1
    <3>3. ab[pa[k]] = a[pa[k]]
      BY <3>2, <1>1
    <3> QED
      BY <3>1, <3>2, <3>3, <2>1, <1>1, <1>2 DEF Spots
  <2>2. CASE k > na
    <3> DEFINE m == k - na
    <3>1. m \in 1..nb /\ place[k] = pb[m] + la /\ ~(k <= na)
      BY <1>2, <1>3, <2>2
    <3>2. pb[m] \in 1..Len(b) /\ b[pb[m]] \in S
      BY <3>1, <1>5
    <3> DEFINE p == pb[m]
               q == p + la
    <3>3. q \in 1..la + Len(b) /\ q > la /\ ~(q <= la) /\ q - la = p
      <4> HIDE DEF p, m
      <4> QED
        BY <3>2, <1>1 DEF p
    <3> HIDE DEF p, m, q
    <3>4. ab[q] = b[p]
      BY <3>3, <1>1
    <3> QED
      BY <3>1, <3>2, <3>3, <3>4, <2>2, <1>1 DEF Spots, p, m, q
  <2> QED
    BY <2>1, <2>2, <1>2, <1>3
<1>7. place \in Seq(Spots(ab, S)) /\ Len(place) = na + nb
  <2>1. place \in [1..na + nb -> Spots(ab, S)]
    BY <1>6
  <2>2. na + nb \in Nat
    BY <1>2, <1>3
  <2> HIDE DEF place
  <2> QED
    BY <2>1, <2>2, FunctionIsSeq
<1>8. ASSUME NEW i \in Spots(ab, S)
      PROVE  \E k \in 1..na + nb : place[k] = i
  <2>1. i \in 1..la + Len(b) /\ ab[i] \in S
    BY <1>1 DEF Spots
  <2>2. CASE i <= la
    <3>1. i \in Spots(a, S)
      BY <2>1, <2>2, <1>1 DEF Spots, la
    <3>2. PICK k \in 1..na : pa[k] = i
      BY <3>1, <1>2 DEF Climbs
    <3>3. k \in 1..na + nb /\ k <= na
      BY <1>2, <1>3
    <3> QED
      BY <3>2, <3>3, <1>6
  <2>3. CASE i > la
    <3>1. i - la \in 1..Len(b) /\ ~(i <= la)
      BY <2>1, <2>3, <1>1
    <3>2. i - la \in Spots(b, S)
      BY <3>1, <2>1, <1>1 DEF Spots
    <3>3. PICK m \in 1..nb : pb[m] = i - la
      BY <3>2, <1>3 DEF Climbs
    <3> DEFINE k == na + m
    <3>4. k \in 1..na + nb /\ k > na /\ k - na = m
      BY <1>2, <1>3
    <3> HIDE DEF k, place
    <3>5. place[k] = pb[k - na] + la
      BY <3>4, <1>6
    <3>6. place[k] = i - la + la /\ i - la + la = i
      BY <3>3, <3>4, <3>5, <2>1, <1>1
    <3> QED
      BY <3>4, <3>6
  <2> QED
    BY <2>1, <2>2, <2>3, <1>1
<1>9. ASSUME NEW k \in 1..na + nb, NEW l \in 1..na + nb, k < l
      PROVE  place[k] < place[l]
  <2>0. k \in Int /\ l \in Int /\ na \in Int /\ la \in Int
    BY <1>1, <1>2, <1>3
  <2>1. CASE l <= na
    <3>1. k <= na
      BY <2>0, <2>1, <1>9
    <3>2. place[k] = pa[k] /\ place[l] = pa[l] /\ k \in 1..na /\ l \in 1..na
      BY <3>1, <2>1, <1>6
    <3> QED
      BY <3>2, <1>2, <1>9 DEF Climbs
  <2>2. CASE k <= na /\ l > na
    <3>1. place[k] \in Int /\ place[l] \in Int /\ place[k] <= la /\ place[l] > la
      BY <2>2, <1>6
    <3> QED
      BY <2>0, <3>1
  <2>3. CASE k > na
    <3>1. l > na
      BY <2>0, <2>3, <1>9
    <3>2. /\ place[k] = pb[k - na] + la /\ place[l] = pb[l - na] + la
          /\ k - na \in 1..nb /\ l - na \in 1..nb
      BY <3>1, <2>3, <1>6
    <3>3. k - na < l - na
      BY <2>0, <1>9
    <3>4. pb[k - na] < pb[l - na] /\ pb[k - na] \in Int /\ pb[l - na] \in Int
      BY <3>2, <3>3, <1>3, <1>5 DEF Climbs
    <3> QED
      BY <2>0, <3>2, <3>4
  <2> QED
    BY <2>0, <2>1, <2>2, <2>3
<1>10. Climbs(place, Spots(ab, S))
  BY <1>7, <1>8, <1>9 DEF Climbs
<1>11. /\ Len(Kept(ab, S)) = na + nb
       /\ \A k \in 1..na + nb : Kept(ab, S)[k] = ab[place[k]]
  <2>1. Len(Kept(ab, S)) = Len(place) /\ \A k \in 1..Len(place) : Kept(ab, S)[k] = ab[place[k]]
    <3> HIDE DEF place
    <3> QED
      BY <1>1, <1>10, KeptOnly
  <2> QED
    BY <2>1, <1>7
<1> HIDE DEF place
<1> DEFINE ka == Kept(a, S)
           kb == Kept(b, S)
           x == Kept(ab, S)
           y == ka \o kb
<1>12. /\ y \in Seq(T) /\ Len(y) = na + nb
       /\ \A k \in 1..na + nb : y[k] = IF k <= na THEN ka[k] ELSE kb[k - na]
  BY <1>20, ConcatProperties DEF na, nb
<1>13. ASSUME NEW k \in 1..na + nb
       PROVE  x[k] = y[k]
  <2>0. k \in Int /\ na \in Int
    BY <1>2, <1>3
  <2>1. x[k] = ab[place[k]] /\ y[k] = IF k <= na THEN ka[k] ELSE kb[k - na]
    BY <1>11, <1>12
  <2> HIDE DEF x, y
  <2>2. CASE k <= na
    BY <2>1, <2>2, <1>2, <1>6
  <2>3. CASE k > na
    <3>1. k - na \in 1..nb /\ ~(k <= na)
      BY <2>0, <2>3, <1>6
    <3> QED
      BY <2>1, <3>1, <1>3, <1>6
  <2> QED
    BY <2>0, <2>2, <2>3
<1>14. IsList(x) /\ IsList(y)
  BY <1>1, <1>12, KeptIs, SeqIsList
<1> HIDE DEF x, y
<1>15. x = y
  BY <1>11, <1>12, <1>13, <1>14, SameList DEF x
<1> QED
  BY <1>15 DEF x, y, ab

\* A map that keeps the order takes an arrangement to one of the image.
LEMMA MappedArranged ==
    ASSUME NEW S, NEW order, NEW s, IsArrangement(s, S, order),
           NEW T, NEW g \in [S -> T], NEW other, \A t \in T : \E x \in S : g[x] = t,
           \A x, y \in S : x # y /\ <<x, y>> \in order => g[x] # g[y] /\ <<g[x], g[y]>> \in other
    PROVE  IsArrangement([k \in 1..Len(s) |-> g[s[k]]], T, other)
<1> DEFINE n == Len(s)
           m == [k \in 1..n |-> g[s[k]]]
<1>1. n \in Nat /\ s \in [1..n -> S]
  BY ArrangementSize
<1>2. m \in [1..n -> T]
  BY <1>1
<1>3. m \in Seq(T) /\ Len(m) = n
  <2> HIDE DEF m, n
  <2> QED
    BY <1>1, <1>2, FunctionIsSeq
<1>4. ASSUME NEW t \in T
      PROVE  \E k \in 1..n : m[k] = t
  <2>1. PICK x \in S : g[x] = t
    OBVIOUS
  <2>2. PICK k \in 1..n : s[k] = x
    BY DEF IsArrangement
  <2> QED
    BY <2>1, <2>2
<1>5. ASSUME NEW k \in 1..n, NEW l \in 1..n, k < l
      PROVE  m[k] # m[l] /\ <<m[k], m[l]>> \in other
  <2>1. s[k] \in S /\ s[l] \in S /\ s[k] # s[l] /\ <<s[k], s[l]>> \in order
    BY <1>1, <1>5 DEF IsArrangement
  <2>2. m[k] = g[s[k]] /\ m[l] = g[s[l]]
    OBVIOUS
  <2> QED
    BY <2>1, <2>2
<1> HIDE DEF m
<1> QED
  BY <1>3, <1>4, <1>5 DEF IsArrangement, m

\* A stretch of a list.
LEMMA CutIs ==
    ASSUME NEW s, IsList(s), NEW a \in Nat, NEW b \in Nat, b <= Len(s)
    PROVE  /\ IsList(SubSeq(s, a + 1, b)) /\ Len(SubSeq(s, a + 1, b)) = IF a < b THEN b - a ELSE 0
           /\ \A i \in 1..Len(SubSeq(s, a + 1, b)) : SubSeq(s, a + 1, b)[i] = s[a + i] /\ a + i \in 1..b
           /\ SubSeq(s, a + 1, b) \in Seq(ToSet(s))
<1> DEFINE cut == SubSeq(s, a + 1, b)
<1>1. Len(s) \in Nat /\ \A i \in 1..Len(s) : s[i] \in ToSet(s)
  BY ListIs
<1>2. /\ cut \in Seq(ToSet(s)) /\ Len(cut) = IF a + 1 <= b THEN b - (a + 1) + 1 ELSE 0
      /\ \A i \in 1..b - (a + 1) + 1 : cut[i] = s[a + 1 + i - 1]
  <2>1. a + 1 \in Int /\ b \in Int /\ \A i \in a + 1..b : s[i] \in ToSet(s)
    BY <1>1
  <2> QED
    BY <2>1, SubSeqProperties
<1>3. Len(cut) = IF a < b THEN b - a ELSE 0
  BY <1>2
<1>4. ASSUME NEW i \in 1..Len(cut)
      PROVE  cut[i] = s[a + i] /\ a + i \in 1..b
  <2>1. a < b /\ Len(cut) = b - a /\ i \in 1..b - a
    BY <1>3
  <2> HIDE DEF cut
  <2>2. i \in 1..b - (a + 1) + 1 /\ a + 1 + i - 1 = a + i /\ a + i \in 1..b
    BY <2>1
  <2> QED
    BY <2>2, <1>2
<1>5. IsList(cut)
  BY <1>2, SeqIsList
<1> QED
  BY <1>2, <1>3, <1>4, <1>5

\* Two stretches that meet make one.
LEMMA CutsJoin ==
    ASSUME NEW s, IsList(s), NEW a \in Nat, NEW b \in Nat, a <= b, b <= Len(s)
    PROVE  /\ SubSeq(s, 1, a) \o SubSeq(s, a + 1, b) = SubSeq(s, 1, b)
           /\ SubSeq(s, 1, Len(s)) = s
<1>1. s \in Seq(ToSet(s)) /\ Len(s) \in Nat
  BY ListIs DEF IsList
<1>2. 1 \in 1..Len(s) + 1 /\ a \in 1 - 1..Len(s) /\ b \in a..Len(s)
  BY <1>1
<1>3. SubSeq(s, 1, a) \o SubSeq(s, a + 1, b) = SubSeq(s, 1, b)
  BY <1>1, <1>2, ConcatAdjacentSubSeq
<1>4. SubSeq(s, 1, Len(s)) = s
  BY <1>1, SubSeqFull
<1> QED
  BY <1>3, <1>4

\* Joining stops at the last of the concatenations, of which there is one each.
LEMMA JoinsTo ==
    ASSUME NEW S, NEW seqs \in Seq(S), Len(seqs) > 0,
           NEW parts, IsJoined(seqs, Len(seqs), parts)
    PROVE  FlattenSeq(seqs) = parts[Len(seqs)]
<1> DEFINE n == Len(seqs)
<1>1. n \in Nat /\ n > 0
  BY LenProperties
<1>2. PICK other : IsJoined(seqs, n, other) /\ FlattenSeq(seqs) = other[n]
  BY FlattenJoins
<1> DEFINE G == {m \in Nat : m \in 1..n => parts[m] = other[m]}
<1> HIDE DEF n
<1>3. 1 \in G
  <2>1. 1 \in 1..n
    BY <1>1
  <2>2. parts[1] = seqs[1] /\ other[1] = seqs[1]
    BY <2>1, <1>2 DEF IsJoined, n
  <2> QED
    BY <2>2
<1>4. ASSUME NEW m \in 1..n, m \in G /\ m < n
      PROVE  m + 1 \in G
  <2>1. m + 1 \in 1..n /\ m + 1 # 1 /\ m + 1 - 1 = m /\ m + 1 \in Nat
    BY <1>1, <1>4
  <2>2. parts[m] = other[m]
    BY <1>4
  <2>3. parts[m + 1] = parts[m] \o seqs[m + 1] /\ other[m + 1] = other[m] \o seqs[m + 1]
    <3> DEFINE k == m + 1
    <3>1. k \in 1..n /\ k # 1 /\ k - 1 = m
      BY <2>1
    <3> HIDE DEF k
    <3>2. parts[k] = parts[m] \o seqs[k] /\ other[k] = other[m] \o seqs[k]
      BY <3>1, <1>2 DEF IsJoined, n
    <3> QED
      BY <3>2 DEF k
  <2> QED
    BY <2>1, <2>2, <2>3
<1>5. 1..n \subseteq G
  <2> HIDE DEF G
  <2> QED
    BY <1>1, <1>3, <1>4, UpTo
<1> QED
  BY <1>1, <1>2, <1>5 DEF n

\* An order of a set orders its subsets.
LEMMA OrderWithin ==
    ASSUME NEW S, NEW order, IsOrder(order, S), NEW T, T \subseteq S
    PROVE  IsOrder(order, T)
BY DEF IsOrder

\* The elements of an arrangement up to a place, when a filter keeps just those.
LEMMA FirstArranged ==
    ASSUME NEW S, NEW order, NEW s, IsArrangement(s, S, order), NEW M,
           NEW m \in Nat, m <= Len(s), \A k \in 1..Len(s) : s[k] \in M <=> k <= m
    PROVE  IsArrangement(SubSeq(s, 1, m), S \cap M, order)
<1> DEFINE cut == SubSeq(s, 1, m)
<1>1. IsList(s) /\ (\A k \in 1..Len(s) : s[k] \in S) /\ Len(s) \in Nat
  BY SeqIsList DEF IsArrangement
<1>2. /\ IsList(cut) /\ Len(cut) = m
      /\ \A k \in 1..m : cut[k] = s[k] /\ k \in 1..Len(s)
  <2>1. /\ IsList(SubSeq(s, 0 + 1, m)) /\ Len(SubSeq(s, 0 + 1, m)) = IF 0 < m THEN m - 0 ELSE 0
        /\ \A i \in 1..Len(SubSeq(s, 0 + 1, m)) : SubSeq(s, 0 + 1, m)[i] = s[0 + i] /\ 0 + i \in 1..m
    BY <1>1, CutIs
  <2>2. SubSeq(s, 0 + 1, m) = cut
    BY ONLY 0 + 1 = 1
  <2>3. Len(cut) = m /\ IsList(cut)
    BY <2>1, <2>2
  <2>4. ASSUME NEW k \in 1..m
        PROVE  cut[k] = s[k] /\ k \in 1..Len(s)
    <3>1. k \in 1..Len(cut) /\ 0 + k = k /\ k \in 1..Len(s)
      BY <2>3, <1>1
    <3> HIDE DEF cut
    <3> QED
      BY <3>1, <2>1, <2>2
  <2> QED
    BY <2>3, <2>4
<1> HIDE DEF cut
<1>3. \A k \in 1..m : s[k] \in S \cap M
  BY <1>1
<1>4. cut \in Seq(S \cap M)
  BY <1>2, <1>3, ListInto
<1>5. ASSUME NEW x \in S \cap M
      PROVE  \E k \in 1..m : cut[k] = x
  <2>1. PICK k \in 1..Len(s) : s[k] = x
    BY DEF IsArrangement
  <2>2. k \in 1..m
    BY <2>1, <1>1
  <2> QED
    BY <2>1, <2>2, <1>2
<1>6. ASSUME NEW k \in 1..m, NEW l \in 1..m, k < l
      PROVE  cut[k] # cut[l] /\ <<cut[k], cut[l]>> \in order
  <2>1. k \in 1..Len(s) /\ l \in 1..Len(s) /\ cut[k] = s[k] /\ cut[l] = s[l]
    BY <1>2
  <2> QED
    BY <2>1, <1>6 DEF IsArrangement
<1> QED
  BY <1>2, <1>4, <1>5, <1>6 DEF IsArrangement, cut
===============================================================================
