-------------------------- MODULE RelativeVolumeProofs --------------------------
(***************************************************************************)
(* Proofs about RelativeVolume, for any cache and any message: the value   *)
(* of a height is exact where the records allow it, and never too small.   *)
(***************************************************************************)
EXTENDS RelativeVolume, FiniteSetTheorems, SequenceTheorems, WellFoundedInduction, TLAPS

--------------------------------------------------------------------------------
(* The inductive invariant                                                 *)

\* The record the loop has reached: the first, until a turn has been taken.
Reached == volumePrices[IF idx = 1 THEN 1 ELSE idx - 1]

\* All wanted heights down to the j-th have a record.
Recorded(j) == \A i \in 1 .. j : wanted[i] \in DOMAIN records

\* What the loop knows between two turns.
Progress ==
    /\ volumePrices \in Sorted(Between)
    /\ Len(volumePrices) >= 1
    /\ idx \in 1 .. Len(volumePrices) + 1
    /\ rangeIndex \in 1 .. Len(wanted) + 1
    /\ prev = records[Reached]
    /\ priceSum = TradedSince(Reached)

\* A wanted height not passed yet is not set, nor one passed set to more than one value.
Assigned ==
    /\ relative \in [Heights -> SUBSET Int]
    /\ \A j \in rangeIndex .. Len(wanted) : relative[wanted[j]] = {}

\* What is set lies between what was traded since the height and the sum so far, and
\* grows with the age of the height.
Ordered ==
    \A j \in 1 .. rangeIndex - 1 : \A v \in relative[wanted[j]] :
        /\ TradedSince(wanted[j]) <= v /\ v <= priceSum
        /\ \A i \in 1 .. j : \A w \in relative[wanted[i]] : w <= v

\* Where the records allow it the values are exact, and no record passed so far is as
\* early as the next wanted height.
Exact ==
    /\ \A j \in 1 .. rangeIndex - 1 : Recorded(j) => relative[wanted[j]] = {TradedSince(wanted[j])}
    /\ rangeIndex <= Len(wanted) /\ Recorded(rangeIndex)
          => \A k \in 1 .. idx - 1 : wanted[rangeIndex] < volumePrices[k]

Fresh ==
    /\ idx = 1 /\ rangeIndex = 1 /\ priceSum = 0
    /\ relative = [h \in Heights |-> {}]

Input ==
    /\ records \in Caches
    /\ \E n \in 1 .. MaxWanted : wanted \in {seq \in [1 .. n -> Heights] : Descending(seq)}

Inv ==
    /\ Input
    /\ step \in {"fetch", "loop", "done"}
    /\ step = "fetch" => Fresh
    /\ step = "loop" => Progress /\ Assigned /\ Ordered /\ Exact
    /\ ExactWhereRecorded
    /\ Bounded

--------------------------------------------------------------------------------
(* Sums of the first values of a function                                  *)

\* A set of natural numbers has a least one.
LEMMA Least == ASSUME NEW S \in SUBSET Nat, S # {} PROVE \E m \in S : \A k \in S : m <= k
<1>1. IsWellFoundedOn(OpToRel(<, Nat), Nat)
  BY NatLessThanWellFounded, Zenon
<1>2. PICK m \in S : \A k \in S : ~ (<<k, m>> \in OpToRel(<, Nat))
  BY <1>1, WFMin, Zenon
<1>3. \A k \in S : ~(k < m)
  BY <1>2 DEF OpToRel
<1> QED
  BY <1>3

\* The sums of the values of v up to the n-th.
SumsUpTo(v, n, f) ==
    /\ f \in [0 .. n -> Int]
    /\ f[0] = 0
    /\ \A k \in 1 .. n : f[k] = f[k - 1] + v[k]

\* They exist for every n: the least one without them would have those of its predecessor.
LEMMA SumsUpToExist ==
    ASSUME NEW v \in [Nat -> Int], NEW n \in Nat
    PROVE  \E f : SumsUpTo(v, n, f)
<1> DEFINE without == {k \in Nat : ~ \E f : SumsUpTo(v, k, f)}
<1> SUFFICES ASSUME without # {} PROVE FALSE
  OBVIOUS
<1>1. PICK m \in without : \A k \in without : m <= k
  BY Least
<1>2. m # 0
  <2>1. SumsUpTo(v, 0, [k \in 0 .. 0 |-> 0])
    BY DEF SumsUpTo
  <2> QED
    BY <2>1
<1>3. m \in Nat /\ m - 1 \in Nat
  BY <1>2
<1>4. PICK f : SumsUpTo(v, m - 1, f)
  <2>1. m - 1 \notin without
    BY <1>1, <1>3
  <2> QED
    BY <1>3, <2>1
<1> DEFINE g == [k \in 0 .. m |-> IF k = m THEN f[m - 1] + v[m] ELSE f[k]]
<1>5. \A k \in 0 .. m - 1 : f[k] \in Int
  BY <1>4 DEF SumsUpTo
<1>6. g \in [0 .. m -> Int]
  <2> SUFFICES ASSUME NEW k \in 0 .. m PROVE g[k] \in Int
    OBVIOUS
  <2>1. CASE k = m
    BY <1>3, <1>5, <2>1
  <2>2. CASE k # m
    <3>1. k \in 0 .. m - 1
      BY <1>3, <2>2
    <3> QED
      BY <1>5, <2>2, <3>1
  <2> QED
    BY <2>1, <2>2
<1>7. g[0] = 0
  BY <1>2, <1>3, <1>4 DEF SumsUpTo
<1>8. ASSUME NEW k \in 1 .. m PROVE g[k] = g[k - 1] + v[k]
  <2>1. g[k - 1] = f[k - 1]
    BY <1>3
  <2>2. CASE k = m
    BY <1>3, <2>1, <2>2
  <2>3. CASE k # m
    <3>1. k \in 1 .. m - 1 /\ g[k] = f[k]
      BY <1>3, <2>3
    <3>2. f[k] = f[k - 1] + v[k]
      BY <1>4, <3>1 DEF SumsUpTo
    <3> QED
      BY <2>1, <3>1, <3>2
  <2> QED
    BY <2>2, <2>3
<1>9. SumsUpTo(v, m, g)
  <2> HIDE DEF g
  <2> QED
    BY <1>6, <1>7, <1>8 DEF SumsUpTo
<1> QED
  BY <1>1, <1>9

\* They agree where both are defined: there is no least place where they differ.
LEMMA SumsUpToAgree ==
    ASSUME NEW v \in [Nat -> Int], NEW n \in Nat, NEW m \in Nat, n <= m,
           NEW f, NEW g, SumsUpTo(v, n, f), SumsUpTo(v, m, g)
    PROVE  \A k \in 0 .. n : f[k] = g[k]
<1> DEFINE differ == {k \in 0 .. n : f[k] # g[k]}
<1> SUFFICES ASSUME differ # {} PROVE FALSE
  OBVIOUS
<1>1. differ \in SUBSET Nat
  OBVIOUS
<1>2. PICK k \in differ : \A j \in differ : k <= j
  BY <1>1, Least
<1>3. k \in 0 .. n /\ f[k] # g[k]
  BY <1>2
<1>4. k # 0
  BY <1>3 DEF SumsUpTo
<1>5. k \in 1 .. n /\ k \in 1 .. m /\ k - 1 \in 0 .. n /\ ~(k <= k - 1)
  BY <1>3, <1>4
<1>6. f[k - 1] = g[k - 1]
  BY <1>2, <1>5
<1>7. f[k] = f[k - 1] + v[k] /\ g[k] = g[k - 1] + v[k]
  BY <1>5 DEF SumsUpTo
<1> QED
  BY <1>3, <1>6, <1>7

\* Sums is the function its recursive definition describes.
LEMMA SumsIs ==
    ASSUME NEW v \in [Nat -> Int]
    PROVE  /\ Sums(v) \in [Nat -> Int]
           /\ Sums(v)[0] = 0
           /\ \A n \in Nat \ {0} : Sums(v)[n] = Sums(v)[n - 1] + v[n]
<1> DEFINE upTo(n) == CHOOSE f : SumsUpTo(v, n, f)
           total == [n \in Nat |-> upTo(n)[n]]
           Is(s) == s = [n \in Nat |-> IF n = 0 THEN 0 ELSE s[n - 1] + v[n]]
<1>1. ASSUME NEW n \in Nat PROVE SumsUpTo(v, n, upTo(n))
  BY SumsUpToExist, Zenon
<1> HIDE DEF upTo
<1>2. total \in [Nat -> Int]
  <2> SUFFICES ASSUME NEW n \in Nat PROVE upTo(n)[n] \in Int
    OBVIOUS
  <2> QED
    BY <1>1 DEF SumsUpTo
<1>3. total[0] = 0
  BY <1>1 DEF SumsUpTo
<1>4. ASSUME NEW n \in Nat \ {0} PROVE total[n] = total[n - 1] + v[n]
  <2>1. n \in Nat /\ n - 1 \in Nat /\ n - 1 <= n /\ n \in 1 .. n /\ n - 1 \in 0 .. n - 1
    OBVIOUS
  <2>2. upTo(n)[n] = upTo(n)[n - 1] + v[n]
    BY <1>1, <2>1 DEF SumsUpTo
  <2>3. SumsUpTo(v, n, upTo(n)) /\ SumsUpTo(v, n - 1, upTo(n - 1))
    BY <1>1, <2>1
  <2>4. upTo(n - 1)[n - 1] = upTo(n)[n - 1]
    BY <2>1, <2>3, SumsUpToAgree
  <2> QED
    BY <2>1, <2>2, <2>4
<1>5. Is(total)
  <2> HIDE DEF total
  <2>1. total = [n \in Nat |-> total[n]]
    BY <1>2
  <2>2. ASSUME NEW n \in Nat PROVE total[n] = IF n = 0 THEN 0 ELSE total[n - 1] + v[n]
    BY <1>3, <1>4
  <2> QED
    BY <2>1, <2>2
<1>6. Is(Sums(v))
  <2>1. Sums(v) = CHOOSE s : Is(s)
    BY DEF Sums
  <2> HIDE DEF Is
  <2>2. Is(CHOOSE s : Is(s))
    BY <1>5, Zenon
  <2> QED
    BY <2>1, <2>2
<1> DEFINE s == Sums(v)
<1> HIDE DEF s
<1>7. s = [n \in Nat |-> IF n = 0 THEN 0 ELSE s[n - 1] + v[n]]
  BY <1>6 DEF s
<1>8. s[0] = 0 /\ \A n \in Nat \ {0} : s[n] = s[n - 1] + v[n]
  BY <1>7
<1>9. s \in [Nat -> Int]
  <2> DEFINE wrong == {n \in Nat : s[n] \notin Int}
  <2>1. wrong = {}
    <3> SUFFICES ASSUME wrong # {} PROVE FALSE
      OBVIOUS
    <3>1. PICK m \in wrong : \A k \in wrong : m <= k
      BY Least
    <3>2. m \in Nat /\ s[m] \notin Int /\ m # 0
      BY <1>8, <3>1
    <3>3. m - 1 \in Nat /\ m - 1 \notin wrong
      BY <3>1, <3>2
    <3> QED
      BY <1>8, <3>2, <3>3
  <2>2. \A n \in Nat : s[n] \in Int
    BY <2>1
  <2>3. s = [n \in Nat |-> s[n]]
    BY <1>7, Zenon
  <2> QED
    BY <2>2, <2>3
<1> QED
  BY <1>8, <1>9 DEF s

\* Sums of values that are not negative do not fall.
LEMMA SumsGrow ==
    ASSUME NEW v \in [Nat -> Int], \A n \in Nat : v[n] >= 0,
           NEW a \in Nat, NEW b \in Nat, a <= b
    PROVE  Sums(v)[a] <= Sums(v)[b]
<1> DEFINE s == Sums(v)
           less == {n \in Nat : a <= n /\ ~(s[a] <= s[n])}
<1>1. /\ s \in [Nat -> Int]
      /\ \A n \in Nat \ {0} : s[n] = s[n - 1] + v[n]
  BY SumsIs
<1> HIDE DEF s
<1>2. less = {}
  <2> SUFFICES ASSUME less # {} PROVE FALSE
    OBVIOUS
  <2>1. PICK m \in less : \A k \in less : m <= k
    BY Least
  <2>2. m \in Nat /\ a <= m /\ ~(s[a] <= s[m]) /\ m # a
    BY <1>1, <2>1
  <2>3. m - 1 \in Nat /\ a <= m - 1 /\ ~(m <= m - 1)
    BY <2>2
  <2>4. s[a] <= s[m - 1]
    BY <2>1, <2>3
  <2>5. s[m] = s[m - 1] + v[m] /\ v[m] >= 0 /\ v[m] \in Int
    BY <1>1, <2>2
  <2>6. s[a] \in Int /\ s[m] \in Int /\ s[m - 1] \in Int
    BY <1>1, <2>2, <2>3
  <2> QED
    BY <2>2, <2>4, <2>5, <2>6
<1> QED
  BY <1>2 DEF s

\* Nor do they change where the values are 0.
LEMMA SumsStay ==
    ASSUME NEW v \in [Nat -> Int], NEW a \in Nat, NEW b \in Nat, a <= b,
           \A n \in Nat : a < n /\ n <= b => v[n] = 0
    PROVE  Sums(v)[a] = Sums(v)[b]
<1> DEFINE s == Sums(v)
           differ == {n \in Nat : a <= n /\ n <= b /\ s[a] # s[n]}
<1>1. /\ s \in [Nat -> Int]
      /\ \A n \in Nat \ {0} : s[n] = s[n - 1] + v[n]
  BY SumsIs
<1> HIDE DEF s
<1>2. differ = {}
  <2> SUFFICES ASSUME differ # {} PROVE FALSE
    OBVIOUS
  <2>1. PICK m \in differ : \A k \in differ : m <= k
    BY Least
  <2>2. m \in Nat /\ a < m /\ m <= b /\ s[a] # s[m]
    BY <2>1
  <2>3. m - 1 \in Nat /\ a <= m - 1 /\ m - 1 <= b /\ ~(m <= m - 1)
    BY <2>2
  <2>4. s[a] = s[m - 1]
    BY <2>1, <2>3
  <2>5. s[m] = s[m - 1] + v[m] /\ v[m] = 0
    BY <1>1, <2>2
  <2>6. s[m - 1] \in Int
    BY <1>1, <2>3
  <2> QED
    BY <2>2, <2>4, <2>5, <2>6
<1> QED
  BY <1>2 DEF s

--------------------------------------------------------------------------------
(* The cache, the message and their heights                                *)

LEMMA RecordFacts ==
    ASSUME Input
    PROVE  /\ DOMAIN records \subseteq Heights
           /\ \A h \in DOMAIN records : h \in Nat /\ records[h].volume \in Nat /\ records[h].price \in Nat
           /\ \A g, h \in DOMAIN records : g < h => records[g].volume <= records[h].volume
<1>1. Heights \subseteq Nat /\ Volumes \subseteq Nat /\ Prices \subseteq Nat
  BY RelativeVolumeAssumption
<1>2. /\ records \in UNION {[S -> Record] : S \in SUBSET Heights}
      /\ \A g, h \in DOMAIN records : g < h => records[g].volume <= records[h].volume
  BY DEF Input, Caches
<1>3. PICK S \in SUBSET Heights : records \in [S -> Record]
  BY <1>2
<1>4. DOMAIN records = S
  BY <1>3
<1>5. ASSUME NEW h \in DOMAIN records
      PROVE  h \in Nat /\ records[h].volume \in Nat /\ records[h].price \in Nat
  <2>1. records[h] \in Record
    BY <1>3, <1>4, <1>5
  <2>2. records[h].volume \in Volumes /\ records[h].price \in Prices
    BY <2>1 DEF Record
  <2> QED
    BY <1>1, <1>4, <1>5, <2>2, Zenon
<1> QED
  BY <1>2, <1>4, <1>5

LEMMA WantedFacts ==
    ASSUME Input
    PROVE  /\ Len(wanted) \in Nat /\ Len(wanted) >= 1 /\ DOMAIN wanted = 1 .. Len(wanted)
           /\ \A i \in 1 .. Len(wanted) : wanted[i] \in Heights /\ wanted[i] \in Nat
           /\ \A i, j \in 1 .. Len(wanted) : i < j => wanted[j] < wanted[i]
           /\ WantedHeights = {wanted[i] : i \in 1 .. Len(wanted)}
<1>1. Heights \subseteq Nat /\ MaxWanted \in Nat
  BY RelativeVolumeAssumption
<1>2. PICK n \in 1 .. MaxWanted : wanted \in {seq \in [1 .. n -> Heights] : Descending(seq)}
  BY DEF Input
<1>3. n \in Nat /\ n >= 1
  BY <1>1
<1>4. wanted \in [1 .. n -> Heights] /\ Descending(wanted)
  BY <1>2
<1>5. wanted \in Seq(Heights)
  BY <1>3, <1>4, IsASeq
<1>6. Len(wanted) = n /\ DOMAIN wanted = 1 .. n
  BY <1>3, <1>4, <1>5, LenProperties
<1>7. \A i \in 1 .. n : wanted[i] \in Heights
  BY <1>4
<1>8. \A i \in 1 .. n : wanted[i] \in Nat
  BY <1>1, <1>7, Zenon
<1>9. \A i, j \in 1 .. n : i < j => wanted[j] < wanted[i]
  BY <1>4, <1>6 DEF Descending
<1>10. WantedHeights = {wanted[i] : i \in 1 .. n}
  BY <1>6 DEF WantedHeights, ToSet
<1> QED
  BY <1>3, <1>6, <1>7, <1>8, <1>9, <1>10

\* A sorted list of a finite set holds all of it.
LEMMA SortedFacts ==
    ASSUME NEW S \in SUBSET Nat, IsFiniteSet(S), NEW q \in Sorted(S)
    PROVE  /\ Len(q) = Cardinality(S) /\ Len(q) \in Nat
           /\ \A i \in 1 .. Len(q) : q[i] \in S
           /\ \A i, j \in 1 .. Len(q) : i < j => q[j] < q[i]
           /\ \A h \in S : \E k \in 1 .. Len(q) : q[k] = h
<1> DEFINE n == Cardinality(S)
<1>1. n \in Nat
  BY FS_CardinalityType
<1> HIDE DEF n
<1>2. q \in [1 .. n -> S] /\ Descending(q)
  BY DEF Sorted, n
<1>3. q \in Seq(S)
  BY <1>1, <1>2, IsASeq
<1>4. Len(q) = n /\ DOMAIN q = 1 .. n
  BY <1>1, <1>2, <1>3, LenProperties
<1>5. \A i \in 1 .. n : q[i] \in S
  BY <1>2
<1>6. \A i, j \in 1 .. n : i < j => q[j] < q[i]
  BY <1>2, <1>4 DEF Descending
<1>7. IsInjective(q)
  <2> SUFFICES ASSUME NEW i \in 1 .. n, NEW j \in 1 .. n, q[i] = q[j], i # j PROVE FALSE
    BY <1>4 DEF IsInjective
  <2>1. q[i] \in Nat /\ q[j] \in Nat
    BY <1>5
  <2>2. i < j \/ j < i
    BY <1>1
  <2> QED
    BY <1>6, <2>1, <2>2
<1>8. \A h \in S : \E k \in 1 .. n : q[k] = h
  <2>1. IsFiniteSet(1 .. n) /\ Cardinality(1 .. n) = n
    <3>1. 1 \in Int /\ n \in Int
      BY <1>1
    <3>2. IsFiniteSet(1 .. n) /\ Cardinality(1 .. n) = (IF 1 > n THEN 0 ELSE n - 1 + 1)
      BY <3>1, FS_Interval
    <3> QED
      BY <1>1, <3>2
  <2>2. q \in Injection(1 .. n, S)
    BY <1>2, <1>7 DEF Injection
  <2>3. q \in Surjection(1 .. n, S)
    BY <2>1, <2>2, FS_Injection DEF n
  <2> QED
    BY <2>3 DEF Surjection
<1> QED
  BY <1>1, <1>4, <1>5, <1>6, <1>8 DEF n

\* Max is what is meant by it, in a set that has a greatest element.
LEMMA MaxIs ==
    ASSUME NEW S \in SUBSET Nat, NEW m \in S, \A k \in S : k <= m
    PROVE  Max(S) = m
<1>1. m \in Nat /\ \A k \in S : m >= k
  OBVIOUS
<1>2. Max(S) \in S /\ \A k \in S : Max(S) >= k
  BY <1>1, Zenon DEF Max
<1>3. Max(S) >= m /\ m >= Max(S)
  BY <1>1, <1>2, Zenon
<1>4. Max(S) \in Nat
  BY <1>2
<1> QED
  BY <1>1, <1>3, <1>4

\* So it has if it is bounded and not empty.
LEMMA Greatest ==
    ASSUME NEW n \in Nat, NEW S \in SUBSET (0 .. n), S # {}
    PROVE  \E m \in S : \A k \in S : k <= m
<1> DEFINE mirror == {d \in Nat : n - d \in S}
<1>1. mirror # {}
  <2>1. PICK k \in S : TRUE
    OBVIOUS
  <2>2. n - k \in Nat /\ n - (n - k) = k
    BY <2>1
  <2> QED
    BY <2>1, <2>2
<1>2. PICK d \in mirror : \A e \in mirror : d <= e
  BY <1>1, Least
<1>3. ASSUME NEW k \in S PROVE k <= n - d
  <2>1. k \in 0 .. n
    OBVIOUS
  <2>2. n - k \in Nat /\ n - (n - k) = k
    BY <2>1
  <2>3. n - k \in mirror
    BY <2>2
  <2>4. d <= n - k
    BY <1>2, <2>3
  <2> QED
    BY <1>2, <2>1, <2>4
<1> QED
  BY <1>2, <1>3

LEMMA UpToIs == ASSUME NEW h PROVE \A k : k \in UpTo(h) <=> k \in Between /\ k <= h
  BY DEF UpTo

LEMMA NaturalProduct == ASSUME NEW x \in Nat, NEW y \in Nat PROVE x * y \in Nat
  OBVIOUS

LEMMA BetweenFacts ==
    ASSUME Input
    PROVE  /\ Between \in SUBSET Nat /\ IsFiniteSet(Between)
           /\ Between \subseteq DOMAIN records
           /\ \A h \in Between : wanted[Len(wanted)] <= h /\ h <= wanted[1]
           /\ \A i \in 1 .. Len(wanted) : wanted[i] \in DOMAIN records => wanted[i] \in Between
<1>1. /\ Len(wanted) \in Nat /\ Len(wanted) >= 1
      /\ \A i \in 1 .. Len(wanted) : wanted[i] \in Nat
      /\ \A i, j \in 1 .. Len(wanted) : i < j => wanted[j] < wanted[i]
  BY WantedFacts
<1>2. \A h \in DOMAIN records : h \in Nat
  BY RecordFacts
<1>3. Between \in SUBSET Nat /\ Between \subseteq DOMAIN records
  BY <1>2 DEF Between
<1>4. 1 \in 1 .. Len(wanted) /\ Len(wanted) \in 1 .. Len(wanted)
  BY <1>1
<1>5. IsFiniteSet(Between)
  <2>1. wanted[1] \in Int /\ wanted[Len(wanted)] \in Int
    BY <1>1, <1>4
  <2>2. IsFiniteSet(wanted[Len(wanted)] .. wanted[1])
    BY <2>1, FS_Interval
  <2>3. Between \subseteq wanted[Len(wanted)] .. wanted[1]
    BY <1>2, <2>1 DEF Between
  <2> QED
    BY <2>2, <2>3, FS_Subset
<1>6. ASSUME NEW i \in 1 .. Len(wanted), wanted[i] \in DOMAIN records PROVE wanted[i] \in Between
  <2>1. wanted[Len(wanted)] <= wanted[i]
    <3>1. i = Len(wanted) \/ i < Len(wanted)
      BY <1>1
    <3> QED
      BY <1>1, <1>4, <3>1
  <2>2. wanted[i] <= wanted[1]
    <3>1. i = 1 \/ 1 < i
      BY <1>1
    <3> QED
      BY <1>1, <1>4, <3>1
  <2> QED
    BY <1>6, <2>1, <2>2 DEF Between
<1> QED
  BY <1>3, <1>5, <1>6 DEF Between

\* The difference of two records, at their average price, in halves.
Difference(r, before) == (r.volume - before.volume) * (r.price + before.price)

\* What a record is worth: its difference to the one before it, which is never negative.
LEMMA WorthFacts ==
    ASSUME Input
    PROVE  /\ Worth \in [Nat -> Int]
           /\ \A h \in Nat : Worth[h] >= 0
           /\ \A h \in Nat : h \notin Between \/ UpTo(h - 1) = {} => Worth[h] = 0
           /\ \A a, b \in Between :
                 b < a /\ (\A h \in Between : ~(b < h /\ h < a))
                     => Worth[a] = Difference(records[a], records[b])
<1>1. /\ \A h \in DOMAIN records : h \in Nat /\ records[h].volume \in Nat /\ records[h].price \in Nat
      /\ \A g, h \in DOMAIN records : g < h => records[g].volume <= records[h].volume
  BY RecordFacts
<1>2. Between \in SUBSET Nat /\ Between \subseteq DOMAIN records
  BY BetweenFacts
<1> DEFINE value(h) == Difference(records[h], records[Max(UpTo(h - 1))])
<1>3. \A h \in Nat : Worth[h] = IF h \in Between /\ UpTo(h - 1) # {} THEN value(h) ELSE 0
  BY DEF Worth, Difference
<1>4. ASSUME NEW a \in Between, NEW b \in Between, b < a, \A h \in Between : ~(b < h /\ h < a)
      PROVE  Max(UpTo(a - 1)) = b /\ UpTo(a - 1) # {}
  <2>1. a \in Nat /\ b \in Nat
    BY <1>2
  <2>2. UpTo(a - 1) \in SUBSET Nat /\ b \in UpTo(a - 1)
    <3>1. b <= a - 1
      BY <1>4, <2>1
    <3>2. b \in UpTo(a - 1)
      BY <3>1, UpToIs, Zenon
    <3> QED
      BY <1>2, <3>2, UpToIs
  <2>3. \A k \in UpTo(a - 1) : k <= b
    <3> SUFFICES ASSUME NEW k \in UpTo(a - 1), ~(k <= b) PROVE FALSE
      OBVIOUS
    <3>1. k \in Between /\ k \in Nat /\ k <= a - 1
      BY <1>2 DEF UpTo
    <3> QED
      BY <1>4, <2>1, <3>1
  <2> QED
    BY <2>2, <2>3, MaxIs
<1>5. ASSUME NEW h \in Nat, h \in Between, UpTo(h - 1) # {}
      PROVE  Max(UpTo(h - 1)) \in Between /\ Max(UpTo(h - 1)) < h
  <2>1. UpTo(h - 1) \in SUBSET (0 .. h)
    <3> SUFFICES ASSUME NEW k \in UpTo(h - 1) PROVE k \in 0 .. h
      BY Zenon
    <3>1. k \in Between /\ k <= h - 1
      BY UpToIs, Zenon
    <3>2. k \in Nat
      BY <1>2, <3>1
    <3> QED
      BY <3>1, <3>2
  <2>2. PICK m \in UpTo(h - 1) : \A k \in UpTo(h - 1) : k <= m
    BY <1>5, <2>1, Greatest
  <2>3. UpTo(h - 1) \in SUBSET Nat
    BY <1>2 DEF UpTo
  <2>4. Max(UpTo(h - 1)) = m
    BY <2>2, <2>3, MaxIs
  <2>5. m \in Between /\ m <= h - 1 /\ m \in Nat
    BY <1>2 DEF UpTo
  <2> QED
    BY <2>4, <2>5
<1>6. ASSUME NEW h \in Nat, h \in Between, UpTo(h - 1) # {} PROVE value(h) \in Nat
  <2> DEFINE g == Max(UpTo(h - 1))
  <2>1. g \in Between /\ g < h
    BY <1>5, <1>6
  <2> HIDE DEF g
  <2>2. g \in DOMAIN records /\ h \in DOMAIN records
    BY <1>2, <1>6, <2>1, Zenon
  <2>3. /\ records[h].volume - records[g].volume \in Nat
        /\ records[h].price + records[g].price \in Nat
    BY <1>1, <2>1, <2>2
  <2> QED
    BY <2>3, NaturalProduct DEF Difference, g
<1> HIDE DEF value
<1>7. \A h \in Nat : Worth[h] \in Nat
  BY <1>3, <1>6
<1>8. Worth \in [Nat -> Int]
  <2>1. Worth = [h \in Nat |-> Worth[h]]
    BY Zenon DEF Worth
  <2> HIDE DEF Worth
  <2> QED
    BY <1>7, <2>1
<1>9. \A h \in Nat : h \notin Between \/ UpTo(h - 1) = {} => Worth[h] = 0
  BY <1>3
<1>10. ASSUME NEW a \in Between, NEW b \in Between, b < a, \A h \in Between : ~(b < h /\ h < a)
       PROVE  Worth[a] = Difference(records[a], records[b])
  <2>1. a \in Nat
    BY <1>2
  <2> QED
    BY <1>3, <1>4, <1>10, <2>1 DEF value
<1> QED
  BY <1>7, <1>8, <1>9, <1>10

--------------------------------------------------------------------------------
(* What was traded since a height                                          *)

LEMMA TradedSinceFacts ==
    ASSUME Input
    PROVE  /\ \A h \in Nat : TradedSince(h) \in Int
           /\ \A a, b \in Nat : a <= b => TradedSince(b) <= TradedSince(a)
           /\ \A a, b \in Nat : a <= b /\ (\A h \in Between : ~(a < h /\ h <= b))
                 => TradedSince(a) = TradedSince(b)
           /\ TradedSince(wanted[1]) = 0
           /\ \A a, b \in Between :
                 b < a /\ (\A h \in Between : ~(b < h /\ h < a))
                     => TradedSince(b) = TradedSince(a) + Difference(records[a], records[b])
           /\ \A a \in Between : (\A h \in Between : a <= h) => TradedSince(a) = TradedSince(0)
<1>1. wanted[1] \in Nat
  BY WantedFacts
<1>2. Between \in SUBSET Nat
  BY BetweenFacts
<1> DEFINE s == Sums(Worth)
<1>3. s \in [Nat -> Int] /\ \A n \in Nat \ {0} : s[n] = s[n - 1] + Worth[n]
  BY WorthFacts, SumsIs
<1>4. \A h : TradedSince(h) = s[wanted[1]] - s[h]
  BY DEF TradedSince
<1>5. ASSUME NEW a \in Nat, NEW b \in Nat, a <= b PROVE s[a] <= s[b]
  BY <1>5, WorthFacts, SumsGrow
<1>6. ASSUME NEW a \in Nat, NEW b \in Nat, a <= b, \A h \in Between : ~(a < h /\ h <= b)
      PROVE  s[a] = s[b]
  <2>1. \A n \in Nat : a < n /\ n <= b => Worth[n] = 0
    BY <1>6, WorthFacts
  <2> QED
    BY <1>6, <2>1, WorthFacts, SumsStay
<1>7. ASSUME NEW a \in Between, NEW b \in Between, b < a, \A h \in Between : ~(b < h /\ h < a)
      PROVE  s[a] = s[b] + Difference(records[a], records[b])
  <2>1. a \in Nat \ {0} /\ b \in Nat /\ a - 1 \in Nat /\ b <= a - 1
    BY <1>2, <1>7
  <2>2. \A h \in Between : ~(b < h /\ h <= a - 1)
    BY <1>2, <1>7, <2>1
  <2>3. s[b] = s[a - 1]
    BY <1>6, <2>1, <2>2
  <2>4. Worth[a] = Difference(records[a], records[b])
    BY <1>7, WorthFacts
  <2> HIDE DEF s
  <2> QED
    BY <1>3, <2>1, <2>3, <2>4
<1>8. ASSUME NEW a \in Between, \A h \in Between : a <= h PROVE s[a] = s[0]
  <2>1. a \in Nat
    BY <1>2
  <2>2. \A n \in Nat : 0 < n /\ n <= a => Worth[n] = 0
    <3> SUFFICES ASSUME NEW n \in Nat, n <= a PROVE Worth[n] = 0
      OBVIOUS
    <3>1. UpTo(n - 1) = {}
      <4> SUFFICES ASSUME NEW k \in UpTo(n - 1) PROVE FALSE
        BY Zenon
      <4>1. k \in Between /\ k <= n - 1
        BY UpToIs, Zenon
      <4>2. k \in Nat /\ a <= k
        BY <1>2, <1>8, <4>1
      <4> QED
        BY <2>1, <4>1, <4>2
    <3> QED
      BY <3>1, WorthFacts
  <2> QED
    BY <2>1, <2>2, WorthFacts, SumsStay
<1> HIDE DEF s
<1>9. \A h \in Nat : s[h] \in Int
  BY <1>3
<1>10. ASSUME NEW a \in Between, NEW b \in Between, b < a, \A h \in Between : ~(b < h /\ h < a)
       PROVE  TradedSince(b) = TradedSince(a) + Difference(records[a], records[b])
  <2>1. s[a] = s[b] + Difference(records[a], records[b])
    BY <1>7, <1>10
  <2>2. s[a] \in Int /\ s[b] \in Int /\ s[wanted[1]] \in Int
    BY <1>1, <1>2, <1>9
  <2>3. Difference(records[a], records[b]) \in Int
    <3>1. a \in Nat /\ Worth[a] = Difference(records[a], records[b])
      BY <1>2, <1>10, WorthFacts
    <3> QED
      BY <3>1, WorthFacts
  <2> QED
    BY <1>4, <2>1, <2>2, <2>3
<1>11. \A h \in Nat : TradedSince(h) \in Int
  BY <1>1, <1>4, <1>9
<1>12. \A a, b \in Nat : a <= b => TradedSince(b) <= TradedSince(a)
  BY <1>1, <1>4, <1>5, <1>9
<1>13. \A a, b \in Nat : a <= b /\ (\A h \in Between : ~(a < h /\ h <= b))
                 => TradedSince(a) = TradedSince(b)
  BY <1>4, <1>6
<1>14. TradedSince(wanted[1]) = 0
  BY <1>1, <1>4, <1>9
<1>15. \A a \in Between : (\A h \in Between : a <= h) => TradedSince(a) = TradedSince(0)
  BY <1>4, <1>8
<1> QED
  BY <1>10, <1>11, <1>12, <1>13, <1>14, <1>15

--------------------------------------------------------------------------------
(* Steps                                                                   *)

\* Nothing a value is measured by changes while it is computed.
LEMMA Frozen ==
    ASSUME UNCHANGED input
    PROVE  /\ records' = records /\ wanted' = wanted
           /\ Between' = Between
           /\ WantedHeights' = WantedHeights
           /\ \A h : TradedSince(h)' = TradedSince(h)
           /\ \A j : Recorded(j)' = Recorded(j)
           /\ Input => Input'
<1>1. records' = records /\ wanted' = wanted
  BY DEF input
<1>2. Between' = Between
  BY <1>1 DEF Between
<1>3. Worth' = Worth
  BY <1>1, <1>2 DEF Worth, UpTo
<1>4. WantedHeights' = WantedHeights
  BY <1>1 DEF WantedHeights
<1>5. \A h : TradedSince(h)' = TradedSince(h)
  BY <1>1, <1>3 DEF TradedSince
<1>6. \A j : Recorded(j)' = Recorded(j)
  BY <1>1 DEF Recorded
<1>7. Input => Input'
  BY <1>1 DEF Input, Caches
<1> QED
  BY <1>1, <1>2, <1>4, <1>5, <1>6, <1>7

LEMMA InitInv == ASSUME Init PROVE Inv
<1>1. Input
  BY DEF Init, Input
<1>2. step = "fetch" /\ Fresh
  BY DEF Init, Fresh
<1> QED
  BY <1>1, <1>2 DEF Inv, ExactWhereRecorded, Bounded

\* The latest of the wanted heights decides whether any can be exact.
LEMMA LatestFirst ==
    ASSUME Input, NEW h \in WantedHeights,
           {g \in WantedHeights : g >= h} \subseteq DOMAIN records
    PROVE  \E j \in 1 .. Len(wanted) : h = wanted[j] /\ Recorded(j)
<1>1. /\ Len(wanted) \in Nat
      /\ \A i \in 1 .. Len(wanted) : wanted[i] \in Nat
      /\ \A i, j \in 1 .. Len(wanted) : i < j => wanted[j] < wanted[i]
      /\ WantedHeights = {wanted[i] : i \in 1 .. Len(wanted)}
  BY WantedFacts
<1>2. PICK j \in 1 .. Len(wanted) : h = wanted[j]
  BY <1>1
<1>3. ASSUME NEW i \in 1 .. j PROVE wanted[i] \in DOMAIN records
  <2>1. i \in 1 .. Len(wanted) /\ (i = j \/ i < j)
    BY <1>1, <1>2
  <2>2. wanted[i] >= h
    BY <1>1, <1>2, <2>1
  <2>3. wanted[i] \in WantedHeights
    BY <1>1, <2>1
  <2> QED
    BY <2>2, <2>3
<1>4. Recorded(j)
  BY <1>3 DEF Recorded
<1> QED
  BY <1>2, <1>4

LEMMA RecordedIsBetween ==
    ASSUME Input, NEW j \in 1 .. Len(wanted), Recorded(j)
    PROVE  \A i \in 1 .. j : wanted[i] \in Between
<1>1. Len(wanted) \in Nat
  BY WantedFacts
<1> SUFFICES ASSUME NEW i \in 1 .. j PROVE wanted[i] \in Between
  OBVIOUS
<1>2. i \in 1 .. Len(wanted)
  BY <1>1
<1>3. wanted[i] \in DOMAIN records
  BY DEF Recorded
<1> QED
  BY <1>2, <1>3, BetweenFacts

\* Without a record nothing is set, and nothing had to be.
LEMMA FetchNothing == ASSUME Inv, Fetch, Between = {} PROVE Inv'
<1>1. Input /\ Fresh
  BY DEF Inv, Fetch
<1>2. UNCHANGED input /\ step' = "done" /\ relative' = [h \in Heights |-> {}]
  BY <1>1 DEF Fetch, Fresh
<1>3. /\ Input' /\ records' = records /\ wanted' = wanted
      /\ WantedHeights' = WantedHeights
  BY <1>1, <1>2, Frozen
<1>4. \A h \in WantedHeights : h \in Heights
  BY <1>1, WantedFacts
<1>5. ExactWhereRecorded'
  <2> SUFFICES ASSUME NEW h \in WantedHeights,
                      {g \in WantedHeights : g >= h} \subseteq DOMAIN records
               PROVE  FALSE
    BY <1>3 DEF ExactWhereRecorded
  <2>1. PICK j \in 1 .. Len(wanted) : h = wanted[j] /\ Recorded(j)
    BY <1>1, LatestFirst
  <2>2. j \in 1 .. j
    BY <1>1, WantedFacts
  <2> QED
    BY <1>1, <2>1, <2>2, RecordedIsBetween
<1>6. Bounded'
  BY <1>2, <1>3, <1>4 DEF Bounded
<1> QED
  BY <1>2, <1>3, <1>5, <1>6 DEF Inv

\* With one the loop starts at the latest.
LEMMA FetchSome == ASSUME Inv, Fetch, Between # {} PROVE Inv'
<1>1. Input /\ Fresh
  BY DEF Inv, Fetch
<1>2. /\ UNCHANGED input /\ step' = "loop"
      /\ idx' = 1 /\ rangeIndex' = 1 /\ priceSum' = 0
      /\ relative' = [h \in Heights |-> {}]
      /\ volumePrices' \in Sorted(Between)
      /\ prev' = records[volumePrices'[1]]
  BY <1>1 DEF Fetch, Fresh
<1>3. /\ Input' /\ records' = records /\ wanted' = wanted
      /\ Between' = Between
      /\ \A h : TradedSince(h)' = TradedSince(h)
  BY <1>1, <1>2, Frozen
<1> DEFINE q == volumePrices'
<1>4. Between \in SUBSET Nat /\ IsFiniteSet(Between) /\ \A h \in Between : h <= wanted[1]
  BY <1>1, BetweenFacts
<1>5. /\ Len(q) \in Nat
      /\ \A i \in 1 .. Len(q) : q[i] \in Between
      /\ \A i, j \in 1 .. Len(q) : i < j => q[j] < q[i]
      /\ \A h \in Between : \E k \in 1 .. Len(q) : q[k] = h
  BY <1>2, <1>4, SortedFacts
<1> HIDE DEF q
<1>6. Len(q) >= 1 /\ 1 \in 1 .. Len(q)
  <2>1. PICK h \in Between : TRUE
    OBVIOUS
  <2>2. PICK k \in 1 .. Len(q) : q[k] = h
    BY <1>5
  <2> QED
    BY <1>5, <2>2
<1>7. TradedSince(q[1]) = 0
  <2>1. wanted[1] \in Nat
    BY <1>1, WantedFacts
  <2>2. q[1] \in Between /\ q[1] \in Nat /\ q[1] <= wanted[1]
    BY <1>4, <1>5, <1>6
  <2>3. \A h \in Between : ~(q[1] < h /\ h <= wanted[1])
    <3> SUFFICES ASSUME NEW h \in Between, q[1] < h PROVE FALSE
      OBVIOUS
    <3>1. PICK k \in 1 .. Len(q) : q[k] = h
      BY <1>5
    <3>2. h \in Nat /\ (k = 1 \/ 1 < k)
      BY <1>4, <1>5, <3>1
    <3> QED
      BY <1>5, <1>6, <2>2, <3>1, <3>2
  <2>4. TradedSince(q[1]) = TradedSince(wanted[1])
    BY <1>1, <2>1, <2>2, <2>3, TradedSinceFacts
  <2> QED
    BY <1>1, <2>4, TradedSinceFacts
<1>8. Reached' = q[1]
  BY <1>2 DEF Reached, q
<1>9. Len(wanted) \in Nat /\ \A i \in 1 .. Len(wanted) : wanted[i] \in Heights
  BY <1>1, WantedFacts
<1>10. Progress'
  <2>1. q \in Sorted(Between)' /\ Len(q) >= 1 /\ 1 \in 1 .. Len(q) + 1 /\ 1 \in 1 .. Len(wanted) + 1
    BY <1>2, <1>3, <1>5, <1>6, <1>9 DEF q, Sorted
  <2>2. prev' = records'[Reached']
    BY <1>2, <1>3, <1>8 DEF q
  <2>3. priceSum' = TradedSince(Reached)'
    BY <1>2, <1>3, <1>7, <1>8 DEF TradedSince
  <2> QED
    BY <1>2, <1>3, <2>1, <2>2, <2>3 DEF Progress, q
<1>11. Assigned'
  BY <1>2, <1>3, <1>9 DEF Assigned
<1>12. Ordered'
  BY <1>2 DEF Ordered
<1>13. Exact'
  BY <1>2 DEF Exact
<1>14. ExactWhereRecorded' /\ Bounded'
  BY <1>2 DEF ExactWhereRecorded, Bounded
<1> QED
  BY <1>2, <1>3, <1>10, <1>11, <1>12, <1>13, <1>14 DEF Inv

\* What the loop can tell of its state.
LEMMA LoopFacts ==
    ASSUME Input, Progress, Assigned
    PROVE  /\ Len(volumePrices) \in Nat /\ Len(wanted) \in Nat
           /\ idx \in Nat /\ idx >= 1 /\ idx <= Len(volumePrices) + 1
           /\ rangeIndex \in Nat /\ rangeIndex >= 1 /\ rangeIndex <= Len(wanted) + 1
           /\ Between \in SUBSET Nat
           /\ \A i \in 1 .. Len(volumePrices) : volumePrices[i] \in Between /\ volumePrices[i] \in Nat
           /\ \A i, j \in 1 .. Len(volumePrices) : i < j => volumePrices[j] < volumePrices[i]
           /\ \A h \in Between : \E k \in 1 .. Len(volumePrices) : volumePrices[k] = h
           /\ \A j \in 1 .. Len(wanted) : wanted[j] \in Nat /\ wanted[j] \in Heights
           /\ \A i, j \in 1 .. Len(wanted) : i < j => wanted[j] < wanted[i]
           /\ \A h \in Nat : TradedSince(h) \in Int
           /\ Reached \in Between /\ Reached \in Nat
           /\ priceSum = TradedSince(Reached) /\ priceSum \in Int
           /\ \A j \in 1 .. Len(wanted) : relative[wanted[j]] \in SUBSET Int
<1>1. Between \in SUBSET Nat /\ IsFiniteSet(Between)
  BY BetweenFacts
<1>2. /\ volumePrices \in Sorted(Between) /\ Len(volumePrices) >= 1
      /\ idx \in 1 .. Len(volumePrices) + 1
      /\ rangeIndex \in 1 .. Len(wanted) + 1
      /\ priceSum = TradedSince(Reached)
  BY DEF Progress
<1>3. /\ Len(volumePrices) \in Nat
      /\ \A i \in 1 .. Len(volumePrices) : volumePrices[i] \in Between
      /\ \A i, j \in 1 .. Len(volumePrices) : i < j => volumePrices[j] < volumePrices[i]
      /\ \A h \in Between : \E k \in 1 .. Len(volumePrices) : volumePrices[k] = h
  BY <1>1, <1>2, SortedFacts
<1>4. /\ Len(wanted) \in Nat
      /\ \A j \in 1 .. Len(wanted) : wanted[j] \in Nat /\ wanted[j] \in Heights
      /\ \A i, j \in 1 .. Len(wanted) : i < j => wanted[j] < wanted[i]
  BY WantedFacts
<1>5. /\ idx \in Nat /\ idx >= 1 /\ idx <= Len(volumePrices) + 1
      /\ rangeIndex \in Nat /\ rangeIndex >= 1 /\ rangeIndex <= Len(wanted) + 1
  BY <1>2, <1>3, <1>4
<1>6. \A h \in Nat : TradedSince(h) \in Int
  BY TradedSinceFacts
<1>7. Reached \in Between /\ Reached \in Nat
  <2>1. (IF idx = 1 THEN 1 ELSE idx - 1) \in 1 .. Len(volumePrices)
    BY <1>2, <1>3, <1>5
  <2> QED
    BY <1>1, <1>3, <2>1 DEF Reached
<1>8. \A j \in 1 .. Len(wanted) : relative[wanted[j]] \in SUBSET Int
  BY <1>4 DEF Assigned
<1>9. \A i \in 1 .. Len(volumePrices) : volumePrices[i] \in Nat
  BY <1>1, <1>3
<1> QED
  BY <1>1, <1>2, <1>3, <1>4, <1>5, <1>6, <1>7, <1>8, <1>9

\* A turn brings the sum to what was traded since its record.
LEMMA SumIsTraded ==
    ASSUME Input, Progress, Assigned, InLoop
    PROVE  /\ Sum(records[volumePrices[idx]]) = TradedSince(volumePrices[idx])
           /\ priceSum <= TradedSince(volumePrices[idx])
<1> DEFINE b == volumePrices[idx]
           a == Reached
<1>0. /\ Len(volumePrices) \in Nat /\ idx \in Nat
      /\ \A i \in 1 .. Len(volumePrices) : volumePrices[i] \in Nat
      /\ \A i, j \in 1 .. Len(volumePrices) : i < j => volumePrices[j] < volumePrices[i]
  BY LoopFacts
<1>1. idx \in 1 .. Len(volumePrices)
  BY LoopFacts DEF InLoop
<1>2. b \in Between /\ b \in Nat /\ a \in Between /\ a \in Nat
  BY <1>1, LoopFacts
<1>3. prev = records[a]
  BY DEF Progress
<1>4. Sum(records[b]) = priceSum + Difference(records[a], records[b])
  BY <1>3 DEF Sum, Traded, Difference
<1>5. priceSum = TradedSince(a) /\ priceSum \in Int /\ TradedSince(b) \in Int
  BY <1>2, LoopFacts
<1>6. CASE idx = 1
  <2>1. a = b
    BY <1>6 DEF Reached
  <2>2. Difference(records[b], records[b]) = 0
    <3>1. /\ records[b].volume \in Nat /\ records[b].price \in Nat
      BY <1>2, RecordFacts, BetweenFacts
    <3>2. records[b].volume - records[b].volume = 0 /\ records[b].price + records[b].price \in Nat
      BY <3>1
    <3>3. \A n \in Nat : 0 * n = 0
      OBVIOUS
    <3> QED
      BY <3>2, <3>3 DEF Difference
  <2>3. Sum(records[b]) = priceSum
    <3> HIDE DEF a, b
    <3> QED
      BY <1>4, <1>5, <2>1, <2>2
  <2> HIDE DEF a, b
  <2>4. priceSum = TradedSince(b)
    BY <1>5, <2>1
  <2>5. Sum(records[b]) = TradedSince(b) /\ priceSum <= TradedSince(b)
    BY <1>5, <2>3, <2>4
  <2> QED
    BY <2>5 DEF b
<1>7. CASE idx # 1
  <2>1. idx - 1 \in 1 .. Len(volumePrices) /\ idx - 1 < idx /\ a = volumePrices[idx - 1]
    BY <1>1, <1>7, LoopFacts DEF Reached
  <2>2. b < a
    BY <1>1, <2>1, LoopFacts
  <2>3. \A h \in Between : ~(b < h /\ h < a)
    <3> SUFFICES ASSUME NEW h \in Between, b < h, h < a PROVE FALSE
      OBVIOUS
    <3>1. PICK k \in 1 .. Len(volumePrices) : volumePrices[k] = h
      BY LoopFacts
    <3>2. h \in Nat
      BY <1>0, <3>1
    <3>3. k <= idx - 1 \/ idx <= k
      BY <1>0
    <3>4. CASE k <= idx - 1
      <4>1. k = idx - 1 \/ k < idx - 1
        BY <1>0, <3>4
      <4>2. a <= h
        BY <1>0, <1>2, <2>1, <3>1, <3>2, <4>1
      <4> QED
        BY <1>2, <3>2, <4>2
    <3>5. CASE idx <= k
      <4>1. k = idx \/ idx < k
        BY <1>0, <3>5
      <4>2. h <= b
        BY <1>0, <1>1, <1>2, <3>1, <3>2, <4>1
      <4> QED
        BY <1>2, <3>2, <4>2
    <3> QED
      BY <3>3, <3>4, <3>5
  <2>4. TradedSince(b) = TradedSince(a) + Difference(records[a], records[b])
    BY <1>2, <2>2, <2>3, TradedSinceFacts
  <2>5. TradedSince(a) <= TradedSince(b)
    <3>1. b <= a
      BY <1>2, <2>2
    <3> QED
      BY <1>2, <3>1, TradedSinceFacts
  <2> QED
    BY <1>4, <1>5, <2>4, <2>5
<1> QED
  BY <1>6, <1>7

\* A turn that does not reach the next wanted height.
LEMMA TurnPasses ==
    ASSUME Inv, Accumulate, ~(volumePrices[idx] <= wanted[rangeIndex])
    PROVE  Inv'
<1> DEFINE b == volumePrices[idx]
<1>1. Input /\ Progress /\ Assigned /\ Ordered /\ Exact /\ InLoop
  BY DEF Inv, Accumulate
<1>2. /\ UNCHANGED input /\ step = "loop" /\ step' = step /\ volumePrices' = volumePrices
      /\ idx' = idx + 1 /\ rangeIndex' = rangeIndex /\ relative' = relative
      /\ priceSum' = Sum(records[b]) /\ prev' = records[b]
  BY DEF Accumulate, Advanced
<1>3. /\ Input' /\ records' = records /\ wanted' = wanted /\ Between' = Between
      /\ \A h : TradedSince(h)' = TradedSince(h)
      /\ \A j : Recorded(j)' = Recorded(j)
  BY <1>1, <1>2, Frozen
<1>4. idx \in 1 .. Len(volumePrices) /\ rangeIndex \in 1 .. Len(wanted)
  BY <1>1, LoopFacts DEF InLoop
<1>5. priceSum' = TradedSince(b) /\ priceSum <= TradedSince(b)
  BY <1>1, <1>2, SumIsTraded
<1>6. b \in Nat /\ wanted[rangeIndex] \in Nat /\ wanted[rangeIndex] < b
  <2>1. b \in Nat /\ wanted[rangeIndex] \in Nat
    BY <1>1, <1>4, LoopFacts
  <2> QED
    BY <2>1
<1>7. priceSum \in Int /\ priceSum' \in Int
  BY <1>1, <1>5, <1>6, LoopFacts
<1>8. Progress'
  <2>0. idx \in Nat /\ Len(volumePrices) \in Nat
    BY <1>1, LoopFacts
  <2>1. Reached' = b
    BY <1>2, <1>4, <2>0 DEF Reached
  <2>2. idx' \in 1 .. Len(volumePrices') + 1
    BY <1>2, <1>4, <2>0
  <2>3. volumePrices' \in Sorted(Between)' /\ Len(volumePrices') >= 1
    BY <1>1, <1>2, <1>3 DEF Progress, Sorted
  <2>4. rangeIndex' \in 1 .. Len(wanted') + 1
    BY <1>1, <1>2, <1>3 DEF Progress
  <2>5. prev' = records'[Reached']
    BY <1>2, <1>3, <2>1
  <2>6. priceSum' = TradedSince(Reached)'
    BY <1>3, <1>5, <2>1 DEF TradedSince
  <2> QED
    BY <2>2, <2>3, <2>4, <2>5, <2>6 DEF Progress
<1>9. Assigned'
  BY <1>1, <1>2, <1>3 DEF Assigned
<1>10. Ordered'
  <2> SUFFICES ASSUME NEW j \in 1 .. rangeIndex - 1, NEW v \in relative[wanted[j]]
               PROVE  /\ TradedSince(wanted[j]) <= v /\ v <= priceSum'
                      /\ \A i \in 1 .. j : \A w \in relative[wanted[i]] : w <= v
    BY <1>2, <1>3 DEF Ordered
  <2>1. /\ TradedSince(wanted[j]) <= v /\ v <= priceSum
        /\ \A i \in 1 .. j : \A w \in relative[wanted[i]] : w <= v
    BY <1>1 DEF Ordered
  <2>2. v \in Int
    <3>1. j \in 1 .. Len(wanted)
      BY <1>1, <1>4, LoopFacts
    <3> QED
      BY <1>1, <3>1, LoopFacts
  <2>3. v <= priceSum'
    BY <1>5, <1>7, <2>1, <2>2
  <2> QED
    BY <2>1, <2>3
<1>11. Exact'
  <2>1. \A j \in 1 .. rangeIndex - 1 : Recorded(j) => relative[wanted[j]] = {TradedSince(wanted[j])}
    BY <1>1 DEF Exact
  <2>2. ASSUME Recorded(rangeIndex), NEW k \in 1 .. idx PROVE wanted[rangeIndex] < volumePrices[k]
    <3>1. CASE k = idx
      BY <1>6, <3>1
    <3>2. CASE k # idx
      <4>1. k \in 1 .. idx - 1
        BY <1>4, <3>2
      <4>2. rangeIndex <= Len(wanted)
        BY <1>4
      <4> QED
        BY <1>1, <2>2, <4>1, <4>2 DEF Exact
    <3> QED
      BY <3>1, <3>2
  <2>3. idx' - 1 = idx
    BY <1>1, <1>2, LoopFacts
  <2>4. \A j \in 1 .. rangeIndex' - 1 :
           Recorded(j)' => relative'[wanted'[j]] = {TradedSince(wanted'[j])}
    BY <1>2, <1>3, <2>1
  <2>5. Recorded(rangeIndex') => \A k \in 1 .. idx' - 1 : wanted'[rangeIndex'] < volumePrices'[k]
    BY <1>2, <1>3, <2>2, <2>3
  <2> QED
    BY <1>2, <1>3, <2>4, <2>5 DEF Exact, Recorded, TradedSince
<1>12. ExactWhereRecorded' /\ Bounded'
  BY <1>2 DEF ExactWhereRecorded, Bounded
<1> QED
  BY <1>2, <1>3, <1>8, <1>9, <1>10, <1>11, <1>12 DEF Inv

\* The values after one wanted height was given its own.
Sets(after, r, value) == after = [relative EXCEPT ![wanted[r]] = value]

\* Only one of the wanted heights is at a position.
LEMMA OthersKeep ==
    ASSUME Input, Progress, Assigned, NEW r \in 1 .. Len(wanted), NEW value,
           NEW after, Sets(after, r, value)
    PROVE  /\ after[wanted[r]] = value
           /\ \A j \in 1 .. Len(wanted) : j # r => after[wanted[j]] = relative[wanted[j]]
<1>1. /\ Len(wanted) \in Nat
      /\ \A j \in 1 .. Len(wanted) : wanted[j] \in Nat /\ wanted[j] \in Heights
      /\ \A i, j \in 1 .. Len(wanted) : i < j => wanted[j] < wanted[i]
  BY LoopFacts
<1>2. relative \in [Heights -> SUBSET Int]
  BY DEF Assigned
<1>3. ASSUME NEW j \in 1 .. Len(wanted), j # r PROVE wanted[j] # wanted[r]
  <2>1. j < r \/ r < j
    BY <1>1, <1>3
  <2> QED
    BY <1>1, <2>1
<1> QED
  BY <1>1, <1>2, <1>3 DEF Sets

\* Within the loop both positions are inside their lists.
LEMMA Positions ==
    ASSUME Input, Progress, Assigned, InLoop
    PROVE  /\ idx \in Nat /\ Len(volumePrices) \in Nat /\ idx \in 1 .. Len(volumePrices)
           /\ rangeIndex \in Nat /\ Len(wanted) \in Nat /\ rangeIndex \in 1 .. Len(wanted)
           /\ \A i, j \in 1 .. Len(volumePrices) : i < j => volumePrices[j] < volumePrices[i]
           /\ \A i, j \in 1 .. Len(wanted) : i < j => wanted[j] < wanted[i]
           /\ \A i \in 1 .. Len(volumePrices) : volumePrices[i] \in Nat
           /\ \A i \in 1 .. Len(wanted) : wanted[i] \in Nat
<1>1. /\ idx \in Nat /\ Len(volumePrices) \in Nat /\ idx >= 1
      /\ rangeIndex \in Nat /\ Len(wanted) \in Nat /\ rangeIndex >= 1
  BY LoopFacts
<1>2. idx \in 1 .. Len(volumePrices) /\ rangeIndex \in 1 .. Len(wanted)
  BY <1>1 DEF InLoop
<1>3. /\ \A i, j \in 1 .. Len(volumePrices) : i < j => volumePrices[j] < volumePrices[i]
      /\ \A i, j \in 1 .. Len(wanted) : i < j => wanted[j] < wanted[i]
  BY LoopFacts
<1>4. /\ \A i \in 1 .. Len(volumePrices) : volumePrices[i] \in Nat
      /\ \A i \in 1 .. Len(wanted) : wanted[i] \in Nat
  BY LoopFacts
<1> QED
  BY <1>1, <1>2, <1>3, <1>4

\* With its record and those of the heights after it, the record reached is its own.
LEMMA ReachedExactly ==
    ASSUME Input, Progress, Assigned, Exact, InLoop,
           volumePrices[idx] <= wanted[rangeIndex], Recorded(rangeIndex)
    PROVE  volumePrices[idx] = wanted[rangeIndex]
<1>1. /\ Len(volumePrices) \in Nat /\ idx \in Nat /\ Len(wanted) \in Nat
      /\ idx \in 1 .. Len(volumePrices) /\ rangeIndex \in 1 .. Len(wanted)
      /\ \A i \in 1 .. Len(volumePrices) : volumePrices[i] \in Nat
      /\ \A i, j \in 1 .. Len(volumePrices) : i < j => volumePrices[j] < volumePrices[i]
      /\ wanted[rangeIndex] \in Nat
  BY Positions
<1>2. rangeIndex \in 1 .. rangeIndex
  BY <1>1
<1>3. wanted[rangeIndex] \in Between
  BY <1>1, <1>2, RecordedIsBetween
<1>4. PICK k \in 1 .. Len(volumePrices) : volumePrices[k] = wanted[rangeIndex]
  BY <1>3, LoopFacts
<1>5. rangeIndex <= Len(wanted)
  BY <1>1
<1>6. ~(k \in 1 .. idx - 1)
  BY <1>1, <1>4, <1>5 DEF Exact
<1>7. k = idx \/ idx < k
  BY <1>1, <1>6
<1> QED
  BY <1>1, <1>4, <1>7

\* A turn that reaches it.
LEMMA TurnReports ==
    ASSUME Inv, Accumulate, volumePrices[idx] <= wanted[rangeIndex]
    PROVE  Inv'
<1> DEFINE b == volumePrices[idx]
           r == rangeIndex
<1>1. Input /\ Progress /\ Assigned /\ Ordered /\ Exact /\ InLoop
  BY DEF Inv, Accumulate
<1>2. /\ UNCHANGED input /\ step = "loop" /\ step' = step /\ volumePrices' = volumePrices
      /\ idx' = idx + 1 /\ rangeIndex' = r + 1
      /\ relative' = [relative EXCEPT ![wanted[r]] = {Sum(records[b])}]
      /\ priceSum' = Sum(records[b]) /\ prev' = records[b]
  BY DEF Accumulate, Advanced, Reported
<1>3. /\ Input' /\ records' = records /\ wanted' = wanted /\ Between' = Between
      /\ \A h : TradedSince(h)' = TradedSince(h)
      /\ \A j : Recorded(j)' = Recorded(j)
  BY <1>1, <1>2, Frozen
<1>4. /\ idx \in Nat /\ Len(volumePrices) \in Nat /\ idx \in 1 .. Len(volumePrices)
      /\ r \in Nat /\ Len(wanted) \in Nat /\ r \in 1 .. Len(wanted)
      /\ \A i, j \in 1 .. Len(volumePrices) : i < j => volumePrices[j] < volumePrices[i]
      /\ \A i, j \in 1 .. Len(wanted) : i < j => wanted[j] < wanted[i]
      /\ \A i \in 1 .. Len(volumePrices) : volumePrices[i] \in Nat
      /\ \A i \in 1 .. Len(wanted) : wanted[i] \in Nat
  BY <1>1, Positions
<1>5. Sum(records[b]) = TradedSince(b) /\ priceSum' = TradedSince(b) /\ priceSum <= TradedSince(b)
  BY <1>1, <1>2, SumIsTraded
<1>6. b \in Nat /\ wanted[r] \in Nat /\ b <= wanted[r]
  BY <1>4
<1>7. priceSum \in Int /\ priceSum' \in Int /\ TradedSince(b) \in Int /\ TradedSince(wanted[r]) \in Int
  BY <1>1, <1>5, <1>6, LoopFacts
<1>8. TradedSince(wanted[r]) <= TradedSince(b)
  BY <1>1, <1>6, TradedSinceFacts
<1>9. /\ relative'[wanted[r]] = {TradedSince(b)}
      /\ \A j \in 1 .. Len(wanted) : j # r => relative'[wanted[j]] = relative[wanted[j]]
  <2>1. Sets(relative', r, {TradedSince(b)})
    BY <1>2, <1>5 DEF Sets
  <2> HIDE DEF r, b
  <2> QED
    BY <1>1, <1>4, <2>1, OthersKeep
<1> HIDE DEF r
<1>10. Progress'
  <2>1. Reached' = b
    BY <1>2, <1>4 DEF Reached
  <2>2. idx' \in 1 .. Len(volumePrices') + 1 /\ rangeIndex' \in 1 .. Len(wanted') + 1
    BY <1>2, <1>3, <1>4
  <2>3. volumePrices' \in Sorted(Between)' /\ Len(volumePrices') >= 1
    BY <1>1, <1>2, <1>3 DEF Progress, Sorted
  <2>4. prev' = records'[Reached']
    BY <1>2, <1>3, <2>1
  <2>5. priceSum' = TradedSince(Reached)'
    BY <1>3, <1>5, <2>1 DEF TradedSince
  <2> QED
    BY <2>2, <2>3, <2>4, <2>5 DEF Progress
<1>11. Assigned'
  <2>1. relative' \in [Heights -> SUBSET Int]
    BY <1>1, <1>2, <1>5, <1>7 DEF Assigned
  <2>2. ASSUME NEW j \in r + 1 .. Len(wanted) PROVE relative'[wanted[j]] = {}
    <3>1. j \in 1 .. Len(wanted) /\ j # r /\ j \in r .. Len(wanted)
      BY <1>4
    <3> QED
      BY <1>1, <1>9, <3>1 DEF Assigned, r
  <2> QED
    BY <1>2, <1>3, <2>1, <2>2 DEF Assigned
<1>12. Ordered'
  <2>1. ASSUME NEW j \in 1 .. r - 1, NEW v \in relative[wanted[j]]
        PROVE  /\ v \in Int /\ TradedSince(wanted[j]) <= v /\ v <= TradedSince(b)
               /\ \A i \in 1 .. j : \A w \in relative[wanted[i]] : w <= v
    <3>1. /\ TradedSince(wanted[j]) <= v /\ v <= priceSum
          /\ \A i \in 1 .. j : \A w \in relative[wanted[i]] : w <= v
      BY <1>1, <2>1 DEF Ordered, r
    <3>2. v \in Int
      <4>1. j \in 1 .. Len(wanted)
        BY <1>4
      <4> QED
        BY <1>1, <2>1, <4>1, LoopFacts
    <3>3. v <= TradedSince(b)
      BY <1>5, <1>7, <3>1, <3>2
    <3> QED
      BY <3>1, <3>2, <3>3
  <2> SUFFICES ASSUME NEW j \in 1 .. r, NEW v \in relative'[wanted[j]]
               PROVE  /\ TradedSince(wanted[j]) <= v /\ v <= TradedSince(b)
                      /\ \A i \in 1 .. j : \A w \in relative'[wanted[i]] : w <= v
    <3>1. rangeIndex' - 1 = r
      BY <1>2, <1>4
    <3> QED
      BY <1>2, <1>3, <1>5, <3>1 DEF Ordered
  <2>2. j \in Nat /\ \A i \in 1 .. j : i \in 1 .. Len(wanted)
    BY <1>4
  <2>3. CASE j = r
    <3>1. v = TradedSince(b)
      BY <1>9, <2>3
    <3>2. ASSUME NEW i \in 1 .. j, NEW w \in relative'[wanted[i]] PROVE w <= v
      <4>1. CASE i = r
        BY <1>7, <1>9, <3>1, <3>2, <4>1
      <4>2. CASE i # r
        <5>1. i \in 1 .. r - 1
          BY <1>4, <2>3, <4>2
        <5>2. w \in relative[wanted[i]]
          BY <1>9, <2>2, <3>2, <4>2
        <5> QED
          BY <2>1, <3>1, <5>1, <5>2
      <4> QED
        BY <4>1, <4>2
    <3>3. TradedSince(wanted[j]) <= v /\ v <= TradedSince(b)
      BY <1>7, <1>8, <2>3, <3>1
    <3> QED
      BY <3>2, <3>3
  <2>4. CASE j # r
    <3>1. j \in 1 .. r - 1
      BY <1>4, <2>4
    <3>2. \A i \in 1 .. j : relative'[wanted[i]] = relative[wanted[i]]
      BY <1>4, <1>9, <2>2, <3>1
    <3>3. j \in 1 .. j
      BY <3>1
    <3>4. v \in relative[wanted[j]]
      BY <3>2, <3>3
    <3> QED
      BY <2>1, <3>1, <3>2, <3>4
  <2> QED
    BY <2>3, <2>4
<1>13. Exact'
  <2>1. ASSUME NEW j \in 1 .. r, Recorded(j) PROVE relative'[wanted[j]] = {TradedSince(wanted[j])}
    <3>1. CASE j = r
      <4>1. b = wanted[r]
        BY <1>1, <2>1, <3>1, ReachedExactly DEF r
      <4> QED
        BY <1>9, <3>1, <4>1
    <3>2. CASE j # r
      <4>1. j \in 1 .. r - 1 /\ j \in 1 .. Len(wanted)
        BY <1>4, <3>2
      <4>2. relative[wanted[j]] = {TradedSince(wanted[j])}
        BY <1>1, <2>1, <4>1 DEF Exact, r
      <4> QED
        BY <1>9, <3>2, <4>1, <4>2
    <3> QED
      BY <3>1, <3>2
  <2>2. ASSUME r + 1 <= Len(wanted), Recorded(r + 1), NEW k \in 1 .. idx
        PROVE  wanted[r + 1] < volumePrices[k]
    <3>1. Recorded(r)
      BY <1>4, <2>2 DEF Recorded
    <3>2. b = wanted[r]
      BY <1>1, <3>1, ReachedExactly DEF r
    <3>3. wanted[r + 1] < wanted[r] /\ wanted[r + 1] \in Nat
      BY <1>4, <2>2
    <3>4. volumePrices[k] \in Nat /\ b <= volumePrices[k]
      <4>1. k \in 1 .. Len(volumePrices) /\ (k = idx \/ k < idx)
        BY <1>4
      <4> QED
        BY <1>4, <1>6, <4>1
    <3> QED
      BY <1>6, <3>2, <3>3, <3>4
  <2>3. rangeIndex' - 1 = r /\ idx' - 1 = idx
    BY <1>2, <1>4
  <2>4. \A j \in 1 .. rangeIndex' - 1 :
           Recorded(j)' => relative'[wanted'[j]] = {TradedSince(wanted'[j])}
    BY <1>3, <2>1, <2>3
  <2>5. rangeIndex' <= Len(wanted') /\ Recorded(rangeIndex')
           => \A k \in 1 .. idx' - 1 : wanted'[rangeIndex'] < volumePrices'[k]
    BY <1>2, <1>3, <2>2, <2>3
  <2> QED
    BY <1>2, <1>3, <2>4, <2>5 DEF Exact, Recorded, TradedSince
<1>14. ExactWhereRecorded' /\ Bounded'
  BY <1>2 DEF ExactWhereRecorded, Bounded
<1> QED
  BY <1>2, <1>3, <1>10, <1>11, <1>12, <1>13, <1>14 DEF Inv

\* The values by position, when all that will be set is set.
OrderedAtLast(after) ==
    \A j \in 1 .. Len(wanted) : \A v \in after[wanted[j]] :
        /\ TradedSince(wanted[j]) <= v /\ v <= TradedSince(0)
        /\ \A i \in 1 .. j : \A w \in after[wanted[i]] : w <= v

ExactAtLast(after) ==
    \A j \in 1 .. Len(wanted) : Recorded(j) => after[wanted[j]] = {TradedSince(wanted[j])}

\* The end of the loop with every wanted height passed.
LEMMA FinishAll ==
    ASSUME Inv, Finish, rangeIndex > Len(wanted)
    PROVE  OrderedAtLast(relative') /\ ExactAtLast(relative')
<1>1. Input /\ Progress /\ Assigned /\ Ordered /\ Exact
  BY DEF Inv, Finish
<1>2. rangeIndex \in Nat /\ Len(wanted) \in Nat /\ rangeIndex <= Len(wanted) + 1
  BY <1>1, LoopFacts
<1>3. relative' = relative /\ rangeIndex - 1 = Len(wanted)
  <2>1. ~(rangeIndex <= Len(wanted))
    BY <1>2
  <2> QED
    BY <1>2, <2>1 DEF Finish
<1>4. ASSUME NEW j \in 1 .. Len(wanted), NEW v \in relative[wanted[j]] PROVE v <= TradedSince(0)
  <2>1. v \in Int
    BY <1>1, <1>4, LoopFacts
  <2>2. v <= priceSum
    BY <1>1, <1>3, <1>4 DEF Ordered
  <2>3. /\ Reached \in Nat /\ priceSum = TradedSince(Reached) /\ priceSum \in Int
        /\ \A h \in Nat : TradedSince(h) \in Int
    BY <1>1, LoopFacts
  <2>4. 0 \in Nat /\ 0 <= Reached
    BY <2>3
  <2>5. priceSum <= TradedSince(0) /\ TradedSince(0) \in Int
    BY <1>1, <2>3, <2>4, TradedSinceFacts
  <2> QED
    BY <2>1, <2>2, <2>3, <2>5
<1>5. OrderedAtLast(relative')
  BY <1>1, <1>3, <1>4 DEF Ordered, OrderedAtLast
<1>6. ExactAtLast(relative')
  BY <1>1, <1>3 DEF Exact, ExactAtLast
<1> QED
  BY <1>5, <1>6

\* When the records ran out all has been summed.
LEMMA AllSummed ==
    ASSUME Input, Progress, Assigned, idx > Len(volumePrices)
    PROVE  priceSum = TradedSince(0)
<1>1. /\ Len(volumePrices) \in Nat /\ idx \in Nat /\ idx <= Len(volumePrices) + 1
      /\ \A i \in 1 .. Len(volumePrices) : volumePrices[i] \in Nat
      /\ \A i, j \in 1 .. Len(volumePrices) : i < j => volumePrices[j] < volumePrices[i]
      /\ Reached \in Between /\ priceSum = TradedSince(Reached)
  BY LoopFacts
<1>2. Len(volumePrices) >= 1
  BY DEF Progress
<1>3. idx = Len(volumePrices) + 1 /\ Len(volumePrices) \in 1 .. Len(volumePrices)
  BY <1>1, <1>2
<1>4. Reached = volumePrices[Len(volumePrices)]
  BY <1>1, <1>2, <1>3 DEF Reached
<1>5. ASSUME NEW h \in Between PROVE Reached <= h
  <2>1. PICK k \in 1 .. Len(volumePrices) : volumePrices[k] = h
    BY LoopFacts
  <2>2. k = Len(volumePrices) \/ k < Len(volumePrices)
    BY <1>1
  <2> QED
    BY <1>1, <1>3, <1>4, <2>1, <2>2
<1> QED
  BY <1>1, <1>5, TradedSinceFacts

\* The end of the loop with a wanted height left: it takes the sum, those after it nothing.
LEMMA FinishLast ==
    ASSUME Inv, Finish, rangeIndex <= Len(wanted)
    PROVE  OrderedAtLast(relative') /\ ExactAtLast(relative')
<1> DEFINE r == rangeIndex
<1>1. Input /\ Progress /\ Assigned /\ Ordered /\ Exact /\ ~InLoop
  BY DEF Inv, Finish
<1>2. /\ r \in Nat /\ Len(wanted) \in Nat /\ r \in 1 .. Len(wanted)
      /\ Len(volumePrices) \in Nat /\ idx \in Nat /\ idx > Len(volumePrices)
  <2>1. /\ r \in Nat /\ Len(wanted) \in Nat /\ r >= 1
        /\ Len(volumePrices) \in Nat /\ idx \in Nat
    BY <1>1, LoopFacts
  <2> QED
    BY <1>1, <2>1 DEF InLoop
<1>3. priceSum = TradedSince(0)
  BY <1>1, <1>2, AllSummed
<1>4. Sets(relative', r, {TradedSince(0)})
  BY <1>3 DEF Finish, Sets
<1> HIDE DEF r
<1>5. /\ relative'[wanted[r]] = {TradedSince(0)}
      /\ \A j \in 1 .. Len(wanted) : j # r => relative'[wanted[j]] = relative[wanted[j]]
  BY <1>1, <1>2, <1>4, OthersKeep
<1>6. /\ \A h \in Nat : TradedSince(h) \in Int
      /\ \A j \in 1 .. Len(wanted) : wanted[j] \in Nat
      /\ \A j \in 1 .. Len(wanted) : relative[wanted[j]] \in SUBSET Int
  BY <1>1, LoopFacts
<1>7. 0 \in Nat /\ TradedSince(0) \in Int
  BY <1>6
<1>8. ASSUME NEW j \in 1 .. r - 1, NEW v \in relative[wanted[j]]
      PROVE  /\ TradedSince(wanted[j]) <= v /\ v <= TradedSince(0)
             /\ \A i \in 1 .. j : \A w \in relative[wanted[i]] : w <= v
  BY <1>1, <1>3, <1>8 DEF Ordered, r
<1>9. ASSUME NEW j \in r + 1 .. Len(wanted) PROVE relative'[wanted[j]] = {}
  <2>1. j \in 1 .. Len(wanted) /\ j # r /\ j \in r .. Len(wanted)
    BY <1>2
  <2> QED
    BY <1>1, <1>5, <2>1 DEF Assigned, r
<1>10. ASSUME NEW j \in r .. Len(wanted) PROVE ~Recorded(j)
  <2> SUFFICES ASSUME Recorded(j) PROVE FALSE
    OBVIOUS
  <2>1. j \in 1 .. Len(wanted) /\ r \in 1 .. j
    BY <1>2
  <2>2. wanted[r] \in Between
    BY <1>1, <2>1, RecordedIsBetween
  <2>3. PICK k \in 1 .. Len(volumePrices) : volumePrices[k] = wanted[r]
    BY <1>1, <2>2, LoopFacts
  <2>4. Recorded(r)
    BY <1>2, <2>1 DEF Recorded
  <2>5. k \in 1 .. idx - 1
    BY <1>2
  <2>6. wanted[r] < volumePrices[k]
    BY <1>1, <1>2, <2>4, <2>5 DEF Exact, r
  <2> QED
    BY <1>2, <1>6, <2>3, <2>6
<1>11. OrderedAtLast(relative')
  <2> SUFFICES ASSUME NEW j \in 1 .. Len(wanted), NEW v \in relative'[wanted[j]]
               PROVE  /\ TradedSince(wanted[j]) <= v /\ v <= TradedSince(0)
                      /\ \A i \in 1 .. j : \A w \in relative'[wanted[i]] : w <= v
    BY DEF OrderedAtLast
  <2>1. CASE j < r
    <3>1. j \in 1 .. r - 1 /\ \A i \in 1 .. j : i \in 1 .. Len(wanted) /\ i # r
      BY <1>2, <2>1
    <3>2. \A i \in 1 .. j : relative'[wanted[i]] = relative[wanted[i]]
      BY <1>5, <3>1
    <3>3. j \in 1 .. j
      BY <3>1
    <3>4. v \in relative[wanted[j]]
      BY <3>2, <3>3
    <3> QED
      BY <1>8, <3>1, <3>2, <3>4
  <2>2. CASE j = r
    <3>1. v = TradedSince(0)
      BY <1>5, <2>2
    <3>2. TradedSince(wanted[j]) <= TradedSince(0)
      <4>1. wanted[j] \in Nat /\ 0 <= wanted[j]
        BY <1>6
      <4> QED
        BY <1>1, <1>7, <4>1, TradedSinceFacts
    <3>3. ASSUME NEW i \in 1 .. j, NEW w \in relative'[wanted[i]] PROVE w <= v
      <4>1. CASE i = r
        BY <1>5, <1>7, <3>1, <3>3, <4>1
      <4>2. CASE i # r
        <5>1. i \in 1 .. r - 1 /\ i \in 1 .. Len(wanted)
          BY <1>2, <2>2, <4>2
        <5>2. w \in relative[wanted[i]]
          BY <1>5, <3>3, <4>2, <5>1
        <5> QED
          BY <1>8, <3>1, <5>1, <5>2
      <4> QED
        BY <4>1, <4>2
    <3>4. v <= TradedSince(0)
      BY <1>7, <3>1
    <3> QED
      BY <3>1, <3>2, <3>3, <3>4
  <2>3. CASE j > r
    <3>1. j \in r + 1 .. Len(wanted)
      BY <1>2, <2>3
    <3> QED
      BY <1>9, <3>1
  <2> QED
    BY <1>2, <2>1, <2>2, <2>3
<1>12. ExactAtLast(relative')
  <2> SUFFICES ASSUME NEW j \in 1 .. Len(wanted), Recorded(j)
               PROVE  relative'[wanted[j]] = {TradedSince(wanted[j])}
    BY DEF ExactAtLast
  <2>1. j \notin r .. Len(wanted)
    BY <1>10
  <2>2. j \in 1 .. r - 1 /\ j # r
    BY <1>2, <2>1
  <2>3. relative[wanted[j]] = {TradedSince(wanted[j])}
    BY <1>1, <2>2 DEF Exact, r
  <2> QED
    BY <1>5, <2>2, <2>3
<1> QED
  BY <1>11, <1>12

LEMMA FinishInv == ASSUME Inv, Finish PROVE Inv'
<1>1. Input
  BY DEF Inv
<1>2. UNCHANGED input /\ step' = "done"
  BY DEF Finish
<1>3. /\ Input' /\ records' = records /\ wanted' = wanted
      /\ WantedHeights' = WantedHeights
      /\ \A h : TradedSince(h)' = TradedSince(h)
  BY <1>1, <1>2, Frozen
<1>4. OrderedAtLast(relative') /\ ExactAtLast(relative')
  <2>1. Len(wanted) \in Nat /\ rangeIndex \in Int
    BY <1>1, WantedFacts DEF Inv, Finish, Progress
  <2>2. rangeIndex <= Len(wanted) \/ rangeIndex > Len(wanted)
    BY <2>1
  <2> QED
    BY <2>2, FinishAll, FinishLast
<1>5. /\ Len(wanted) \in Nat
      /\ \A j \in 1 .. Len(wanted) : wanted[j] \in Nat
      /\ \A i, j \in 1 .. Len(wanted) : i < j => wanted[j] < wanted[i]
      /\ WantedHeights = {wanted[i] : i \in 1 .. Len(wanted)}
  BY <1>1, WantedFacts
<1>6. ExactWhereRecorded'
  <2> SUFFICES ASSUME NEW h \in WantedHeights,
                      {g \in WantedHeights : g >= h} \subseteq DOMAIN records
               PROVE  relative'[h] = {TradedSince(h)}
    BY <1>3 DEF ExactWhereRecorded
  <2>1. PICK j \in 1 .. Len(wanted) : h = wanted[j] /\ Recorded(j)
    BY <1>1, LatestFirst
  <2> QED
    BY <1>4, <2>1 DEF ExactAtLast
<1>7. Bounded'
  <2> SUFFICES ASSUME NEW h \in WantedHeights, NEW v \in relative'[h]
               PROVE  /\ TradedSince(h) <= v /\ v <= TradedSince(0)
                      /\ \A g \in WantedHeights : \A w \in relative'[g] : g < h => v <= w
    BY <1>3 DEF Bounded
  <2>1. PICK i \in 1 .. Len(wanted) : h = wanted[i]
    BY <1>5
  <2>2. TradedSince(h) <= v /\ v <= TradedSince(0)
    BY <1>4, <2>1 DEF OrderedAtLast
  <2>3. ASSUME NEW g \in WantedHeights, NEW w \in relative'[g], g < h PROVE v <= w
    <3>1. PICK j \in 1 .. Len(wanted) : g = wanted[j]
      BY <1>5
    <3>2. i \in 1 .. j
      <4> SUFFICES ASSUME j < i PROVE FALSE
        OBVIOUS
      <4> QED
        BY <1>5, <2>1, <2>3, <3>1
    <3> QED
      BY <1>4, <2>1, <2>3, <3>1, <3>2 DEF OrderedAtLast
  <2> QED
    BY <2>2, <2>3
<1> QED
  BY <1>2, <1>3, <1>6, <1>7 DEF Inv

LEMMA Stutter == ASSUME Inv, UNCHANGED vars PROVE Inv'
<1>1. UNCHANGED input /\ Input
  BY DEF vars, input, Inv
<1>2. /\ Input' /\ records' = records /\ wanted' = wanted
      /\ Between' = Between /\ WantedHeights' = WantedHeights
      /\ \A h : TradedSince(h)' = TradedSince(h)
      /\ \A j : Recorded(j)' = Recorded(j)
  BY <1>1, Frozen
<1>3. /\ step' = step /\ volumePrices' = volumePrices /\ idx' = idx
      /\ rangeIndex' = rangeIndex /\ prev' = prev /\ priceSum' = priceSum
      /\ relative' = relative
  BY DEF vars
<1>4. Reached' = Reached
  BY <1>3 DEF Reached
<1>5. Fresh' = Fresh /\ Assigned' = Assigned
  BY <1>2, <1>3 DEF Fresh, Assigned
<1>6. Progress' = Progress
  BY <1>2, <1>3, <1>4 DEF Progress, Sorted, TradedSince
<1>7. Ordered' = Ordered
  BY <1>2, <1>3 DEF Ordered
<1>8. Exact' = Exact
  BY <1>2, <1>3 DEF Exact
<1>9. ExactWhereRecorded' = ExactWhereRecorded
  BY <1>2, <1>3 DEF ExactWhereRecorded
<1>10. Bounded' = Bounded
  BY <1>2, <1>3 DEF Bounded
<1> QED
  BY <1>1, <1>2, <1>3, <1>5, <1>6, <1>7, <1>8, <1>9, <1>10 DEF Inv

LEMMA InvHolds == Spec => []Inv
<1>1. Init => Inv
  BY InitInv
<1>2. Inv /\ [Next]_vars => Inv'
  <2> SUFFICES ASSUME Inv, [Next]_vars PROVE Inv'
    OBVIOUS
  <2>1. CASE Fetch
    BY <2>1, FetchNothing, FetchSome
  <2>2. CASE Accumulate
    BY <2>2, TurnPasses, TurnReports
  <2>3. CASE Finish
    BY <2>3, FinishInv
  <2>4. CASE UNCHANGED vars
    BY <2>4, Stutter
  <2> QED
    BY <2>1, <2>2, <2>3, <2>4 DEF Next
<1> QED
  BY <1>1, <1>2, PTL DEF Spec

--------------------------------------------------------------------------------
(* The values                                                              *)

\* A wanted height gets the value traded since it, exactly, if it and every wanted height
\* after it has a record: calculateRelativeVolumeValueCumulatively over any cache.
THEOREM ExactValues == Spec => []ExactWhereRecorded
<1>1. Inv => ExactWhereRecorded
  BY DEF Inv
<1> QED
  BY <1>1, InvHolds, PTL

\* What is set is never less than the value traded since the height nor more than that since
\* the earliest record, and an earlier height is given no less than a later one:
\* calculateRelativeVolumeValueCumulatively where the cache lacks records.
THEOREM BoundedValues == Spec => []Bounded
<1>1. Inv => Bounded
  BY DEF Inv
<1> QED
  BY <1>1, InvHolds, PTL

\* The sum never falls while a call runs: the volumes of older records are not greater, so no
\* turn of calculateRelativeVolumeValueCumulatively subtracts.
THEOREM SumNeverFalls == Spec => [][priceSum' >= priceSum]_vars
<1>1. Inv /\ [Next]_vars => [priceSum' >= priceSum]_vars
  <2> SUFFICES ASSUME Inv, Next PROVE priceSum' >= priceSum \/ UNCHANGED vars
    OBVIOUS
  <2>1. CASE Fetch
    <3>1. priceSum' = priceSum /\ priceSum = 0
      BY <2>1 DEF Fetch, Inv, Fresh
    <3> QED
      BY <3>1
  <2>2. CASE Accumulate
    <3>1. Input /\ Progress /\ Assigned /\ InLoop /\ priceSum' = Sum(records[volumePrices[idx]])
      BY <2>2 DEF Accumulate, Inv
    <3>2. /\ priceSum' = TradedSince(volumePrices[idx])
          /\ priceSum <= TradedSince(volumePrices[idx])
      BY <3>1, SumIsTraded
    <3>3. priceSum \in Int /\ idx \in 1 .. Len(volumePrices)
      BY <3>1, Positions, LoopFacts
    <3>4. TradedSince(volumePrices[idx]) \in Int
      BY <3>1, <3>3, LoopFacts
    <3> QED
      BY <3>2, <3>3, <3>4
  <2>3. CASE Finish
    <3>1. priceSum' = priceSum /\ Input /\ Progress /\ Assigned
      BY <2>3 DEF Finish, Inv
    <3>2. priceSum \in Int
      BY <3>1, LoopFacts
    <3> QED
      BY <3>1, <3>2
  <2> QED
    BY <2>1, <2>2, <2>3 DEF Next
<1> QED
  BY <1>1, InvHolds, PTL DEF Spec

\* How many steps a call has left at most.
Left ==
    IF step = "done" THEN 0
    ELSE IF step = "loop" THEN Len(volumePrices) + 2 - idx
    ELSE Cardinality(Between) + 2

Nearer == Left \in Nat /\ Left' \in Nat /\ Left > Left'

\* Every step brings a call nearer to its end, so it takes at most two more than there are
\* records between the heights: idx++ in calculateRelativeVolumeValueCumulatively is on
\* every path through the loop.
THEOREM CallEnds == Spec => [][Nearer]_vars
<1>1. Inv /\ [Next]_vars => [Nearer]_vars
  <2> SUFFICES ASSUME Inv, Next
               PROVE  Left \in Nat /\ Left' \in Nat /\ Left > Left'
    BY DEF Nearer
  <2>1. Input
    BY DEF Inv
  <2>2. CASE Fetch
    <3> DEFINE n == Cardinality(Between)
    <3>1. Between \in SUBSET Nat /\ IsFiniteSet(Between) /\ n \in Nat
      BY <2>1, BetweenFacts, FS_CardinalityType
    <3>2. Left = n + 2
      BY <2>2 DEF Fetch, Left
    <3>3. idx = 1 /\ idx' = idx
      BY <2>2 DEF Fetch, Inv, Fresh
    <3>4. Left' = 0 \/ Left' = Len(volumePrices') + 2 - idx'
      BY <2>2 DEF Fetch, Left
    <3>5. Len(volumePrices') = n
      <4>1. volumePrices' \in Sorted(Between)
        BY <2>2 DEF Fetch
      <4> QED
        BY <3>1, <4>1, SortedFacts
    <3> HIDE DEF n
    <3> QED
      BY <3>1, <3>2, <3>3, <3>4, <3>5
  <2>3. CASE Accumulate
    <3>1. Input /\ Progress /\ Assigned /\ InLoop
      BY <2>3 DEF Accumulate, Inv
    <3>2. idx \in Nat /\ Len(volumePrices) \in Nat /\ idx \in 1 .. Len(volumePrices)
      BY <3>1, Positions
    <3>3. Left = Len(volumePrices) + 2 - idx
      BY <2>3 DEF Accumulate, Left
    <3>4. Left' = Len(volumePrices) + 2 - (idx + 1)
      BY <2>3 DEF Accumulate, Left
    <3> QED
      BY <3>2, <3>3, <3>4
  <2>4. CASE Finish
    <3>1. Input /\ Progress /\ Assigned
      BY <2>4 DEF Finish, Inv
    <3>2. idx \in Nat /\ Len(volumePrices) \in Nat /\ idx <= Len(volumePrices) + 1
      BY <3>1, LoopFacts
    <3>3. Left = Len(volumePrices) + 2 - idx /\ Left' = 0
      BY <2>4 DEF Finish, Left
    <3> QED
      BY <3>2, <3>3
  <2> QED
    BY <2>2, <2>3, <2>4 DEF Next
<1> QED
  BY <1>1, InvHolds, PTL DEF Spec

================================================================================
