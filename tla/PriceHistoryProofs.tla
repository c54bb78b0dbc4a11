-------------------------- MODULE PriceHistoryProofs --------------------------
(***************************************************************************)
(* Proofs about PriceHistory, for any prices and any bounds: the array of  *)
(* a token is sorted with one price for each time, memory and database     *)
(* tell the same price, an estimate is an interpolation, and the prune     *)
(* keeps the window.                                                       *)
(***************************************************************************)
EXTENDS PriceHistory, FiniteSetTheorems, SequenceTheorems, WellFoundedInduction, TLAPS

--------------------------------------------------------------------------------
(* Positions                                                               *)

\* A set of natural numbers has a least one.
LEMMA Least == ASSUME NEW S \in SUBSET Nat, S # {} PROVE \E m \in S : \A k \in S : m <= k
<1>1. IsWellFoundedOn(OpToRel(<, Nat), Nat)
  BY NatLessThanWellFounded, Zenon
<1>2. PICK m \in S : \A k \in S : ~ (<<k, m>> \in OpToRel(<, Nat))
  BY <1>1, WFMin, Zenon
<1>3. \A k \in S : ~(k < m)
  BY <1>2 DEF OpToRel
<1> QED
  BY <1>3

\* What holds of an index and of all before it takes the first indices of the array.
LEMMA InitialSegment ==
    ASSUME NEW n \in Nat, NEW D \in SUBSET (1 .. n),
           \A j \in D : \A i \in 1 .. n : i < j => i \in D
    PROVE  \E k \in 0 .. n : D = 1 .. k /\ Cardinality(D) = k
<1> DEFINE out == (1 .. n + 1) \ D
<1>1. out \in SUBSET Nat /\ n + 1 \in out
  OBVIOUS
<1>2. PICK m \in out : \A k \in out : m <= k
  BY <1>1, Least
<1>3. m \in 1 .. n + 1 /\ m \notin D
  BY <1>2
<1>4. \A i \in 1 .. m - 1 : i \in D
  <2> SUFFICES ASSUME NEW i \in 1 .. m - 1, i \notin D PROVE FALSE
    OBVIOUS
  <2>1. i \in out /\ i < m
    BY <1>3
  <2> QED
    BY <1>2, <1>3, <2>1
<1>5. \A i \in D : i \in 1 .. m - 1
  <2> SUFFICES ASSUME NEW i \in D, i >= m PROVE FALSE
    BY <1>3
  <2>1. i # m /\ i \in 1 .. n /\ m < i
    BY <1>3
  <2>2. m \in 1 .. n
    BY <1>3, <2>1
  <2> QED
    BY <1>3, <2>1, <2>2
<1>6. D = 1 .. m - 1
  BY <1>3, <1>4, <1>5
<1>7. Cardinality(1 .. m - 1) = m - 1
  <2>1. 1 \in Int /\ m - 1 \in Int /\ m - 1 >= 0
    BY <1>3
  <2>2. Cardinality(1 .. m - 1) = (IF 1 > m - 1 THEN 0 ELSE (m - 1) - 1 + 1)
    BY <2>1, FS_Interval
  <2> QED
    BY <1>3, <2>2
<1>8. m - 1 \in 0 .. n
  BY <1>3
<1> QED
  BY <1>6, <1>7, <1>8

LEMMA Constants1 ==
    /\ Blocks \in Int /\ MaxTime \in Nat /\ MaxTime >= 1
    /\ PruneWindow \in Int /\ PruneWindow >= 0
    /\ \A p \in Quotes : p.at \in 1 .. MaxTime /\ p.at \in Int /\ p.value \in Int /\ p.value \in Values
<1>1. Blocks \in Nat \ {0} /\ MaxTime \in Nat \ {0} /\ Values \subseteq Int
  BY PriceHistoryAssumption
<1>2. \A p \in Quotes : p.at \in 1 .. MaxTime /\ p.value \in Values
  BY DEF Quotes
<1>3. PruneWindow \in Int /\ PruneWindow >= 0
  BY <1>1 DEF PruneWindow
<1>4. ASSUME NEW p \in Quotes PROVE p.at \in Int /\ p.value \in Int
  <2>1. p.at \in 1 .. MaxTime /\ p.value \in Values
    BY <1>2
  <2>2. p.value \in Int
    BY <1>1, <2>1, Zenon
  <2>3. p.at \in Int
    BY <1>1, <2>1
  <2> QED
    BY <2>2, <2>3
<1>5. Blocks \in Int /\ MaxTime \in Nat /\ MaxTime >= 1
  BY <1>1
<1> QED
  BY <1>2, <1>3, <1>4, <1>5

\* An array of quotes, sorted by time.
IsArray(q) == q \in Seq(Quotes) /\ Ascending(q)

LEMMA ArrayFacts ==
    ASSUME NEW q, IsArray(q)
    PROVE  /\ q \in Seq(Quotes) /\ Len(q) \in Nat /\ DOMAIN q = 1 .. Len(q)
           /\ \A i \in 1 .. Len(q) : q[i] \in Quotes /\ q[i].at \in Int
           /\ \A i, j \in 1 .. Len(q) : i < j => q[i].at < q[j].at
           /\ ToSet(q) = {q[i] : i \in 1 .. Len(q)}
<1>1. q \in Seq(Quotes) /\ Len(q) \in Nat /\ DOMAIN q = 1 .. Len(q)
  BY LenProperties DEF IsArray
<1>2. \A i \in 1 .. Len(q) : q[i] \in Quotes
  BY <1>1, ElementOfSeq
<1>3. \A i, j \in 1 .. Len(q) : i < j => q[i].at < q[j].at
  BY <1>1 DEF IsArray, Ascending
<1>4. ToSet(q) = {q[i] : i \in 1 .. Len(q)}
  BY <1>1 DEF ToSet
<1> QED
  BY <1>1, <1>2, <1>3, <1>4, Constants1

\* The position of a time is behind the prices before it, and behind no other.
LEMMA PositionIs ==
    ASSUME NEW q, IsArray(q), NEW t \in Int
    PROVE  /\ Position(q, t) \in 1 .. Len(q) + 1
           /\ \A j \in 1 .. Len(q) : q[j].at < t <=> j < Position(q, t)
<1> DEFINE D == {j \in DOMAIN q : q[j].at < t}
<1>1. /\ Len(q) \in Nat /\ DOMAIN q = 1 .. Len(q)
      /\ \A i \in 1 .. Len(q) : q[i].at \in Int
      /\ \A i, j \in 1 .. Len(q) : i < j => q[i].at < q[j].at
  BY ArrayFacts
<1>2. D \in SUBSET (1 .. Len(q)) /\ \A j \in D : \A i \in 1 .. Len(q) : i < j => i \in D
  <2> SUFFICES ASSUME NEW j \in D, NEW i \in 1 .. Len(q), i < j PROVE q[i].at < t
    BY <1>1
  <2>1. q[i].at < q[j].at /\ q[j].at < t /\ q[i].at \in Int /\ q[j].at \in Int
    BY <1>1
  <2> QED
    BY <2>1
<1>3. PICK k \in 0 .. Len(q) : D = 1 .. k /\ Cardinality(D) = k
  BY <1>1, <1>2, InitialSegment
<1>4. Position(q, t) = 1 + k
  BY <1>3 DEF Position
<1>5. \A j \in 1 .. Len(q) : q[j].at < t <=> j \in D
  BY <1>1
<1> HIDE DEF D
<1> QED
  BY <1>1, <1>3, <1>4, <1>5

\* A time with a price has it at its position.
LEMMA FoundIs ==
    ASSUME NEW q, IsArray(q), NEW t \in Int
    PROVE  /\ Found(q, t) => Position(q, t) \in 1 .. Len(q) /\ q[Position(q, t)].at = t
           /\ ~Found(q, t) => \A j \in 1 .. Len(q) : q[j].at # t
<1>1. /\ Len(q) \in Nat /\ \A i \in 1 .. Len(q) : q[i].at \in Int
      /\ \A i, j \in 1 .. Len(q) : i < j => q[i].at < q[j].at
      /\ ToSet(q) = {q[i] : i \in 1 .. Len(q)}
  BY ArrayFacts
<1>2. /\ Position(q, t) \in 1 .. Len(q) + 1
      /\ \A j \in 1 .. Len(q) : q[j].at < t <=> j < Position(q, t)
  BY PositionIs
<1>3. Found(q, t) <=> \E j \in 1 .. Len(q) : q[j].at = t
  BY <1>1 DEF Found, Times
<1>4. ASSUME NEW j \in 1 .. Len(q), q[j].at = t
      PROVE  Position(q, t) = j
  <2> DEFINE i == Position(q, t)
  <2>1. ~(j < i)
    BY <1>1, <1>2, <1>4
  <2>2. i \in 1 .. Len(q) /\ ~(q[i].at < t)
    BY <1>1, <1>2, <2>1
  <2>3. ~(i < j)
    BY <1>1, <1>4, <2>2
  <2> HIDE DEF i
  <2> QED
    BY <1>1, <1>2, <2>1, <2>2, <2>3 DEF i
<1> QED
  BY <1>3, <1>4

--------------------------------------------------------------------------------
(* PriceMap.Set                                                            *)

\* What is inserted is at its place, what was behind it one further.
LEMMA InsertAtFacts ==
    ASSUME NEW q \in Seq(Quotes), NEW i \in 1 .. Len(q) + 1, NEW p \in Quotes
    PROVE  LET r == InsertAt(q, i, p)
           IN  /\ r \in Seq(Quotes) /\ Len(r) = Len(q) + 1
               /\ \A j \in 1 .. Len(q) + 1 :
                     r[j] = IF j < i THEN q[j] ELSE IF j = i THEN p ELSE q[j - 1]
<1> DEFINE before == SubSeq(q, 1, i - 1)
           after == SubSeq(q, i, Len(q))
           front == before \o <<p>>
           r == front \o after
<1>1. /\ Len(q) \in Nat /\ i \in Nat /\ 1 <= i /\ i <= Len(q) + 1
      /\ \A j \in 1 .. Len(q) : q[j] \in Quotes
  BY LenProperties, ElementOfSeq
<1>2. /\ before \in Seq(Quotes) /\ Len(before) = i - 1
      /\ \A j \in 1 .. i - 1 : before[j] = q[j]
  <2>1. \A j \in 1 .. i - 1 : q[j] \in Quotes
    BY <1>1
  <2>2. i - 1 \in Int /\ 1 \in Int
    BY <1>1
  <2>3. /\ before \in Seq(Quotes) /\ Len(before) = (IF 1 <= i - 1 THEN (i - 1) - 1 + 1 ELSE 0)
        /\ \A j \in 1 .. (i - 1) - 1 + 1 : before[j] = q[1 + j - 1]
    BY <2>1, <2>2, SubSeqProperties
  <2>4. (i - 1) - 1 + 1 = i - 1 /\ \A j \in 1 .. i - 1 : 1 + j - 1 = j
    BY <1>1
  <2>5. (IF 1 <= i - 1 THEN (i - 1) - 1 + 1 ELSE 0) = i - 1
    BY <1>1
  <2> HIDE DEF before
  <2> QED
    BY <2>3, <2>4, <2>5
<1>3. /\ after \in Seq(Quotes) /\ Len(after) = Len(q) + 1 - i
      /\ \A j \in 1 .. Len(q) + 1 - i : after[j] = q[i + j - 1]
  <2>1. \A j \in i .. Len(q) : q[j] \in Quotes
    BY <1>1
  <2>2. i \in Int /\ Len(q) \in Int
    BY <1>1
  <2>3. /\ after \in Seq(Quotes)
        /\ Len(after) = (IF i <= Len(q) THEN Len(q) - i + 1 ELSE 0)
        /\ \A j \in 1 .. Len(q) - i + 1 : after[j] = q[i + j - 1]
    BY <2>1, <2>2, SubSeqProperties
  <2>4. Len(q) - i + 1 = Len(q) + 1 - i
    BY <1>1
  <2>5. (IF i <= Len(q) THEN Len(q) - i + 1 ELSE 0) = Len(q) + 1 - i
    BY <1>1
  <2> HIDE DEF after
  <2> QED
    BY <2>3, <2>4, <2>5
<1>4. InsertAt(q, i, p) = r
  BY DEF InsertAt
<1> HIDE DEF before, after
<1>5. /\ <<p>> \in Seq(Quotes) /\ Len(<<p>>) = 1 /\ <<p>>[1] = p
  OBVIOUS
<1>6. /\ front \in Seq(Quotes) /\ Len(front) = i
      /\ \A j \in 1 .. i : front[j] = IF j < i THEN q[j] ELSE p
  <2>1. /\ front \in Seq(Quotes) /\ Len(front) = Len(before) + 1
        /\ \A j \in 1 .. Len(before) + 1 :
              front[j] = IF j <= Len(before) THEN before[j] ELSE <<p>>[j - Len(before)]
    BY <1>2, <1>5, ConcatProperties
  <2>2. Len(before) + 1 = i
    BY <1>1, <1>2
  <2> HIDE DEF front
  <2>3. ASSUME NEW j \in 1 .. i PROVE front[j] = IF j < i THEN q[j] ELSE p
    <3>1. front[j] = IF j <= i - 1 THEN before[j] ELSE <<p>>[j - (i - 1)]
      BY <1>2, <2>1, <2>2
    <3>2. CASE j < i
      BY <1>1, <1>2, <3>1, <3>2
    <3>3. CASE ~(j < i)
      <4>1. j - (i - 1) = 1 /\ ~(j <= i - 1)
        BY <1>1, <3>3
      <4> QED
        BY <1>5, <3>1, <3>3, <4>1
    <3> QED
      BY <3>2, <3>3
  <2> QED
    BY <2>1, <2>2, <2>3
<1> HIDE DEF front
<1>7. /\ r \in Seq(Quotes) /\ Len(r) = Len(front) + Len(after)
      /\ \A j \in 1 .. Len(front) + Len(after) :
            r[j] = IF j <= Len(front) THEN front[j] ELSE after[j - Len(front)]
  BY <1>3, <1>6, ConcatProperties
<1> HIDE DEF r
<1>8. Len(front) + Len(after) = Len(q) + 1
  BY <1>1, <1>3, <1>6
<1>9. ASSUME NEW j \in 1 .. Len(q) + 1
      PROVE  r[j] = IF j < i THEN q[j] ELSE IF j = i THEN p ELSE q[j - 1]
  <2>1. j \in Nat /\ j >= 1 /\ j <= Len(q) + 1
    BY <1>1
  <2>2. r[j] = IF j <= i THEN front[j] ELSE after[j - i]
    BY <1>6, <1>7, <1>8
  <2>3. CASE j <= i
    <3>1. j \in 1 .. i
      BY <1>1, <2>1, <2>3
    <3> QED
      BY <1>1, <1>6, <2>1, <2>2, <2>3, <3>1
  <2>4. CASE ~(j <= i)
    <3>1. j - i \in 1 .. Len(q) + 1 - i /\ i + (j - i) - 1 = j - 1 /\ ~(j < i) /\ j # i
      BY <1>1, <2>1, <2>4
    <3> QED
      BY <1>3, <2>2, <2>4, <3>1
  <2> QED
    BY <2>3, <2>4
<1> QED
  BY <1>4, <1>7, <1>8, <1>9

\* A quote takes the place of the one of its time, or its own between the others: the
\* array stays sorted, and the prices of other times stay in it.
LEMMA InsertFacts ==
    ASSUME NEW q, IsArray(q), NEW p \in Quotes
    PROVE  /\ IsArray(Insert(q, p))
           /\ p \in ToSet(Insert(q, p))
           /\ \A r \in ToSet(q) : r.at # p.at => r \in ToSet(Insert(q, p))
           /\ \A r \in ToSet(Insert(q, p)) : r = p \/ r \in ToSet(q)
<1> DEFINE i == Position(q, p.at)
           n == Len(q)
<1>1. /\ q \in Seq(Quotes) /\ n \in Nat /\ DOMAIN q = 1 .. n
      /\ \A j \in 1 .. n : q[j] \in Quotes /\ q[j].at \in Int
      /\ \A j, k \in 1 .. n : j < k => q[j].at < q[k].at
      /\ ToSet(q) = {q[j] : j \in 1 .. n}
  BY ArrayFacts
<1>2. p.at \in Int
  BY Constants1
<1>3. i \in 1 .. n + 1 /\ \A j \in 1 .. n : q[j].at < p.at <=> j < i
  BY <1>2, PositionIs
<1>4. /\ Found(q, p.at) => i \in 1 .. n /\ q[i].at = p.at
      /\ ~Found(q, p.at) => \A j \in 1 .. n : q[j].at # p.at
  BY <1>2, FoundIs
<1>5. CASE Found(q, p.at)
  <2> DEFINE r == [q EXCEPT ![i] = p]
  <2>1. Insert(q, p) = r
    BY <1>5 DEF Insert
  <2>2. i \in 1 .. n /\ q[i].at = p.at
    BY <1>4, <1>5
  <2> HIDE DEF i, n
  <2>3. /\ r \in Seq(Quotes) /\ Len(r) = n /\ DOMAIN r = 1 .. n
        /\ \A j \in 1 .. n : r[j] = IF j = i THEN p ELSE q[j]
    <3>1. r \in Seq(Quotes) /\ Len(r) = Len(q) /\ \A j \in 1 .. Len(q) : r[j] = IF j = i THEN p ELSE q[j]
      BY <1>1, <2>2, ExceptSeq DEF n
    <3> QED
      BY <3>1, LenProperties DEF n
  <2> HIDE DEF r
  <2>4. \A j \in 1 .. n : r[j].at = q[j].at
    BY <2>2, <2>3
  <2>5. IsArray(r)
    BY <1>1, <2>3, <2>4 DEF IsArray, Ascending
  <2>6. ToSet(r) = {r[j] : j \in 1 .. n}
    BY <2>3 DEF ToSet
  <2>7. \A s \in ToSet(q) : s.at # p.at => s \in ToSet(r)
    BY <1>1, <2>2, <2>3, <2>6
  <2>8. p \in ToSet(r)
    BY <2>2, <2>3, <2>6
  <2>9. \A s \in ToSet(r) : s = p \/ s \in ToSet(q)
    BY <1>1, <2>3, <2>6
  <2> QED
    BY <2>1, <2>5, <2>7, <2>8, <2>9
<1>6. CASE ~Found(q, p.at)
  <2> DEFINE r == InsertAt(q, i, p)
  <2>1. Insert(q, p) = r
    BY <1>6 DEF Insert
  <2>2. \A j \in 1 .. n : q[j].at # p.at
    BY <1>4, <1>6
  <2> HIDE DEF i
  <2>3. /\ r \in Seq(Quotes) /\ Len(r) = n + 1
        /\ \A j \in 1 .. n + 1 :
              r[j] = IF j < i THEN q[j] ELSE IF j = i THEN p ELSE q[j - 1]
    BY <1>1, <1>3, InsertAtFacts
  <2> HIDE DEF r, n
  <2>4. DOMAIN r = 1 .. n + 1
    BY <2>3, LenProperties
  <2>5. ASSUME NEW j \in 1 .. n + 1
        PROVE  /\ j < i => j \in 1 .. n /\ r[j] = q[j] /\ q[j].at < p.at
               /\ j = i => r[j] = p
               /\ j > i => j - 1 \in 1 .. n /\ r[j] = q[j - 1] /\ p.at < q[j - 1].at
    <3>1. CASE j < i
      <4>1. j \in 1 .. n /\ r[j] = q[j]
        BY <1>1, <1>3, <2>3, <3>1
      <4> QED
        BY <1>1, <1>3, <3>1, <4>1
    <3>2. CASE j = i
      BY <1>1, <1>3, <2>3, <3>2
    <3>3. CASE j > i
      <4>1. j - 1 \in 1 .. n /\ r[j] = q[j - 1] /\ ~(j - 1 < i)
        BY <1>1, <1>3, <2>3, <3>3
      <4>2. q[j - 1].at # p.at /\ ~(q[j - 1].at < p.at) /\ q[j - 1].at \in Int
        BY <1>1, <1>3, <2>2, <4>1
      <4> QED
        BY <1>1, <1>2, <1>3, <3>3, <4>1, <4>2
    <3> QED
      BY <1>1, <1>3, <3>1, <3>2, <3>3
  <2>6. ASSUME NEW j \in 1 .. n + 1, NEW k \in 1 .. n + 1, j < k
        PROVE  r[j].at < r[k].at
    <3>0. j \in Int /\ k \in Int /\ i \in Int
      BY <1>1, <1>3
    <3>1. CASE k < i
      <4>1. j < i
        BY <2>6, <3>0, <3>1
      <4> QED
        BY <1>1, <2>5, <2>6, <3>1, <4>1
    <3>2. CASE k = i
      <4>1. j < i
        BY <2>6, <3>0, <3>2
      <4> QED
        BY <1>1, <2>5, <2>6, <3>2, <4>1
    <3>3. CASE k > i /\ j < i
      <4>1. r[j] = q[j] /\ q[j].at < p.at /\ j \in 1 .. n
        BY <2>5, <3>3
      <4>2. r[k] = q[k - 1] /\ p.at < q[k - 1].at /\ k - 1 \in 1 .. n
        BY <2>5, <3>3
      <4> QED
        BY <1>1, <1>2, <4>1, <4>2
    <3>4. CASE k > i /\ j = i
      <4>1. r[k] = q[k - 1] /\ p.at < q[k - 1].at /\ r[j] = p
        BY <2>5, <3>4
      <4> QED
        BY <4>1
    <3>5. CASE k > i /\ j > i
      <4>1. r[k] = q[k - 1] /\ k - 1 \in 1 .. n /\ r[j] = q[j - 1] /\ j - 1 \in 1 .. n
        BY <2>5, <3>5
      <4>2. j - 1 < k - 1
        BY <2>6, <3>0
      <4> QED
        BY <1>1, <4>1, <4>2
    <3> QED
      BY <3>0, <3>1, <3>2, <3>3, <3>4, <3>5
  <2>7. IsArray(r)
    BY <2>3, <2>4, <2>6 DEF IsArray, Ascending
  <2>8. ToSet(r) = {r[j] : j \in 1 .. n + 1}
    BY <2>4 DEF ToSet
  <2>9. p \in ToSet(r)
    <3>1. i \in 1 .. n + 1 /\ r[i] = p
      BY <1>3, <2>5
    <3> QED
      BY <2>8, <3>1
  <2>10. \A s \in ToSet(q) : s \in ToSet(r)
    <3> SUFFICES ASSUME NEW j \in 1 .. n PROVE \E k \in 1 .. n + 1 : r[k] = q[j]
      BY <1>1, <2>8
    <3>1. CASE j < i
      <4>1. j \in 1 .. n + 1
        BY <1>1
      <4> QED
        BY <2>5, <3>1, <4>1
    <3>2. CASE ~(j < i)
      <4>1. j + 1 \in 1 .. n + 1 /\ j + 1 > i /\ (j + 1) - 1 = j
        BY <1>1, <1>3, <3>2
      <4> QED
        BY <2>5, <4>1
    <3> QED
      BY <3>1, <3>2
  <2>11. \A s \in ToSet(r) : s = p \/ s \in ToSet(q)
    <3> SUFFICES ASSUME NEW k \in 1 .. n + 1 PROVE r[k] = p \/ \E j \in 1 .. n : r[k] = q[j]
      BY <1>1, <2>8
    <3>1. k < i \/ k = i \/ k > i
      BY <1>1, <1>3
    <3> QED
      BY <2>5, <3>1
  <2> QED
    BY <2>1, <2>7, <2>9, <2>10, <2>11
<1> QED
  BY <1>5, <1>6

--------------------------------------------------------------------------------
(* The invariant                                                           *)

\* No quote is of the future, the quote being saved is in the array, and a process that
\* ended holds nothing.
SavedInv ==
    /\ \A p \in table \cup feed : p.at <= now
    /\ feed \subseteq ToSet(prices)
    /\ process = "off" => feed = {} /\ prices = <<>>

HistoryInv == TypeOK /\ SavedInv /\ CacheMatchesTable

\* What the types say, for the steps.
LEMMA Before ==
    ASSUME TypeOK
    PROVE  /\ now \in 1 .. MaxTime /\ now \in Int /\ 1 <= now /\ now <= MaxTime
           /\ process \in {"up", "off"} /\ IsArray(prices)
           /\ table \subseteq Quotes /\ feed \subseteq Quotes
           /\ \A p, q \in table : p.at = q.at => p = q
           /\ \A p, q \in feed : p = q
           /\ anchor \in 0 .. now /\ pruned \in 0 .. now
           /\ unsaved \subseteq 1 .. MaxTime
           /\ failures \in 0 .. MaxFailures /\ stops \in 0 .. MaxStops
           /\ MaxFailures \in Nat /\ MaxStops \in Nat
<1>1. now \in Int /\ 1 <= now /\ now <= MaxTime
  BY Constants1 DEF TypeOK
<1> QED
  BY <1>1, PriceHistoryAssumption DEF TypeOK, IsArray

\* The array of the rows a process loads has them all.
LEMMA ArraysFacts ==
    ASSUME NEW S \in SUBSET Quotes, IsFiniteSet(S), NEW arr \in Arrays(S)
    PROVE  IsArray(arr) /\ ToSet(arr) = S
<1> DEFINE n == Cardinality(S)
<1>1. n \in Nat
  BY FS_CardinalityType
<1>2. arr \in [1 .. n -> S] /\ Ascending(arr) /\ DOMAIN arr = 1 .. n
  BY DEF Arrays
<1>3. IsFiniteSet(1 .. n) /\ Cardinality(1 .. n) = n
  <2>1. 1 \in Int /\ n \in Int /\ n >= 0
    BY <1>1
  <2>2. IsFiniteSet(1 .. n) /\ Cardinality(1 .. n) = (IF 1 > n THEN 0 ELSE n - 1 + 1)
    BY <2>1, FS_Interval
  <2> QED
    BY <1>1, <2>2
<1> HIDE DEF n
<1>4. arr \in Injection(1 .. n, S)
  <2> SUFFICES ASSUME NEW i \in 1 .. n, NEW j \in 1 .. n, arr[i] = arr[j] PROVE i = j
    BY <1>2 DEF Injection, IsInjective
  <2>1. arr[i] \in Quotes /\ arr[i].at \in Int /\ arr[j].at = arr[i].at
    BY <1>2, Constants1
  <2>2. i < j => arr[i].at < arr[j].at
    BY <1>2 DEF Ascending
  <2>3. j < i => arr[j].at < arr[i].at
    BY <1>2 DEF Ascending
  <2> QED
    BY <1>1, <2>1, <2>2, <2>3
<1>5. arr \in Surjection(1 .. n, S)
  BY <1>3, <1>4, FS_Injection DEF n
<1>6. ToSet(arr) = S
  BY <1>2, <1>5 DEF Surjection, ToSet
<1>7. arr \in Seq(Quotes)
  <2>1. arr \in [1 .. n -> Quotes]
    BY <1>2
  <2> QED
    BY <1>1, <2>1
<1> QED
  BY <1>2, <1>6, <1>7 DEF IsArray

\* With one row for each time, the table is finite.
LEMMA TableFinite == ASSUME TypeOK, NEW S \in SUBSET table PROVE IsFiniteSet(S)
<1> DEFINE f == [p \in table |-> p.at]
<1>1. f \in Injection(table, 1 .. MaxTime)
  <2>1. \A p \in table : p.at \in 1 .. MaxTime
    BY Before, Constants1
  <2>2. f \in [table -> 1 .. MaxTime]
    BY <2>1
  <2>3. \A p, q \in table : f[p] = f[q] => p = q
    BY Before
  <2> QED
    BY <2>2, <2>3 DEF Injection, IsInjective
<1>2. IsFiniteSet(1 .. MaxTime)
  <2>1. 1 \in Int /\ MaxTime \in Int
    BY Constants1
  <2> QED
    BY <2>1, FS_Interval
<1>3. IsFiniteSet(table)
  BY <1>1, <1>2, FS_Injection
<1> QED
  BY <1>3, FS_Subset

\* Time passes, a first block comes.
LEMMA ClockSteps == ASSUME HistoryInv, Tick \/ FirstBlock PROVE HistoryInv'
<1>0. TypeOK /\ SavedInv /\ CacheMatchesTable
  BY DEF HistoryInv
<1>1. /\ UNCHANGED <<process, prices, table, feed, pruned, since, unsaved, failures, stops>>
      /\ now' \in 1 .. MaxTime /\ now' >= now
      /\ anchor' \in 0 .. now'
  <2>1. CASE Tick
    BY <1>0, <2>1, Before, Constants1 DEF Tick
  <2>2. CASE FirstBlock
    BY <1>0, <2>2, Before, Constants1 DEF FirstBlock
  <2> QED
    BY <2>1, <2>2
<1>2. pruned' \in 0 .. now'
  BY <1>0, <1>1, Before, Constants1
<1>3. TypeOK'
  BY <1>0, <1>1, <1>2 DEF TypeOK, Ascending
<1>4. SavedInv'
  <2>1. \A p \in table \cup feed : p.at \in Int /\ p.at <= now
    BY <1>0, Before, Constants1 DEF SavedInv
  <2>2. now' \in Int /\ now \in Int
    BY <1>0, <1>1, Before, Constants1
  <2> QED
    BY <1>0, <1>1, <2>1, <2>2 DEF SavedInv, ToSet
<1>5. CacheMatchesTable'
  BY <1>0, <1>1 DEF CacheMatchesTable, ToSet
<1> QED
  BY <1>3, <1>4, <1>5 DEF HistoryInv

LEMMA QuoteStep == ASSUME HistoryInv, NEW p \in Quotes, SetLatestPrice(p) PROVE HistoryInv'
<1>0. TypeOK /\ SavedInv /\ CacheMatchesTable
  BY DEF HistoryInv
<1>1. /\ process = "up" /\ p.at <= now /\ prices' = Insert(prices, p) /\ feed' = {p}
      /\ unsaved' = unsaved \cup {p.at}
      /\ UNCHANGED <<now, process, table, anchor, pruned, since, failures, stops>>
  BY DEF SetLatestPrice
<1>2. /\ IsArray(prices') /\ p \in ToSet(prices')
      /\ \A r \in ToSet(prices) : r.at # p.at => r \in ToSet(prices')
  BY <1>0, <1>1, Before, InsertFacts
<1>3. TypeOK'
  <2>1. p.at \in 1 .. MaxTime
    BY Constants1
  <2> QED
    BY <1>0, <1>1, <1>2, <2>1 DEF TypeOK, IsArray
<1>4. SavedInv'
  BY <1>0, <1>1, <1>2 DEF SavedInv
<1>5. CacheMatchesTable'
  <2> SUFFICES ASSUME NEW r \in table, r.at >= since
               PROVE  \E q \in ToSet(prices') :
                         q.at = r.at /\ (q.value = r.value \/ r.at \in unsaved')
    BY <1>1 DEF CacheMatchesTable
  <2>1. PICK q \in ToSet(prices) : q.at = r.at /\ (q.value = r.value \/ r.at \in unsaved)
    BY <1>0, <1>1 DEF CacheMatchesTable
  <2>2. CASE r.at = p.at
    BY <1>1, <1>2, <2>2
  <2>3. CASE r.at # p.at
    BY <1>1, <1>2, <2>1, <2>3
  <2> QED
    BY <2>2, <2>3
<1> QED
  BY <1>3, <1>4, <1>5 DEF HistoryInv

LEMMA SaveSteps == ASSUME HistoryInv, SaveTokenPrice \/ SaveFails PROVE HistoryInv'
<1>0. TypeOK /\ SavedInv /\ CacheMatchesTable
  BY DEF HistoryInv
<1>1. CASE SaveTokenPrice
  <2>1. PICK p \in feed : table' = {r \in table : r.at # p.at} \cup {p} /\ unsaved' = unsaved \ {p.at}
    BY <1>1 DEF SaveTokenPrice, Saved
  <2>2. feed' = {} /\ UNCHANGED <<now, process, prices, anchor, pruned, since, failures, stops>>
    BY <1>1 DEF SaveTokenPrice
  <2>3. p \in Quotes /\ p \in ToSet(prices) /\ p.at <= now
    BY <1>0, Before DEF SavedInv
  <2>4. TypeOK'
    <3>1. table' \subseteq Quotes /\ \A q, r \in table' : q.at = r.at => q = r
      BY <1>0, <2>1, <2>3, Before
    <3> QED
      BY <1>0, <2>1, <2>2, <3>1 DEF TypeOK, Ascending
  <2>5. SavedInv'
    BY <1>0, <2>1, <2>2, <2>3 DEF SavedInv, ToSet
  <2>6. CacheMatchesTable'
    <3> SUFFICES ASSUME process = "up", NEW r \in table', r.at >= since
                 PROVE  \E q \in ToSet(prices) :
                           q.at = r.at /\ (q.value = r.value \/ r.at \in unsaved')
      BY <2>2 DEF CacheMatchesTable, ToSet
    <3>1. CASE r = p
      BY <2>3, <3>1
    <3>2. CASE r # p
      <4>1. r \in table /\ r.at # p.at
        BY <2>1, <3>2
      <4>2. PICK q \in ToSet(prices) : q.at = r.at /\ (q.value = r.value \/ r.at \in unsaved)
        BY <1>0, <4>1 DEF CacheMatchesTable
      <4> QED
        BY <2>1, <4>1, <4>2
    <3> QED
      BY <3>1, <3>2
  <2> QED
    BY <2>4, <2>5, <2>6 DEF HistoryInv
<1>2. CASE SaveFails
  <2>1. /\ feed' = {} /\ failures < MaxFailures /\ failures' = failures + 1
        /\ UNCHANGED <<now, process, prices, table, anchor, pruned, since, unsaved, stops>>
    BY <1>2 DEF SaveFails
  <2>2. failures' \in 0 .. MaxFailures
    BY <1>0, <2>1, Before
  <2>3. TypeOK'
    BY <1>0, <2>1, <2>2 DEF TypeOK, Ascending
  <2>4. SavedInv' /\ CacheMatchesTable'
    BY <1>0, <2>1 DEF SavedInv, CacheMatchesTable, ToSet
  <2> QED
    BY <2>3, <2>4 DEF HistoryInv
<1> QED
  BY <1>1, <1>2

LEMMA PruneStep == ASSUME HistoryInv, Prune PROVE HistoryInv'
<1>0. TypeOK /\ SavedInv /\ CacheMatchesTable
  BY DEF HistoryInv
<1>1. /\ pruned' = now /\ table' \subseteq table
      /\ UNCHANGED <<now, process, prices, feed, anchor, since, unsaved, stops>>
      /\ failures' = failures \/ (failures < MaxFailures /\ failures' = failures + 1)
  BY DEF Prune
<1>2. failures' \in 0 .. MaxFailures
  <2>1. failures \in 0 .. MaxFailures /\ MaxFailures \in Nat
    BY <1>0, Before
  <2>2. CASE failures' = failures
    BY <2>1, <2>2
  <2>3. CASE failures < MaxFailures /\ failures' = failures + 1
    BY <2>1, <2>3
  <2> QED
    BY <1>1, <2>2, <2>3
<1>3. pruned' \in 0 .. now
  BY <1>0, <1>1, Before
<1>4. TypeOK'
  BY <1>0, <1>1, <1>2, <1>3 DEF TypeOK, Ascending
<1>5. SavedInv' /\ CacheMatchesTable'
  BY <1>0, <1>1 DEF SavedInv, CacheMatchesTable, ToSet
<1> QED
  BY <1>4, <1>5 DEF HistoryInv

LEMMA StopStep == ASSUME HistoryInv, Stop PROVE HistoryInv'
<1>0. TypeOK /\ SavedInv
  BY DEF HistoryInv
<1>1. /\ stops < MaxStops /\ stops' = stops + 1 /\ process' = "off" /\ prices' = <<>>
      /\ feed' = {} /\ anchor' = 0
      /\ UNCHANGED <<now, table, pruned, since, unsaved, failures>>
  BY DEF Stop
<1>2. stops' \in 0 .. MaxStops /\ anchor' \in 0 .. now
  BY <1>0, <1>1, Before
<1>3. prices' \in Seq(Quotes) /\ Ascending(prices')
  BY <1>1 DEF Ascending
<1>4. TypeOK'
  BY <1>0, <1>1, <1>2, <1>3 DEF TypeOK
<1>5. SavedInv' /\ CacheMatchesTable'
  BY <1>0, <1>1 DEF SavedInv, CacheMatchesTable
<1> QED
  BY <1>4, <1>5 DEF HistoryInv

\* A process that loads the rows of its window covers the time from the first of them;
\* one whose load fails covers what comes.
LEMMA StartStep == ASSUME HistoryInv, Start PROVE HistoryInv'
<1>0. TypeOK /\ SavedInv
  BY DEF HistoryInv
<1>1. /\ process = "off" /\ process' = "up" /\ feed = {} /\ prices = <<>>
      /\ UNCHANGED <<now, table, feed, anchor, pruned, unsaved, stops>>
  BY <1>0 DEF Start, SavedInv
<1>2. now \in Int /\ Blocks \in Int /\ \A r \in table : r.at \in Int /\ r.at <= now
  BY <1>0, Before, Constants1 DEF SavedInv
<1>3. ASSUME IsArray(prices'), failures' \in 0 .. MaxFailures,
             \A r \in table : r.at >= since' => r \in ToSet(prices')
      PROVE  HistoryInv'
  <2>1. TypeOK'
    BY <1>0, <1>1, <1>3 DEF TypeOK, IsArray
  <2>2. SavedInv'
    BY <1>0, <1>1 DEF SavedInv
  <2>3. CacheMatchesTable'
    BY <1>1, <1>3 DEF CacheMatchesTable
  <2> QED
    BY <2>1, <2>2, <2>3 DEF HistoryInv
<1> DEFINE S == {p \in table : p.at \in now - Blocks .. now}
<1>4. CASE /\ \E arr \in Arrays(S) : prices' = arr
           /\ since' = now - Blocks
           /\ UNCHANGED failures
  <2>1. S \in SUBSET Quotes /\ IsFiniteSet(S)
    BY <1>0, Before, TableFinite
  <2>2. \A r \in table : r.at >= since' => r \in S
    BY <1>2, <1>4
  <2> HIDE DEF S
  <2>3. IsArray(prices') /\ ToSet(prices') = S
    BY <1>4, <2>1, ArraysFacts
  <2>4. failures' \in 0 .. MaxFailures
    BY <1>0, <1>4, Before
  <2> QED
    BY <1>3, <2>2, <2>3, <2>4
<1>5. CASE /\ failures < MaxFailures
           /\ failures' = failures + 1
           /\ since' = now + 1
           /\ UNCHANGED prices
  <2>1. IsArray(prices')
    BY <1>0, <1>5, Before DEF IsArray, Ascending
  <2>2. failures' \in 0 .. MaxFailures
    BY <1>0, <1>5, Before
  <2>3. \A r \in table : ~(r.at >= since')
    BY <1>2, <1>5
  <2> QED
    BY <1>3, <2>1, <2>2, <2>3
<1> QED
  BY <1>4, <1>5 DEF Start

LEMMA HistoryInit == Init => HistoryInv
<1> SUFFICES ASSUME Init PROVE HistoryInv
  OBVIOUS
<1>1. MaxTime \in Nat /\ 1 \in 1 .. MaxTime /\ MaxFailures \in Nat /\ MaxStops \in Nat
  BY Constants1, PriceHistoryAssumption
<1>2. <<>> \in Seq(Quotes) /\ Ascending(<<>>)
  BY DEF Ascending
<1>3. TypeOK
  BY <1>1, <1>2 DEF Init, TypeOK
<1> QED
  BY <1>3 DEF Init, HistoryInv, SavedInv, CacheMatchesTable

LEMMA HistoryNext == HistoryInv /\ [Next]_vars => HistoryInv'
<1> SUFFICES ASSUME HistoryInv, [Next]_vars PROVE HistoryInv'
  OBVIOUS
<1>1. CASE UNCHANGED vars
  BY <1>1 DEF vars, HistoryInv, TypeOK, Ascending, SavedInv, CacheMatchesTable, ToSet
<1>2. CASE Next
  BY <1>2, ClockSteps, QuoteStep, SaveSteps, PruneStep, StopStep, StartStep DEF Next
<1> QED
  BY <1>1, <1>2

LEMMA HistoryInvariant == Spec => []HistoryInv
  BY HistoryInit, HistoryNext, PTL DEF Spec

\* The array of the token stays sorted by time with one price for each, in whatever order
\* the quotes come, and the table has one row for each time (PriceMap.Set, SaveTokenPrice).
THEOREM TypeCorrect == Spec => []TypeOK
<1>1. HistoryInv => TypeOK
  BY DEF HistoryInv
<1> QED
  BY <1>1, HistoryInvariant, PTL

\* Every row of the time a process covers is in its array with the same value, unless the
\* latest quote of that time is not saved (SetLatestPrice, preHeatPrices, pricesPrune).
THEOREM CacheHasTable == Spec => []CacheMatchesTable
<1>1. HistoryInv => CacheMatchesTable
  BY DEF HistoryInv
<1> QED
  BY <1>1, HistoryInvariant, PTL

\* No step takes a price of the blocks the indexer keeps out of the table: what the prune
\* counts from is the time of a block, never later than now (pricesPrune).
THEOREM WindowIsKept == Spec => WindowKept
<1>1. HistoryInv /\ [Next]_vars
        => [\A t \in Times(table) \ Times(table') : t < now - PruneWindow]_vars
  <2> SUFFICES ASSUME HistoryInv, Next, NEW p \in table, p.at \notin Times(table')
               PROVE  p.at < now - PruneWindow
    BY DEF Times
  <2>1. p \notin table'
    BY DEF Times
  <2>2. ~SaveTokenPrice
    <3> SUFFICES ASSUME SaveTokenPrice PROVE FALSE
      OBVIOUS
    <3>1. PICK q \in feed : table' = {r \in table : r.at # q.at} \cup {q}
      BY DEF SaveTokenPrice, Saved
    <3> QED
      BY <2>1, <3>1 DEF Times
  <2>3. Prune
    BY <2>1, <2>2 DEF Next, Tick, SetLatestPrice, SaveFails, FirstBlock, Stop, Start
  <2>4. ~(p.at >= anchor - PruneWindow)
    BY <2>1, <2>3 DEF Prune, MinLastUpdated
  <2>5. p.at \in Int /\ anchor \in Int /\ anchor <= now /\ now \in Int /\ PruneWindow \in Int
    BY Before, Constants1 DEF HistoryInv
  <2> QED
    BY <2>4, <2>5
<1> QED
  BY <1>1, HistoryInvariant, PTL DEF Spec, WindowKept

--------------------------------------------------------------------------------
(* PriceMap.Estimate                                                       *)

LEMMA EstimateOfNone ==
    ASSUME NEW q, NEW t, Nearest(q, t) = <<>>
    PROVE  Estimate(q, t) = [num |-> 0, den |-> 1, error |-> TooFar]
  BY DEF Estimate

LEMMA EstimateOfOne ==
    ASSUME NEW q, NEW t, NEW p, Nearest(q, t) = <<p>>
    PROVE  Estimate(q, t) = [num |-> p.value, den |-> 1, error |-> t - p.at]
<1>1. Len(Nearest(q, t)) = 1 /\ Nearest(q, t)[1] = p
  OBVIOUS
<1> QED
  BY <1>1 DEF Estimate

LEMMA EstimateOfTwo ==
    ASSUME NEW q, NEW t, NEW p, NEW r, Nearest(q, t) = <<p, r>>
    PROVE  Estimate(q, t) = [num |-> p.value * (r.at - p.at) + (t - p.at) * (r.value - p.value),
                             den |-> r.at - p.at, error |-> r.at - p.at]
<1>1. Len(Nearest(q, t)) = 2 /\ Nearest(q, t)[1] = p /\ Nearest(q, t)[2] = r
  OBVIOUS
<1> QED
  BY <1>1 DEF Estimate

\* What Nearest finds, by the place of the time among those of the array.
LEMMA NearestIs ==
    ASSUME NEW q, IsArray(q), NEW t \in Int
    PROVE  LET i == Position(q, t)
               n == Len(q)
           IN  \/ n = 0 /\ Nearest(q, t) = <<>>
               \/ i \in 1 .. n /\ q[i].at = t /\ Nearest(q, t) = <<q[i]>>
               \/ n >= 1 /\ i = 1 /\ t < q[1].at /\ Nearest(q, t) = <<q[1]>>
               \/ n >= 1 /\ i = n + 1 /\ q[n].at < t /\ Nearest(q, t) = <<q[n]>>
               \/ /\ i \in 2 .. n /\ q[i - 1].at < t /\ t < q[i].at
                  /\ Nearest(q, t) = <<q[i - 1], q[i]>>
<1> DEFINE i == Position(q, t)
           n == Len(q)
<1>1. /\ q \in Seq(Quotes) /\ n \in Nat /\ \A j \in 1 .. n : q[j].at \in Int
      /\ n = 0 <=> q = <<>>
  BY ArrayFacts, EmptySeq
<1>2. i \in 1 .. n + 1 /\ \A j \in 1 .. n : q[j].at < t <=> j < i
  BY PositionIs
<1>3. /\ Found(q, t) => i \in 1 .. n /\ q[i].at = t
      /\ ~Found(q, t) => \A j \in 1 .. n : q[j].at # t
  BY FoundIs
<1> HIDE DEF i, n
<1>4. CASE n = 0
  <2>1. q = <<>> /\ ~(i > 1)
    BY <1>1, <1>2, <1>4
  <2>2. Nearest(q, t) = <<>>
    BY <2>1 DEF Nearest, i
  <2> QED
    BY <1>4, <2>2 DEF n
<1>5. CASE Found(q, t)
  <2>1. i \in 1 .. n /\ q[i].at = t /\ q # <<>>
    BY <1>1, <1>3, <1>5
  <2>2. ~(i > n)
    BY <1>1, <2>1
  <2>3. Nearest(q, t) = <<q[i]>>
    BY <1>5, <2>1, <2>2 DEF Nearest, i, n
  <2> QED
    BY <2>1, <2>3 DEF i, n
<1>6. CASE n # 0 /\ ~Found(q, t) /\ i = 1
  <2>1. q # <<>> /\ 1 \in 1 .. n /\ n >= 1
    BY <1>1, <1>6
  <2>2. t < q[1].at
    BY <1>1, <1>2, <1>3, <1>6, <2>1
  <2>3. Nearest(q, t) = <<q[i]>>
    BY <1>6, <2>1 DEF Nearest, i, n
  <2> QED
    BY <1>6, <2>1, <2>2, <2>3 DEF i, n
<1>7. CASE n # 0 /\ ~Found(q, t) /\ i = n + 1
  <2>1. q # <<>> /\ n \in 1 .. n /\ n >= 1 /\ i > 1 /\ i > n /\ i # 1 /\ n < i
    BY <1>1, <1>7
  <2>2. q[n].at < t
    BY <1>2, <2>1
  <2>3. Nearest(q, t) = <<q[n]>>
    BY <1>7, <2>1 DEF Nearest, i, n
  <2> QED
    BY <1>7, <2>1, <2>2, <2>3 DEF i, n
<1>8. CASE n # 0 /\ ~Found(q, t) /\ i # 1 /\ i # n + 1
  <2>1. q # <<>> /\ i \in 2 .. n /\ i \in 1 .. n /\ i - 1 \in 1 .. n /\ ~(i > n) /\ i - 1 < i /\ ~(i < i)
    BY <1>1, <1>2, <1>8
  <2>2. q[i - 1].at < t /\ t < q[i].at
    BY <1>1, <1>2, <1>3, <1>8, <2>1
  <2>3. Nearest(q, t) = <<q[i - 1], q[i]>>
    BY <1>8, <2>1 DEF Nearest, i, n
  <2> QED
    BY <2>1, <2>2, <2>3 DEF i, n
<1> QED
  BY <1>4, <1>5, <1>6, <1>7, <1>8

\* The last, or first, of some prices of an array is the one of the greatest, or least,
\* time.
LEMMA LastIs ==
    ASSUME NEW q, IsArray(q), NEW B \in SUBSET ToSet(q), NEW p \in B,
           \A s \in B : s.at <= p.at
    PROVE  (CHOOSE r \in B : \A s \in B : s.at <= r.at) = p
<1>1. \A r, s \in ToSet(q) : r.at \in Int /\ (r.at = s.at => r = s)
  <2>1. /\ Len(q) \in Nat /\ \A i \in 1 .. Len(q) : q[i].at \in Int
        /\ \A i, j \in 1 .. Len(q) : i < j => q[i].at < q[j].at
        /\ ToSet(q) = {q[i] : i \in 1 .. Len(q)}
    BY ArrayFacts
  <2>2. \A i, j \in 1 .. Len(q) : q[i].at = q[j].at => i = j
    BY <2>1
  <2> QED
    BY <2>1, <2>2
<1>2. \A r \in B : (\A s \in B : s.at <= r.at) => r = p
  BY <1>1
<1> QED
  BY <1>2

LEMMA FirstIs ==
    ASSUME NEW q, IsArray(q), NEW B \in SUBSET ToSet(q), NEW p \in B,
           \A s \in B : s.at >= p.at
    PROVE  (CHOOSE r \in B : \A s \in B : s.at >= r.at) = p
<1>1. \A r, s \in ToSet(q) : r.at \in Int /\ (r.at = s.at => r = s)
  <2>1. /\ Len(q) \in Nat /\ \A i \in 1 .. Len(q) : q[i].at \in Int
        /\ \A i, j \in 1 .. Len(q) : i < j => q[i].at < q[j].at
        /\ ToSet(q) = {q[i] : i \in 1 .. Len(q)}
    BY ArrayFacts
  <2>2. \A i, j \in 1 .. Len(q) : q[i].at = q[j].at => i = j
    BY <2>1
  <2> QED
    BY <2>1, <2>2
<1>2. \A r \in B : (\A s \in B : s.at >= r.at) => r = p
  BY <1>1
<1> QED
  BY <1>2

\* The interpolation as the code computes it is the weighted mean of the two prices.
WeightedMean(v, w, a, b, t) ==
    (v * (b - a) + (t - a) * (w - v)) * (b - a) = (b - a) * (v * (b - t) + w * (t - a))

LEMMA Mean ==
    ASSUME NEW v \in Int, NEW w \in Int, NEW a \in Int, NEW b \in Int, NEW t \in Int
    PROVE  WeightedMean(v, w, a, b, t)
<1> DEFINE x == v * (b - a) + (t - a) * (w - v)
           y == b - a
<1>1. x = v * (b - t) + w * (t - a)
  OBVIOUS
<1>2. x \in Int /\ y \in Int
  OBVIOUS
<1>3. \A x1, y1 \in Int : x1 * y1 = y1 * x1
  OBVIOUS
<1>4. x * y = y * x
  BY <1>2, <1>3
<1> QED
  BY <1>1, <1>4 DEF WeightedMean

\* What an estimate has to be, for the array q.
Interpolates(q, t) ==
    LET e == Estimate(q, t)
        all == ToSet(q)
        before == {p \in all : p.at <= t}
        after == {p \in all : p.at >= t}
        last == CHOOSE p \in before : \A s \in before : s.at <= p.at
        first == CHOOSE p \in after : \A s \in after : s.at >= p.at
    IN CASE all = {} -> e.error = TooFar
         [] before = {} /\ after # {} -> e.num = first.value * e.den /\ e.error = t - first.at
         [] before # {} /\ after = {} -> e.num = last.value * e.den /\ e.error = t - last.at
         [] OTHER -> /\ e.error = first.at - last.at
                     /\ IF first = last
                        THEN e.num = first.value * e.den
                        ELSE e.num * (first.at - last.at)
                               = e.den * (last.value * (first.at - t)
                                          + first.value * (t - last.at))

LEMMA EstimateIs ==
    ASSUME NEW q, IsArray(q), NEW t \in Int
    PROVE  Interpolates(q, t)
<1> DEFINE i == Position(q, t)
           n == Len(q)
           e == Estimate(q, t)
           all == ToSet(q)
           before == {p \in all : p.at <= t}
           after == {p \in all : p.at >= t}
           last == CHOOSE p \in before : \A s \in before : s.at <= p.at
           first == CHOOSE p \in after : \A s \in after : s.at >= p.at
<1>1. /\ n \in Nat /\ \A j \in 1 .. n : q[j] \in Quotes /\ q[j].at \in Int /\ q[j].value \in Int
      /\ \A j, k \in 1 .. n : j < k => q[j].at < q[k].at
      /\ all = {q[j] : j \in 1 .. n}
  BY ArrayFacts, Constants1
<1>2. \A p \in before : (\A s \in before : s.at <= p.at) => last = p
  BY LastIs
<1>3. \A p \in after : (\A s \in after : s.at >= p.at) => first = p
  BY FirstIs
<1>4. \A p \in all : p.at \in Int
  BY <1>1
<1>5. CASE n = 0 /\ Nearest(q, t) = <<>>
  <2>1. all = {}
    BY <1>1, <1>5
  <2>2. e.error = TooFar
    BY <1>5, EstimateOfNone
  <2> QED
    BY <2>1, <2>2 DEF Interpolates
<1>6. CASE i \in 1 .. n /\ q[i].at = t /\ Nearest(q, t) = <<q[i]>>
  <2> DEFINE p == q[i]
  <2>1. p \in all /\ p.at = t /\ t - t = 0 /\ p.value \in Int
    BY <1>1, <1>6
  <2>2. last = p /\ first = p
    BY <1>2, <1>3, <1>4, <2>1
  <2>3. e = [num |-> p.value, den |-> 1, error |-> t - p.at]
    BY <1>6, EstimateOfOne
  <2>4. all # {} /\ before # {} /\ after # {}
    BY <2>1
  <2> HIDE DEF e, last, first, before, after, all
  <2>5. e.num = first.value * e.den /\ e.error = first.at - last.at
    BY <2>1, <2>2, <2>3
  <2>6. Interpolates(q, t)
    BY <2>2, <2>4, <2>5 DEF Interpolates, e, last, first, before, after, all
  <2> QED
    BY <2>6
<1>7. CASE n >= 1 /\ i = 1 /\ t < q[1].at /\ Nearest(q, t) = <<q[1]>>
  <2> DEFINE p == q[1]
  <2>1. 1 \in 1 .. n /\ p \in all /\ p.at \in Int /\ t < p.at /\ p.value \in Int
    BY <1>1, <1>7
  <2>2. \A j \in 1 .. n : q[j].at >= p.at
    BY <1>1, <2>1
  <2>3. before = {}
    BY <1>1, <2>1, <2>2
  <2>4. p \in after /\ \A s \in after : s.at >= p.at
    BY <1>1, <2>1, <2>2
  <2>5. first = p
    BY <1>3, <2>4
  <2>6. e = [num |-> p.value, den |-> 1, error |-> t - p.at]
    BY <1>7, EstimateOfOne
  <2>7. all # {} /\ after # {}
    BY <2>1, <2>4
  <2> HIDE DEF e, last, first, before, after, all
  <2>8. e.num = first.value * e.den /\ e.error = t - first.at
    BY <2>1, <2>5, <2>6
  <2>9. Interpolates(q, t)
    BY <2>3, <2>7, <2>8 DEF Interpolates, e, last, first, before, after, all
  <2> QED
    BY <2>9
<1>8. CASE n >= 1 /\ i = n + 1 /\ q[n].at < t /\ Nearest(q, t) = <<q[n]>>
  <2> DEFINE p == q[n]
  <2>1. n \in 1 .. n /\ p \in all /\ p.at \in Int /\ p.at < t /\ p.value \in Int
    BY <1>1, <1>8
  <2>2. \A j \in 1 .. n : q[j].at <= p.at
    BY <1>1, <2>1
  <2>3. after = {}
    BY <1>1, <2>1, <2>2
  <2>4. p \in before /\ \A s \in before : s.at <= p.at
    BY <1>1, <2>1, <2>2
  <2>5. last = p
    BY <1>2, <2>4
  <2>6. e = [num |-> p.value, den |-> 1, error |-> t - p.at]
    BY <1>8, EstimateOfOne
  <2>7. all # {} /\ before # {}
    BY <2>1, <2>4
  <2> HIDE DEF e, last, first, before, after, all
  <2>8. e.num = last.value * e.den /\ e.error = t - last.at
    BY <2>1, <2>5, <2>6
  <2>9. Interpolates(q, t)
    BY <2>3, <2>7, <2>8 DEF Interpolates, e, last, first, before, after, all
  <2> QED
    BY <2>9
<1>9. CASE /\ i \in 2 .. n /\ q[i - 1].at < t /\ t < q[i].at
           /\ Nearest(q, t) = <<q[i - 1], q[i]>>
  <2> DEFINE p == q[i - 1]
             r == q[i]
  <2>1. i \in 1 .. n /\ i - 1 \in 1 .. n
    BY <1>1, <1>9
  <2>2. /\ p \in all /\ r \in all /\ p.at \in Int /\ r.at \in Int /\ p.value \in Int /\ r.value \in Int
        /\ p.at < t /\ t < r.at
    BY <1>1, <1>9, <2>1
  <2>3. \A j \in 1 .. n : q[j].at <= p.at \/ q[j].at >= r.at
    <3> SUFFICES ASSUME NEW j \in 1 .. n PROVE q[j].at <= p.at \/ q[j].at >= r.at
      OBVIOUS
    <3> DEFINE k == i - 1
    <3>1. k \in 1 .. n /\ i = k + 1
      BY <1>1, <2>1
    <3> HIDE DEF i, k
    <3>2. j = k \/ j < k \/ j = i \/ i < j
      BY <1>1, <2>1, <3>1
    <3>3. j < k => q[j].at < q[k].at
      BY <1>1, <3>1
    <3>4. i < j => q[i].at < q[j].at
      BY <1>1, <2>1
    <3>5. q[k].at \in Int /\ q[i].at \in Int /\ q[j].at \in Int
      BY <1>1, <2>1, <3>1
    <3>6. q[j].at <= q[k].at \/ q[j].at >= q[i].at
      BY <3>2, <3>3, <3>4, <3>5
    <3> QED
      BY <3>6 DEF k
  <2> HIDE DEF p, r
  <2>4. p \in before /\ \A s \in before : s.at <= p.at
    BY <1>1, <2>2, <2>3
  <2>5. r \in after /\ \A s \in after : s.at >= r.at
    BY <1>1, <2>2, <2>3
  <2>6. last = p /\ first = r
    BY <1>2, <1>3, <2>4, <2>5
  <2>7. e = [num |-> p.value * (r.at - p.at) + (t - p.at) * (r.value - p.value),
             den |-> r.at - p.at, error |-> r.at - p.at]
    BY <1>9, EstimateOfTwo DEF p, r
  <2>8. all # {} /\ before # {} /\ after # {}
    BY <2>2, <2>4, <2>5
  <2> HIDE DEF e, last, first, before, after, all
  <2>9. e.num * (r.at - p.at) = e.den * (p.value * (r.at - t) + r.value * (t - p.at))
    <3>1. e.num = p.value * (r.at - p.at) + (t - p.at) * (r.value - p.value)
      BY <2>7
    <3>2. e.den = r.at - p.at
      BY <2>7
    <3>3. WeightedMean(p.value, r.value, p.at, r.at, t)
      BY <2>2, Mean
    <3> QED
      BY <3>1, <3>2, <3>3 DEF WeightedMean
  <2>10. e.num * (first.at - last.at)
           = e.den * (last.value * (first.at - t) + first.value * (t - last.at))
    BY <2>6, <2>9
  <2>11. first # last
    BY <2>2, <2>6
  <2>12. e.error = first.at - last.at
    BY <2>6, <2>7
  <2>13. Interpolates(q, t)
    BY <2>8, <2>10, <2>11, <2>12 DEF Interpolates, e, last, first, before, after, all
  <2> QED
    BY <2>13
<1> QED
  BY <1>5, <1>6, <1>7, <1>8, <1>9, NearestIs

\* What the volumes are priced with is an interpolation of the prices: whatever the feed
\* has put into the array, and at whatever time (PriceMap.Estimate, Nearest).
THEOREM EstimatesInterpolate == Spec => []EstimateInterpolates
<1>1. HistoryInv => EstimateInterpolates
  <2> SUFFICES ASSUME HistoryInv PROVE EstimateInterpolates
    OBVIOUS
  <2>1. IsArray(prices) /\ \A t \in 1 .. MaxTime : t \in Int
    BY Before, Constants1 DEF HistoryInv
  <2>2. \A t \in 1 .. MaxTime : Interpolates(prices, t)
    BY <2>1, EstimateIs
  <2> QED
    BY <2>2 DEF EstimateInterpolates, Interpolates
<1> QED
  BY <1>1, HistoryInvariant, PTL

================================================================================
