----------------------------- MODULE RelativeVolume -----------------------------
(***************************************************************************)
(* How much a pool has traded, in USD, since each of the heights a message *)
(* reports (calculateRelativeVolumeValue): the records the cache holds     *)
(* between the heights are fetched with their prices, both lists sorted    *)
(* from the latest height down, and the differences of adjacent volumes    *)
(* summed at their average price until each height is reached.             *)
(*                                                                         *)
(* The total volume of a pool never falls.  The cache may lack any height: *)
(* not synced yet, pruned since it was fetched, or without a price close   *)
(* enough.  Amounts are exact, and sums counted in halves.                 *)
(***************************************************************************)
EXTENDS Integers, FiniteSets, SequencesExt

CONSTANTS
    Heights,    \* block heights
    Volumes,    \* total volumes of the pool
    Prices,     \* prices of its coin
    MaxWanted   \* how many heights a message reports

ASSUME RelativeVolumeAssumption ==
    /\ Heights \subseteq Nat
    /\ Volumes \subseteq Nat
    /\ Prices \subseteq Nat
    /\ MaxWanted \in Nat \ {0}

VARIABLES
    records,        \* the priced records of the cache, by height
    wanted,         \* "volumes": the heights of the message, latest first
    step,           \* "fetch", "loop", "done"
    volumePrices,   \* the heights fetched, latest first
    idx,            \* the next of them
    rangeIndex,     \* the next of the wanted ones
    prev,           \* prevVolume and prevPrice
    priceSum,       \* the sum so far, in halves
    relative        \* RelativeVolumeUSD, by height; empty where it was not set

vars == <<records, wanted, step, volumePrices, idx, rangeIndex, prev, priceSum, relative>>
input == <<records, wanted>>

Record == [volume : Volumes, price : Prices]

\* The cache as it can be: volumes do not fall with the height.
Caches == {c \in UNION {[S -> Record] : S \in SUBSET Heights} :
              \A g, h \in DOMAIN c : g < h => c[g].volume <= c[h].volume}

\* The latest height first.
Descending(seq) == \A i, j \in DOMAIN seq : i < j => seq[j] < seq[i]

\* The heights of a set, sorted.
Sorted(S) == {seq \in [1 .. Cardinality(S) -> S] : Descending(seq)}

Init ==
    /\ records \in Caches
    /\ \E n \in 1 .. MaxWanted : wanted \in {seq \in [1 .. n -> Heights] : Descending(seq)}
    /\ step = "fetch"
    /\ volumePrices = <<>>
    /\ idx = 1
    /\ rangeIndex = 1
    /\ prev = [volume |-> 0, price |-> 0]
    /\ priceSum = 0
    /\ relative = [h \in Heights |-> {}]

--------------------------------------------------------------------------------

\* The heights of the cache from the first to the last wanted.
Between == {h \in DOMAIN records : wanted[Len(wanted)] <= h /\ h <= wanted[1]}

\* fetchVolumeValuesPerBlockRange and the sort; without a record nothing is set.
Fetch ==
    /\ step = "fetch"
    /\ volumePrices' \in Sorted(Between)
    /\ IF Between = {}
       THEN step' = "done" /\ UNCHANGED prev
       ELSE step' = "loop" /\ prev' = records[volumePrices'[1]]
    /\ UNCHANGED <<input, idx, rangeIndex, priceSum, relative>>

InLoop == rangeIndex <= Len(wanted) /\ idx <= Len(volumePrices)

\* The amount traded between the previous record and one before it.
Traded(r) == (prev.volume - r.volume) * (prev.price + r.price)

Sum(r) == priceSum + Traded(r)

\* Mutant: the sum is stored before the difference is added.
MutReported(r) == priceSum

\* What a wanted height gets, and the record kept for the next difference.
Reported(r) == Sum(r)

\* Mutant: the previous price is not advanced with the volume.
MutAdvanced(r) == [r EXCEPT !.price = prev.price]

Advanced(r) == r

\* One turn of the loop of calculateRelativeVolumeValueCumulatively.  It sets at most
\* one of the wanted heights, also where a record lies below several of them.
Accumulate ==
    /\ step = "loop"
    /\ InLoop
    /\ LET h == volumePrices[idx]
       IN /\ priceSum' = Sum(records[h])
          /\ IF h <= wanted[rangeIndex]
             THEN /\ relative' = [relative EXCEPT ![wanted[rangeIndex]] = {Reported(records[h])}]
                  /\ rangeIndex' = rangeIndex + 1
             ELSE UNCHANGED <<relative, rangeIndex>>
          /\ prev' = Advanced(records[h])
    /\ idx' = idx + 1
    /\ UNCHANGED <<input, step, volumePrices>>

\* When the records run out the next wanted height takes the sum as it is, and
\* those after it are left without one.
Finish ==
    /\ step = "loop"
    /\ ~InLoop
    /\ step' = "done"
    /\ relative' = IF rangeIndex <= Len(wanted)
                   THEN [relative EXCEPT ![wanted[rangeIndex]] = {priceSum}]
                   ELSE relative
    /\ UNCHANGED <<input, volumePrices, idx, rangeIndex, prev, priceSum>>

--------------------------------------------------------------------------------

Next == Fetch \/ Accumulate \/ Finish

Spec == Init /\ [][Next]_vars

--------------------------------------------------------------------------------
(* Properties                                                              *)

\* The records of Between up to a height.
UpTo(h) == {g \in Between : g <= h}

\* What the difference of the record at a height to the record before it is worth, at the
\* average of both prices, in halves.
Worth == [h \in Nat |->
    IF h \in Between /\ UpTo(h - 1) # {}
    THEN LET r == records[h]
             before == records[Max(UpTo(h - 1))]
         IN  (r.volume - before.volume) * (r.price + before.price)
    ELSE 0]

\* The sums of f[1] to f[n], for all n.
Sums(f) == LET sum[n \in Nat] == IF n = 0 THEN 0 ELSE sum[n - 1] + f[n] IN sum

\* The value traded since a height.
TradedSince(h) == Sums(Worth)[wanted[1]] - Sums(Worth)[h]

WantedHeights == ToSet(wanted)

\* A wanted height gets the value traded since it, exactly, if it and every wanted
\* height after it has a record: what is missing in between only coarsens the sum.
ExactWhereRecorded ==
    step = "done" =>
        \A h \in WantedHeights :
            {g \in WantedHeights : g >= h} \subseteq DOMAIN records
                => relative[h] = {TradedSince(h)}

\* What is set is never less than the value traded since the height, nor more than
\* that since the earliest record, and an earlier height is given no less than a
\* later one: a missing record makes a sum too large, never too small.
Bounded ==
    step = "done" =>
        \A h \in WantedHeights : \A v \in relative[h] :
            /\ TradedSince(h) <= v /\ v <= TradedSince(0)
            /\ \A g \in WantedHeights : \A w \in relative[g] : g < h => v <= w

================================================================================
