------------------------------ MODULE PriceHistory ------------------------------
(***************************************************************************)
(* The prices of one token: quotes of the price feed are put into a sorted *)
(* array (PriceMap) and saved, the monitor of the indexer prunes them once *)
(* a minute, New loads the latest from the database, and the volumes are   *)
(* priced by interpolating in the array (Estimate).                        *)
(*                                                                         *)
(* Time is counted in ticks, of which a block takes one; a quote carries   *)
(* the time the exchange last updated it, at or before now.                *)
(***************************************************************************)
EXTENDS Integers, FiniteSets, SequencesExt

CONSTANTS
    Values,     \* prices
    Blocks,     \* blocks to index
    MaxTime,    \* bound on the clock
    MaxFailures,\* bound on failing calls to the database
    MaxStops    \* bound on the times the process stops

ASSUME PriceHistoryAssumption ==
    /\ Values \subseteq Int
    /\ Blocks \in Nat \ {0}
    /\ MaxTime \in Nat \ {0}
    /\ MaxFailures \in Nat
    /\ MaxStops \in Nat

VARIABLES
    now,        \* the clock
    process,    \* "up" or "off"
    prices,     \* the array of the token in PriceMap
    table,      \* the rows of TokenPrice
    feed,       \* quotes set and not yet saved: at most one
    anchor,     \* lastBlockTimestamp
    pruned,     \* time of the last prune
    since,      \* history: prices from this time on were loaded, if they were
    unsaved,    \* history: times of quotes the database does not have
    failures,   \* failing calls so far
    stops       \* stops of the process so far

vars == <<now, process, prices, table, feed, anchor, pruned, since, unsaved,
          failures, stops>>

Quotes == [at : 1 .. MaxTime, value : Values]
Times(S) == {p.at : p \in S}

Init ==
    /\ now = 1
    /\ process = "up"
    /\ prices = <<>>
    /\ table = {}
    /\ feed = {}
    /\ anchor = 0
    /\ pruned = 0
    /\ since = 1 - Blocks
    /\ unsaved = {}
    /\ failures = 0
    /\ stops = 0

--------------------------------------------------------------------------------
(* PriceMap                                                                *)

Ascending(arr) == \A i, j \in DOMAIN arr : i < j => arr[i].at < arr[j].at

\* The array that setting some prices one after the other leads to: of different times,
\* there is one, whatever their order.
Arrays(S) == {arr \in [1 .. Cardinality(S) -> S] : Ascending(arr)}

\* Mutant of Position: the first index whose price is after the time.
MutPosition(arr, time) == 1 + Cardinality({i \in DOMAIN arr : arr[i].at <= time})

\* slices.BinarySearchFunc: the first index whose price is not before the time.
Position(arr, time) == 1 + Cardinality({i \in DOMAIN arr : arr[i].at < time})
Found(arr, time) == time \in Times(ToSet(arr))

\* PriceMap.Set: a quote of the same time is replaced.
Insert(arr, p) ==
    LET i == Position(arr, p.at)
    IN IF Found(arr, p.at) THEN [arr EXCEPT ![i] = p] ELSE InsertAt(arr, i, p)

\* Mutant of Nearest: the two prices after the time.
MutNearest(arr, time) ==
    LET i == Position(arr, time)
    IN CASE arr = <<>> -> <<>>
         [] arr # <<>> /\ (i = 1 \/ Found(arr, time)) -> <<arr[i]>>
         [] i > 1 /\ i >= Len(arr) /\ ~Found(arr, time) -> <<arr[Len(arr)]>>
         [] OTHER -> <<arr[i], arr[i + 1]>>

Nearest(arr, time) ==
    LET i == Position(arr, time)
    IN CASE arr = <<>> -> <<>>
         [] arr # <<>> /\ (i = 1 \/ Found(arr, time)) -> <<arr[i]>>
         [] i > 1 /\ i > Len(arr) -> <<arr[Len(arr)]>>
         [] OTHER -> <<arr[i - 1], arr[i]>>

\* Further from any price than an estimate is used for.
TooFar == 2 * MaxTime

\* PriceMap.Estimate: a price as a fraction, and how far off its time may be.  A
\* time before every price gives a negative distance.
Estimate(arr, time) ==
    LET near == Nearest(arr, time)
    IN CASE Len(near) = 0 -> [num |-> 0, den |-> 1, error |-> TooFar]
         [] Len(near) = 1 -> [num |-> near[1].value, den |-> 1, error |-> time - near[1].at]
         [] Len(near) = 2 ->
              LET d == time - near[1].at
                  dt == near[2].at - near[1].at
                  dp == near[2].value - near[1].value
              IN [num |-> near[1].value * dt + d * dp, den |-> dt, error |-> dt]

--------------------------------------------------------------------------------

Tick ==
    /\ now < MaxTime
    /\ now' = now + 1
    /\ UNCHANGED <<process, prices, table, feed, anchor, pruned, since, unsaved,
                   failures, stops>>

\* handlePriceFeed, SetLatestPrice up to the save: quotes come in any order.
SetLatestPrice(p) ==
    /\ process = "up"
    /\ feed = {}
    /\ p.at <= now
    /\ prices' = Insert(prices, p)
    /\ feed' = {p}
    /\ unsaved' = unsaved \cup {p.at}
    /\ UNCHANGED <<now, process, table, anchor, pruned, since, failures, stops>>

\* Mutant: a conflicting row is left as it is.
MutSaved(p) == IF p.at \in Times(table) THEN table ELSE table \cup {p}

Saved(p) == {r \in table : r.at # p.at} \cup {p}

SaveTokenPrice ==
    \E p \in feed :
        /\ table' = Saved(p)
        /\ unsaved' = unsaved \ {p.at}
        /\ feed' = {}
        /\ UNCHANGED <<now, process, prices, anchor, pruned, since, failures, stops>>

\* The error is logged and the quote not saved again.
SaveFails ==
    /\ feed # {}
    /\ failures < MaxFailures
    /\ failures' = failures + 1
    /\ feed' = {}
    /\ UNCHANGED <<now, process, prices, table, anchor, pruned, since, unsaved, stops>>

\* SetLatestBlockHeight takes the time of the first block only.
FirstBlock ==
    /\ process = "up"
    /\ anchor = 0
    /\ anchor' = now
    /\ UNCHANGED <<now, process, prices, table, feed, pruned, since, unsaved,
                   failures, stops>>

PruneWindow == (Blocks * 3) \div 2

\* Mutant of MinLastUpdated: half the window of the pools.
MutMinLastUpdated == anchor - PruneWindow \div 2

MinLastUpdated == anchor - PruneWindow

\* pricesPrune: PriceMap.Prune removes nothing.
Prune ==
    /\ process = "up"
    /\ pruned < now
    /\ pruned' = now
    /\ \/ table' = {p \in table : p.at >= MinLastUpdated} /\ UNCHANGED failures
       \/ failures < MaxFailures /\ failures' = failures + 1 /\ UNCHANGED table
    /\ UNCHANGED <<now, process, prices, feed, anchor, since, unsaved, stops>>

Stop ==
    /\ process = "up"
    /\ stops < MaxStops
    /\ stops' = stops + 1
    /\ process' = "off"
    /\ prices' = <<>>
    /\ feed' = {}
    /\ anchor' = 0
    /\ UNCHANGED <<now, table, pruned, since, unsaved, failures>>

\* preHeatPrices: the prices of the last Blocks blocks, or none.
Start ==
    /\ process = "off"
    /\ process' = "up"
    /\ \/ /\ \E arr \in Arrays({p \in table : p.at \in now - Blocks .. now}) : prices' = arr
          /\ since' = now - Blocks
          /\ UNCHANGED failures
       \/ /\ failures < MaxFailures
          /\ failures' = failures + 1
          /\ since' = now + 1
          /\ UNCHANGED prices
    /\ UNCHANGED <<now, table, feed, anchor, pruned, unsaved, stops>>

--------------------------------------------------------------------------------

Next ==
    \/ Tick \/ \E p \in Quotes : SetLatestPrice(p)
    \/ SaveTokenPrice \/ SaveFails \/ FirstBlock \/ Prune \/ Stop \/ Start

Spec == Init /\ [][Next]_vars

--------------------------------------------------------------------------------
(* Properties                                                              *)

\* The types of the variables.  "The array of prices should be sorted by
\* lastUpdated": it is, with one price for each time, whatever the order of quotes.
TypeOK ==
    /\ now \in 1 .. MaxTime
    /\ process \in {"up", "off"}
    /\ prices \in Seq(Quotes)
    /\ Ascending(prices)
    /\ table \subseteq Quotes /\ feed \subseteq Quotes
    /\ \A p, q \in table : p.at = q.at => p = q
    /\ \A p, q \in feed : p = q
    /\ anchor \in 0 .. now /\ pruned \in 0 .. now
    /\ unsaved \subseteq 1 .. MaxTime
    /\ failures \in 0 .. MaxFailures /\ stops \in 0 .. MaxStops

\* Memory and database tell the same price: a row of the time the process covers is
\* in the array, with the same value unless the latest quote of that time is still
\* to be saved or could not be.
CacheMatchesTable ==
    process = "up" =>
        \A r \in table : r.at >= since =>
            \E p \in ToSet(prices) :
                p.at = r.at /\ (p.value = r.value \/ r.at \in unsaved)

\* Estimate agrees with what interpolation is: the price itself at the time of a
\* price, the closest price outside of all times, and else the point on the line
\* between the last price before and the first one after; the error is zero, the
\* signed distance, or the distance between the two.
EstimateInterpolates ==
    \A t \in 1 .. MaxTime :
        LET e == Estimate(prices, t)
            all == ToSet(prices)
            before == {p \in all : p.at <= t}
            after == {p \in all : p.at >= t}
            last == CHOOSE p \in before : \A q \in before : q.at <= p.at
            first == CHOOSE p \in after : \A q \in after : q.at >= p.at
        IN CASE all = {} -> e.error = TooFar
             [] before = {} /\ after # {} -> e.num = first.value * e.den /\ e.error = t - first.at
             [] before # {} /\ after = {} -> e.num = last.value * e.den /\ e.error = t - last.at
             [] OTHER -> /\ e.error = first.at - last.at
                         /\ IF first = last
                            THEN e.num = first.value * e.den
                            ELSE e.num * (first.at - last.at)
                                   = e.den * (last.value * (first.at - t)
                                              + first.value * (t - last.at))

\* The prune of the database takes no price of the blocks the indexer keeps.
WindowKept ==
    [][\A t \in Times(table) \ Times(table') : t < now - PruneWindow]_vars

================================================================================
