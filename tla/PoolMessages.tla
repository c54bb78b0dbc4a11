------------------------------ MODULE PoolMessages ------------------------------
(***************************************************************************)
(* The messages on pools (subscriptions.pools.go) and the block clock they *)
(* use (SetLatestBlockHeight): the current height, its time, and the rate  *)
(* their lookbacks are counted in.  Two goroutines build them: "blocks"    *)
(* one of the monitored pools for each block, "pools" one of the pools an  *)
(* event names.  Both ask the indexer for statuses at a height and at      *)
(* lookbacks from it; every answer may lack any pool.  "blocks" alone      *)
(* writes the clock, one part after the other; "pools" reads it meanwhile. *)
(*                                                                         *)
(* The volume of a record is abstracted to the height it was asked for,    *)
(* since the indexer answers with what the pool had there (CoherentRecords *)
(* of PoolIndexer), and the volumes of a status to the set of these        *)
(* heights: they are sorted before they are compared (RelativeVolume).     *)
(***************************************************************************)
EXTENDS Integers, FiniteSets, SequencesExt

CONSTANTS
    Pools,        \* ids of pools
    NoPool,       \* the id of an empty status: zero
    PoolIds,      \* the monitored pools, a sequence: WithPoolIds keeps one of each
    EventIds,     \* the lists of pool ids events name: ExtractUniquePoolIds does, too
    Hours,        \* how long the lookbacks are, a sequence
    DefaultBlocksPerHour,
    HourTicks,    \* ticks of the clock in an hour
    MaxGap,       \* ticks of a minute, after which the sentinel ends the process
    FirstHeight,  \* height of the chain when the process starts
    MaxHeight     \* bound on the height of the chain

ASSUME PoolMessagesAssumption ==
    /\ NoPool \notin Pools
    /\ PoolIds \in Seq(Pools \cup {NoPool})
    /\ EventIds \subseteq Seq(Pools \cup {NoPool}) \ {<<>>}
    /\ \A ids \in EventIds \cup {PoolIds} : IsInjective(ids)
    /\ Hours \in Seq(Nat \ {0}) /\ Hours # <<>>
    /\ {DefaultBlocksPerHour, HourTicks, MaxGap, FirstHeight} \subseteq Nat \ {0}
    /\ MaxGap <= HourTicks
    /\ MaxHeight \in Nat /\ FirstHeight <= MaxHeight

VARIABLES
    node,      \* latest height of the full node
    current,   \* currentBlockHeight
    timed,     \* the block whose time currentBlockTime holds
    told,      \* history: the heights current has had
    handled,   \* height of the latest block event taken
    rate,      \* blocksPerHour
    first,     \* lastBlockHeight: the first block this process was told of
    elapsed,   \* ticks from lastBlockTimestamp to the latest block told
    work       \* per goroutine: the message it is building

clock == <<current, timed, told, rate, first, elapsed>>
vars == <<node, handled, clock, work>>

Handlers == {"blocks", "pools"}

\* A message: the ids asked for, the height of the statuses, the lookback in turn,
\* the statuses; AvgBlockTime as a block rate; for the goroutine "pools" the height
\* of the pools (0: not fetched), BlockHeight, and the block of the hash (0: none);
\* the current height read by BlockToTimestamp.
Idle == [step |-> "idle", ids |-> <<>>, height |-> 0, turn |-> 1, statuses |-> <<>>,
         avg |-> 0, pools |-> 0, blockHeight |-> 0, hash |-> 0, now |-> 0]

Init ==
    /\ node = FirstHeight
    /\ current = FirstHeight
    /\ timed = FirstHeight
    /\ told = {FirstHeight}
    /\ handled = 0
    /\ rate = DefaultBlocksPerHour
    /\ first = 0
    /\ elapsed = 0
    /\ work = [w \in Handlers |-> Idle]

--------------------------------------------------------------------------------
(* The indexer.                                                            *)

\* AverageBlockTime: a rate of zero counts as the default one.
Average(r) == IF r = 0 THEN DefaultBlocksPerHour ELSE r

Empty == [pool |-> NoPool, heights |-> {}]

\* Mutant: the status of a pool that failed is returned with its id.
MutStatusAt(height, p) ==
    {[pool |-> p, heights |-> {}], [pool |-> p, heights |-> {height}]}

\* A pool that fails leaves an empty status behind, and pool zero always does.
StatusAt(height, p) ==
    {Empty} \cup {[pool |-> q, heights |-> {height}] : q \in {p} \ {NoPool}}

\* The answers to a request: a status for each id, in the order of the ids.
PoolStatusesAt(height, ids) ==
    {s \in [DOMAIN ids -> UNION {StatusAt(height, ids[i]) : i \in DOMAIN ids}] :
        \A i \in DOMAIN ids : s[i] \in StatusAt(height, ids[i])}

\* Height 0 stands for the current one.
HeightOf(height) == IF height = 0 THEN current ELSE height

--------------------------------------------------------------------------------
(* Blocks.                                                                 *)

\* The chain commits a block.
NewBlock ==
    /\ node < MaxHeight
    /\ node' = node + 1
    /\ UNCHANGED <<handled, clock, work>>

\* handleMonitoredPools starts on its message, with the average block time of now.
Monitored(height, r) ==
    [Idle EXCEPT !.step = "statuses", !.ids = PoolIds, !.height = height,
                 !.avg = Average(r), !.blockHeight = height, !.hash = height]

\* The block handler takes an event; some may have been lost.  A height that raises
\* the current one is measured next, any other is not.
TakeBlock(height) ==
    /\ work["blocks"].step = "idle"
    /\ handled < height /\ height <= node
    /\ handled' = height
    /\ IF current < height
       THEN /\ current' = height
            /\ told' = told \cup {height}
            /\ work' = [work EXCEPT !["blocks"] =
                           [Idle EXCEPT !.step = "measure", !.height = height]]
       ELSE /\ work' = [work EXCEPT !["blocks"] = Monitored(height, rate)]
            /\ UNCHANGED <<current, told>>
    /\ UNCHANGED <<node, timed, rate, first, elapsed>>

\* Mutant: lastBlockTimestamp is not set with the first block.
MutSince(gap) == elapsed + gap

\* The ticks since the first block, gap ticks after the block before.
Since(gap) == IF first = 0 THEN 0 ELSE elapsed + gap

\* Mutant: only the first block sets the time.
MutTimeOf(height) == IF first = 0 THEN height ELSE timed

\* The block whose time is stored.
TimeOf(height) == height

\* The rest of SetLatestBlockHeight: the rate is measured from the first block on, as
\* soon as that was as many blocks ago as an hour has at the present rate.
Measure(gap) ==
    /\ work["blocks"].step = "measure"
    /\ LET height == work["blocks"].height
       IN  /\ timed' = TimeOf(height)
           /\ first' = IF first = 0 THEN height ELSE first
           /\ elapsed' = Since(gap)
           /\ rate' = IF height - first' >= rate
                      THEN ((height - first') * HourTicks) \div elapsed'
                      ELSE rate
           /\ work' = [work EXCEPT !["blocks"] = Monitored(height, rate')]
    /\ UNCHANGED <<node, handled, current, told>>

--------------------------------------------------------------------------------
(* Messages.                                                               *)

\* handlePoolSubscriptions takes an event and fetches its pools at the latest
\* height; the latest of the answers counts.  The statuses are asked for in any case.
TakeEvent(ids) ==
    /\ work["pools"].step = "idle"
    /\ \E fetched \in {0, node} :
          work' = [work EXCEPT !["pools"] =
                      [Idle EXCEPT !.step = "statuses", !.ids = ids, !.pools = fetched]]
    /\ UNCHANGED <<node, handled, clock>>

\* getPoolsOfInterestStatuses: the statuses at the height itself.
AskStatuses(w) ==
    /\ work[w].step = "statuses"
    /\ LET height == HeightOf(work[w].height)
       IN  \E answer \in PoolStatusesAt(height, work[w].ids) :
              work' = [work EXCEPT ![w] = [@ EXCEPT !.step = "lookback", !.height = height,
                                                    !.statuses = answer]]
    /\ UNCHANGED <<node, handled, clock>>

\* The volumes of an answer are added to the statuses of their pools: the ids are
\* distinct, so that mids leads from each answer to its own status.
Combine(statuses, answer) ==
    [i \in DOMAIN statuses |-> [statuses[i] EXCEPT !.heights = @ \cup answer[i].heights]]

\* Mutant: the error is dropped, and what was answered is combined.
MutGathered(statuses, answer) == Combine(statuses, answer)

\* When any pool fails, nothing of the answer is added.
Gathered(statuses, answer) ==
    IF \E i \in DOMAIN answer : answer[i].heights = {} THEN statuses
    ELSE Combine(statuses, answer)

\* Mutant: the lookbacks count in blocks of the default rate.
MutBefore(m) == m.height - Hours[m.turn] * DefaultBlocksPerHour

\* The height of the lookback in turn, at the rate of now.
Before(m) == m.height - Hours[m.turn] * Average(rate)

\* combinePoolStatusesAt, once for each lookback; the ids are those of the statuses.
LookBack(w) ==
    /\ work[w].step = "lookback"
    /\ LET m == work[w]
           ids == [i \in DOMAIN m.statuses |-> m.statuses[i].pool]
       IN  \E answer \in PoolStatusesAt(HeightOf(Before(m)), ids) :
              work' = [work EXCEPT ![w].statuses = Gathered(m.statuses, answer),
                                   ![w].turn = IF @ < Len(Hours) THEN @ + 1 ELSE @,
                                   ![w].step = IF m.turn < Len(Hours) THEN @
                                               ELSE "volumes"]
    /\ UNCHANGED <<node, handled, clock>>

\* BlockToTimestamp reads the current height first, and its time in the next step.
ReadHeight(w) ==
    /\ work[w].step = "volumes"
    /\ work' = [work EXCEPT ![w] = [@ EXCEPT !.step = "time", !.now = current]]
    /\ UNCHANGED <<node, handled, clock>>

\* Mutant: a message on a block that lacks a status is given up.
MutGoesOut(m) ==
    IF \E i \in DOMAIN m.statuses : m.statuses[i] = Empty THEN Idle
    ELSE [m EXCEPT !.step = "publish"]

\* A message on a block, whatever is missing in it.
GoesOut(m) == [m EXCEPT !.step = "publish"]

\* The statuses are complete: a message on a block goes out, one on an event still
\* needs its block, and is given up when its pools could not be fetched.
Completed(w, m) ==
    CASE w = "blocks" -> GoesOut(m)
      [] w = "pools" /\ m.pools = 0 -> Idle
      [] w = "pools" /\ m.pools # 0 -> [m EXCEPT !.step = "block"]

\* CalculateVolumes prices the volumes of each pool at their times, as far as it can.
Calculate(w) ==
    /\ work[w].step = "time"
    /\ work' = [work EXCEPT ![w] = Completed(w, [@ EXCEPT !.now = 0])]
    /\ UNCHANGED <<node, handled, clock>>

\* Mutant: the height of the message stays that of the statuses.
MutNamedHeight(m, hash) == m.height

\* The height a message on an event has.
NamedHeight(m, hash) == IF hash = 0 THEN m.height ELSE hash

\* BlockAt answers with the latest block, whatever the height; when it fails the
\* message has the height of the statuses and no hash.
FetchBlock ==
    /\ work["pools"].step = "block"
    /\ \E hash \in {0, node} :
          work' = [work EXCEPT !["pools"] =
                      [@ EXCEPT !.step = "publish", !.avg = Average(rate),
                                !.blockHeight = NamedHeight(work["pools"], hash),
                                !.hash = hash]]
    /\ UNCHANGED <<node, handled, clock>>

Publish(w) ==
    /\ work[w].step = "publish"
    /\ work' = [work EXCEPT ![w] = Idle]
    /\ UNCHANGED <<node, handled, clock>>

--------------------------------------------------------------------------------

Continue(w) ==
    \/ AskStatuses(w) \/ LookBack(w) \/ ReadHeight(w) \/ Calculate(w) \/ Publish(w)
    \/ w = "blocks" /\ \E gap \in 1 .. MaxGap : Measure(gap)
    \/ w = "pools" /\ FetchBlock

Next ==
    \/ NewBlock
    \/ \E height \in FirstHeight .. MaxHeight : TakeBlock(height)
    \/ \E ids \in EventIds : TakeEvent(ids)
    \/ \E w \in Handlers : Continue(w)

\* The block handler goes on once it has taken an event, since its calls time out.  So
\* does the other one, but no property needs it to.
Spec == Init /\ [][Next]_vars /\ WF_vars(Continue("blocks"))

--------------------------------------------------------------------------------
(* Properties                                                              *)

Status == [pool : Pools \cup {NoPool}, heights : SUBSET Int]
Steps == {"idle", "measure", "statuses", "lookback", "volumes", "time", "block", "publish"}

\* The types of the variables.  A message has a status for each id it was asked for,
\* failed or not; the rate, by which the prune of prices and BlockToTimestamp divide, is
\* never zero, since a block comes within each minute or the process ends.
TypeOK ==
    /\ {node, current, timed} \subseteq FirstHeight .. MaxHeight
    /\ told \subseteq FirstHeight .. MaxHeight
    /\ {handled, first} \subseteq {0} \cup FirstHeight .. MaxHeight
    /\ rate \in Nat \ {0} /\ elapsed \in Nat
    /\ \A w \in Handlers :
          /\ work[w].step \in Steps
          /\ work[w].turn \in DOMAIN Hours
          /\ work[w].step \in {"lookback", "volumes", "time", "block", "publish"} =>
                /\ DOMAIN work[w].statuses = DOMAIN work[w].ids
                /\ \A i \in DOMAIN work[w].ids : work[w].statuses[i] \in Status

Publishing(w) == work[w].step = "publish"

\* A lookback is in all statuses of a message or in none: whatever pools fail at whatever
\* heights, either all statuses hold the same heights, or one is empty and the others hold
\* nothing but the height of the message, since the zero id of the empty one fails in every
\* lookback (combinePoolStatusesAt adds nothing when any pool fails).  No status is that
\* of a pool other than the one asked for in its place.
LookbacksForAll ==
    \A w \in Handlers : Publishing(w) =>
        LET m == work[w]
        IN  /\ IF \E i \in DOMAIN m.ids : m.statuses[i] = Empty
               THEN \A i \in DOMAIN m.ids : m.statuses[i].heights \subseteq {m.height}
               ELSE \A i, j \in DOMAIN m.ids : m.statuses[i].heights = m.statuses[j].heights
            /\ \A i \in DOMAIN m.ids : m.statuses[i].pool \in {NoPool, m.ids[i]}

\* A status with volumes has one at the height of the message, so that the relative
\* volumes are relative to it: a pool that failed at that height is not asked for at the
\* lookbacks either (the zero id of poolStatuses).
CurrentOrNothing ==
    \A w \in Handlers : Publishing(w) =>
        \A i \in DOMAIN work[w].ids :
            LET s == work[w].statuses[i]
            IN  s = Empty \/ work[w].height \in s.heights

\* The lookbacks of a message on a block are whole hours at the block time that the
\* message states: the goroutine that measures the rate is the one that uses it.
LookbacksAtStatedRate ==
    Publishing("blocks") =>
        LET m == work["blocks"]
        IN  \A i \in DOMAIN m.ids :
               m.statuses[i].heights \subseteq
                  {m.height} \cup {m.height - Hours[k] * m.avg : k \in DOMAIN Hours}

\* The block a message on an event names is that of its height, and neither the pools
\* nor the statuses in it are newer (handlePoolSubscriptions, BlockAt after the rest).
NothingNewer ==
    Publishing("pools") =>
        LET m == work["pools"]
        IN  IF m.hash = 0 THEN m.blockHeight = m.height
            ELSE /\ m.hash = m.blockHeight
                 /\ m.pools <= m.blockHeight
                 /\ m.height <= m.blockHeight

\* The time that BlockToTimestamp takes for the current height is never older than that
\* of the block told before it, although height and time are stored one after the other;
\* for a message on a block it is the time of that very block.
ClockNear ==
    \A w \in Handlers : work[w].step = "time" =>
        /\ {height \in told : timed < height /\ height < work[w].now} = {}
        /\ w = "blocks" => timed = work[w].now /\ current = work[w].now

\* Every block event taken leads to a message, whatever fails on the way
\* (handleMonitoredPools logs errors and goes on).
BlocksReported == work["blocks"].step # "idle" ~> Publishing("blocks")

================================================================================
