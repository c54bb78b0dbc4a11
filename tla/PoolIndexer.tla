------------------------------ MODULE PoolIndexer ------------------------------
(***************************************************************************)
(* The pool cache of internal/indexer: PoolMap, the database behind it,    *)
(* the read-through getPool, the goroutine that queues missing heights and *)
(* prunes old ones, the goroutine that syncs the queued heights, and any   *)
(* number of concurrent callers of PoolStatusesAt.                         *)
(*                                                                         *)
(* Heights are uint64 words, so subtraction wraps.  The liquidity and the  *)
(* volume of a record are abstracted to the height whose state the full    *)
(* node answered with: a record is right when both are its own height.     *)
(***************************************************************************)
EXTENDS Integers, Sequences

CONSTANTS
    Pools,        \* ids of the pools that exist on chain
    PoolIds,      \* poolIdsToMonitor, a sequence of pools
    IdLists,      \* lists of pool ids the callers ask for
    Blocks,       \* the blocks option: how many blocks to look back
    QueueCap,     \* capacity of the syncHeights channel
    Lookbacks,    \* how far behind the current height the callers ask
    Readers,      \* goroutines that call PoolStatusesAt
    Syncer,       \* the goroutine running handleSyncing
    FirstHeight,  \* chain height at the first start of the process
    MaxHeight,    \* bound on the chain height
    Modulus,      \* number of values of the machine word (2^64 in the code)
    MaxFailures,  \* bound on failing node and database calls
    MaxStops      \* bound on process stops

ASSUME PoolIndexerAssumption ==
    /\ PoolIds \in Seq(Pools)
    /\ IdLists \subseteq Seq(Pools)
    /\ Blocks \in Nat \ {0}
    /\ QueueCap \in Nat \ {0}
    /\ Lookbacks \subseteq 0 .. Modulus - 1
    /\ Syncer \notin Readers
    /\ FirstHeight \in Nat \ {0}
    /\ MaxHeight \in Nat
    /\ FirstHeight <= MaxHeight
    /\ Modulus \in Nat
    /\ Blocks * 3 < Modulus  \* so that blocks*3 does not wrap
    /\ MaxHeight < Modulus
    /\ MaxFailures \in Nat
    /\ MaxStops \in Nat

VARIABLES
    node,      \* latest height the full node has committed
    up,        \* the process is running
    current,   \* currentBlockHeight
    cache,     \* pools: the records in memory
    db,        \* the pools table
    queue,     \* syncHeights
    monitor,   \* the goroutine running monitorHeights
    call,      \* per goroutine: the PoolStatusesAt it is executing
    failures,  \* failed calls so far
    stops      \* process stops so far

vars == <<node, up, current, cache, db, queue, monitor, call, failures, stops>>

Workers == Readers \cup {Syncer}
Monitored == {PoolIds[i] : i \in DOMAIN PoolIds}

--------------------------------------------------------------------------------
(* Words and records.                                                      *)

Word == 0 .. Modulus - 1

\* uint64 subtraction
Minus(a, b) == IF a >= b THEN a - b ELSE a - b + Modulus

\* The int64 conversion of a height that ContextWithHeight ignores: zero or
\* negative.  The node then answers with its latest state.
Ignored(h) == h = 0 \/ h >= Modulus \div 2

StateAt(h) == IF Ignored(h) THEN node ELSE h

Record == [height : Word, pool : Pools, liquidity : Word, volume : Word]

\* PoolMap.Set: one record per height and pool
Put(store, r) ==
    {s \in store : ~(s.height = r.height /\ s.pool = r.pool)} \cup {r}

\* PoolMap.Has
Has(h, p) == \E r \in cache : r.height = h /\ r.pool = p

\* PoolMap.Prune
From(store, h) == {r \in store : r.height >= h}

\* The statements of internal/repository on the pools table
\* Mutants: the range leaves out its first height; nothing is deleted.
MutPoolsRange(min, max) == {r \in db : min < r.height /\ r.height <= max}
MutPrunedPools(h) == db

PoolsRange(min, max) == {r \in db : min <= r.height /\ r.height <= max}
SavedPool(r) == Put(db, r)
PrunedPools(h) == From(db, h)

\* The lower end of the window, and the height below which records are pruned
WindowStart == Minus(current, Blocks)
\* Mutant: records are pruned half a window behind the current height.
MutPruneHeight == Minus(current, Blocks \div 2)

PruneHeight == Minus(current, (Blocks * 3) \div 2)

\* A node or database call that fails
MayFail == failures < MaxFailures /\ failures' = failures + 1

--------------------------------------------------------------------------------
(* The full node and the process.                                          *)

Idle == [height |-> 0, ids |-> <<>>, step |-> "lookup",
         liquidity |-> 0, volume |-> 0]
Parked == [step |-> "wait", cursor |-> 0, end |-> 0, min |-> 0]

Init ==
    /\ node = FirstHeight
    /\ up = FALSE
    /\ current = 0
    /\ cache = {}
    /\ db = {}
    /\ queue = <<>>
    /\ monitor = Parked
    /\ call = [w \in Workers |-> Idle]
    /\ failures = 0
    /\ stops = 0

\* The chain commits a block.
NewBlock ==
    /\ node < MaxHeight
    /\ node' = node + 1
    /\ UNCHANGED <<up, current, cache, db, queue, monitor, call, failures, stops>>

\* New: the current height comes from the node, the window from the database.
Start ==
    /\ ~up
    /\ up' = TRUE
    /\ current' = node
    /\ \/ /\ cache' = PoolsRange(Minus(node, Blocks), node)
          /\ UNCHANGED failures
       \/ /\ MayFail
          /\ cache' = {}
    /\ monitor' = [monitor EXCEPT !.step = "scan"]
    /\ UNCHANGED <<node, db, queue, call, stops>>

\* The process ends, at any point: only the database survives.
Stop ==
    /\ up
    /\ stops < MaxStops
    /\ stops' = stops + 1
    /\ up' = FALSE
    /\ current' = 0
    /\ cache' = {}
    /\ queue' = <<>>
    /\ monitor' = Parked
    /\ call' = [w \in Workers |-> Idle]
    /\ UNCHANGED <<node, db, failures>>

\* SetLatestBlockHeight: a block event raises the current height, never lowers it.
SetLatestBlockHeight(height) ==
    /\ up
    /\ height <= node
    /\ current < height
    /\ current' = height
    /\ UNCHANGED <<node, up, cache, db, queue, monitor, call, failures, stops>>

--------------------------------------------------------------------------------
(* PoolStatusesAt, one pool at a time: look the cache up, ask the node for *)
(* the liquidity and then for the volume, cache the record, save it.       *)

\* Mutant: height 0 is not replaced by the current one.
MutCallOf(height, ids) ==
    IF ids = <<>> THEN Idle ELSE [Idle EXCEPT !.height = height, !.ids = ids]

\* height 0 stands for the current one
CallOf(height, ids) ==
    IF ids = <<>> THEN Idle
    ELSE [Idle EXCEPT !.height = IF height = 0 THEN current ELSE height,
                      !.ids = ids]

\* Mutant: the call ends with its first pool.
MutPoolDone(w) == call' = [call EXCEPT ![w] = Idle]

\* The pool in hand is done, with a status or with an error.
PoolDone(w) ==
    call' = [call EXCEPT ![w] =
                IF Len(@.ids) = 1 THEN Idle
                ELSE [Idle EXCEPT !.height = call[w].height, !.ids = Tail(call[w].ids)]]

Busy(w) == call[w].ids # <<>>
At(w, step) == up /\ Busy(w) /\ call[w].step = step

\* The record built from the two answers
Fetched(w) ==
    [height |-> call[w].height, pool |-> Head(call[w].ids),
     liquidity |-> call[w].liquidity, volume |-> call[w].volume]

\* A caller asks for statuses at the current height or some way behind it.
Read(w, ids) ==
    /\ up
    /\ ~Busy(w)
    /\ \E height \in {0} \cup {Minus(current, back) : back \in Lookbacks} :
          call' = [call EXCEPT ![w] = CallOf(height, ids)]
    /\ UNCHANGED <<node, up, current, cache, db, queue, monitor, failures, stops>>

\* handleSyncing takes a height off the queue and syncs the monitored pools.
TakeHeight ==
    /\ up
    /\ ~Busy(Syncer)
    /\ queue # <<>>
    /\ queue' = Tail(queue)
    /\ call' = [call EXCEPT ![Syncer] = CallOf(Head(queue), PoolIds)]
    /\ UNCHANGED <<node, up, current, cache, db, monitor, failures, stops>>

LookUp(w) ==
    /\ At(w, "lookup")
    /\ \/ /\ Has(call[w].height, Head(call[w].ids))
          /\ PoolDone(w)
       \/ /\ ~Has(call[w].height, Head(call[w].ids))
          /\ call' = [call EXCEPT ![w].step = "liquidity"]
    /\ UNCHANGED <<node, up, current, cache, db, queue, monitor, failures, stops>>

FetchLiquidity(w) ==
    /\ At(w, "liquidity")
    /\ \/ /\ StateAt(call[w].height) <= node
          /\ call' = [call EXCEPT ![w].step = "volume",
                                  ![w].liquidity = StateAt(call[w].height)]
          /\ UNCHANGED failures
       \/ /\ MayFail
          /\ PoolDone(w)
    /\ UNCHANGED <<node, up, current, cache, db, queue, monitor, stops>>

\* The record is cached as soon as both answers are in, before it is saved.
FetchVolume(w) ==
    /\ At(w, "volume")
    /\ \/ /\ StateAt(call[w].height) <= node
          /\ call' = [call EXCEPT ![w].step = "save",
                                  ![w].volume = StateAt(call[w].height)]
          /\ cache' = Put(cache, [Fetched(w) EXCEPT !.volume = StateAt(call[w].height)])
          /\ UNCHANGED failures
       \/ /\ MayFail
          /\ PoolDone(w)
          /\ UNCHANGED cache
    /\ UNCHANGED <<node, up, current, db, queue, monitor, stops>>

SavePool(w) ==
    /\ At(w, "save")
    /\ \/ /\ db' = SavedPool(Fetched(w))
          /\ UNCHANGED failures
       \/ /\ MayFail
          /\ UNCHANGED db
    /\ PoolDone(w)
    /\ UNCHANGED <<node, up, current, cache, queue, monitor, stops>>

--------------------------------------------------------------------------------
(* monitorHeights: queue the heights missing from the window, prune the    *)
(* cache and then the database, wait for the ticker, start over.           *)

Monitor(step) == up /\ monitor.step = step

\* Mutant: a pass starts though heights of the previous one are still queued.
MutStartScan ==
    /\ Monitor("scan")
    /\ monitor' = [monitor EXCEPT !.step = "check",
                                  !.cursor = WindowStart, !.end = current]
    /\ UNCHANGED <<node, up, current, cache, db, queue, call, failures, stops>>

\* A full pass over the window, or none while heights are still queued; the
\* prune height is read as soon as the pass is over.
StartScan ==
    /\ Monitor("scan")
    /\ monitor' = IF queue # <<>>
                  THEN [monitor EXCEPT !.step = "pruneCache", !.min = PruneHeight]
                  ELSE [monitor EXCEPT !.step = "check",
                                       !.cursor = WindowStart, !.end = current]
    /\ UNCHANGED <<node, up, current, cache, db, queue, call, failures, stops>>

\* Mutant: the pass includes the current height.
MutCheckHeightPastEnd ==
    /\ Monitor("check")
    /\ monitor.cursor <= monitor.end
    /\ monitor' = IF \A p \in Monitored : Has(monitor.cursor, p)
                  THEN [monitor EXCEPT !.cursor = @ + 1]
                  ELSE [monitor EXCEPT !.step = "send"]
    /\ UNCHANGED <<node, up, current, cache, db, queue, call, failures, stops>>

\* One height of the window: the first monitored pool it lacks has it queued.
CheckHeight ==
    /\ Monitor("check")
    /\ monitor.cursor < monitor.end
    /\ monitor' = IF \A p \in Monitored : Has(monitor.cursor, p)
                  THEN [monitor EXCEPT !.cursor = @ + 1]
                  ELSE [monitor EXCEPT !.step = "send"]
    /\ UNCHANGED <<node, up, current, cache, db, queue, call, failures, stops>>

\* Mutant: the channel has no capacity.
MutSendHeight ==
    /\ Monitor("send")
    /\ queue' = Append(queue, monitor.cursor)
    /\ monitor' = [monitor EXCEPT !.step = "check", !.cursor = @ + 1]
    /\ UNCHANGED <<node, up, current, cache, db, call, failures, stops>>

\* The send waits for room in the channel.
SendHeight ==
    /\ Monitor("send")
    /\ Len(queue) < QueueCap
    /\ queue' = Append(queue, monitor.cursor)
    /\ monitor' = [monitor EXCEPT !.step = "check", !.cursor = @ + 1]
    /\ UNCHANGED <<node, up, current, cache, db, call, failures, stops>>

EndScan ==
    /\ Monitor("check")
    /\ monitor.cursor >= monitor.end
    /\ monitor' = [monitor EXCEPT !.step = "pruneCache", !.min = PruneHeight]
    /\ UNCHANGED <<node, up, current, cache, db, queue, call, failures, stops>>

PruneCache ==
    /\ Monitor("pruneCache")
    /\ cache' = From(cache, monitor.min)
    /\ monitor' = [monitor EXCEPT !.step = "pruneDb"]
    /\ UNCHANGED <<node, up, current, db, queue, call, failures, stops>>

\* The error of PrunePools is ignored.
PruneDb ==
    /\ Monitor("pruneDb")
    /\ \/ /\ db' = PrunedPools(monitor.min)
          /\ UNCHANGED failures
       \/ /\ MayFail
          /\ UNCHANGED db
    /\ monitor' = Parked
    /\ UNCHANGED <<node, up, current, cache, queue, call, stops>>

\* The minute ticker
Tick ==
    /\ Monitor("wait")
    /\ monitor' = [monitor EXCEPT !.step = "scan"]
    /\ UNCHANGED <<node, up, current, cache, db, queue, call, failures, stops>>

--------------------------------------------------------------------------------

Advance(w) == LookUp(w) \/ FetchLiquidity(w) \/ FetchVolume(w) \/ SavePool(w)

MonitorStep ==
    \/ StartScan \/ CheckHeight \/ SendHeight \/ EndScan
    \/ PruneCache \/ PruneDb \/ Tick

\* Mutant: the queue is only drained between the passes that fill it.
MutSyncerStep == (monitor.step = "wait" /\ TakeHeight) \/ Advance(Syncer)

SyncerStep == TakeHeight \/ Advance(Syncer)

Next ==
    \/ NewBlock
    \/ Start
    \/ Stop
    \/ \E height \in FirstHeight .. MaxHeight : SetLatestBlockHeight(height)
    \/ \E w \in Readers : (\E ids \in IdLists : Read(w, ids)) \/ Advance(w)
    \/ SyncerStep
    \/ MonitorStep

Spec == Init /\ [][Next]_vars

\* The scheduler runs every goroutine; calls to the node time out and calls to
\* the database return; the ticker fires; the supervisor restarts the process.
FairSpec ==
    /\ Spec
    /\ WF_vars(Start)
    /\ WF_vars(SyncerStep)
    /\ WF_vars(MonitorStep)
    /\ \A w \in Readers : WF_vars(Advance(w))

--------------------------------------------------------------------------------
(* Properties                                                              *)

Steps == {"lookup", "liquidity", "volume", "save"}
MonitorSteps == {"scan", "check", "send", "pruneCache", "pruneDb", "wait"}

CallType == [height : Word, ids : Seq(Pools), step : Steps,
             liquidity : Word, volume : Word]
MonitorType == [step : MonitorSteps, cursor : Word, end : Word, min : Word]

\* Type invariant: heights are machine words, records and calls are well formed,
\* and the channel holds no more than its capacity.
TypeOK ==
    /\ node \in Word /\ current \in Word
    /\ up \in BOOLEAN
    /\ cache \subseteq Record /\ db \subseteq Record
    /\ queue \in Seq(Word) /\ Len(queue) <= QueueCap
    /\ monitor \in MonitorType
    /\ call \in [Workers -> CallType]
    /\ failures \in Nat /\ stops \in Nat

\* What pkg/indexer promises of PoolStatusesAt, "poolStatuses for a specific
\* height": every record, in memory or in the database, holds the liquidity and
\* the volume of exactly its height, though the two are fetched by separate
\* calls while the chain, the current height and the other callers move on.
CoherentRecords ==
    \A r \in cache \cup db : r.liquidity = r.height /\ r.volume = r.height

\* No height is waiting twice in the channel, and none the scan has yet to reach:
\* a pass over the window starts only when the previous one was consumed, even
\* though the scan blocks in the middle when the channel is full.
QueueAscending ==
    /\ \A i, j \in DOMAIN queue : i < j => queue[i] < queue[j]
    /\ monitor.step \in {"check", "send"} =>
          \A i \in DOMAIN queue : queue[i] < monitor.cursor

\* A record of the window reads the same in memory and in the database, unless
\* its save is under way or some call failed: nothing the concurrent prune,
\* duplicate fetches or a stop between caching and saving do loses it.
InWindow(r) == r.height + Blocks >= current
CacheMatchesDatabase ==
    up /\ failures = 0 =>
        /\ \A r \in cache : InWindow(r) =>
              \/ r \in db
              \/ \E w \in Workers : At(w, "save") /\ Fetched(w) = r
        /\ \A r \in db : InWindow(r) => r \in cache

\* What OSMOSIS_BLOCKS promises, "how many blocks to look back": while the
\* process runs, no step removes from the cache a record that is at most Blocks
\* behind the current height.
WindowKept ==
    [][up /\ up' =>
        \A r \in cache : InWindow(r) =>
            \E s \in cache' : s.height = r.height /\ s.pool = r.pool]_vars

\* The whole component keeps the promise of PoolWindow: exact records, forgotten
\* only behind the window or with the process, reloaded from the database.
Window == INSTANCE PoolWindow WITH Heights <- Word
KeepsWindow == Window!Spec

\* The inductive invariant behind these on a tall chain: every height a call or
\* the channel holds is one the node serves as itself, a call in progress has the
\* answers of its own height, and a prune height is at or below the window.
Served(h) == 0 < h /\ h <= node
ChainInv ==
    /\ FirstHeight <= node /\ node <= MaxHeight
    /\ up => FirstHeight <= current /\ current <= node
CallInv ==
    \A w \in Workers : Busy(w) =>
        /\ Served(call[w].height)
        /\ call[w].step \in {"volume", "save"} => call[w].liquidity = call[w].height
        /\ call[w].step = "save" => call[w].volume = call[w].height
QueueInv == \A i \in DOMAIN queue : Served(queue[i])
MonitorInv ==
    /\ monitor.step \in {"check", "send"} => 0 < monitor.cursor /\ monitor.end <= node
    /\ monitor.step = "send" => monitor.cursor < monitor.end
    /\ monitor.step \in {"pruneCache", "pruneDb"} => monitor.min + Blocks <= current
PoolInv == ChainInv /\ CallInv /\ QueueInv /\ MonitorInv

\* A monitored pool missing from a height of the window is eventually cached,
\* unless the height leaves the window or the process stops first: failed
\* fetches are queued again on a later pass.
Missing(h, p) ==
    up /\ current - Blocks <= h /\ h < current /\ ~Has(h, p)
MissingEventuallySynced ==
    \A h \in FirstHeight - Blocks .. MaxHeight - 1, p \in Monitored : Missing(h, p) ~> ~Missing(h, p)

\* Records of former windows, once far behind, are eventually gone from the cache
\* and from the database.
Stale(store, h) ==
    /\ up
    /\ h + (Blocks * 3) \div 2 < current
    /\ \E r \in store : r.height = h
OldEventuallyPruned ==
    \A h \in FirstHeight - Blocks .. MaxHeight - Blocks :
        /\ Stale(cache, h) ~> ~Stale(cache, h)
        /\ Stale(db, h) ~> ~Stale(db, h)

\* The monitor never waits for ever on a full channel: it comes back to its
\* ticker again and again, as long as the process runs.
MonitorKeepsRunning == []<>(monitor.step = "wait" \/ ~up)

================================================================================
