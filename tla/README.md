# Verification of osmosis-publisher

osmosis-publisher connects to an Osmosis full node, follows its blocks, transactions, mempool and
pool events, keeps an index of pool records, prices and denom traces, and publishes what it sees as
messages of the Synternet data layer. This directory holds TLA+ modules that model its stateful
parts, the TLC configurations that check them on small instances, and TLAPS proofs.

Run in this directory: `tlc -config PoolIndexerSafety.cfg MCPoolIndexer.tla` (the module of a
configuration is the `MC` module its name starts with), `tlapm PoolIndexerProofs.tla`.

## The system

| Part | Source | State | Operations | Talks to |
|---|---|---|---|---|
| Pool records | `internal/indexer/pool.go`, `internal/repository` | `pools` (height → pool → record) under a lock; table of pools | `PoolStatusesAt`, `getPool`, `preHeatPools`, `poolsPrune` | full node (liquidity, volume), database; called by the handlers of blocks and pool events and by the syncer |
| Syncing | `internal/indexer/syncing.go` | channel `syncHeights`; positions of two goroutines | `monitorHeights`, `queueMissingHeights`, `handleSyncing`, `syncHeight` | pool records, prices |
| Block clock | `internal/indexer/indexer.go` | current height and time, blocks per hour | `SetLatestBlockHeight`, `AverageBlockTime`, `BlockToTimestamp` | called by the block handler; read everywhere |
| Prices | `internal/indexer/prices.go`, `subscriptions.price.go` | `PriceMap`: sorted arrays; table of prices | `SetLatestPrice`, `Estimate`, `preHeatPrices`, `pricesPrune` | price feed (NATS), database |
| Volumes | `internal/indexer/volume.go` | none of its own | `CalculateVolumes` and what it calls | pool records, prices, block clock |
| Denom traces | `internal/indexer/ibc.go` | `ibcTraceCache`, a map without a lock; table | `DenomTrace`, `preHeatDenomTraceCache` | full node, database; called by every handler |
| Event streams | `internal/osmosis/rpc.go`, `publisher.go`, `subscriptions.block.go`, `subscriptions.tx.go` | channels, timers, atomic counters | `Subscribe`, `bufferChannel`, `MakeSentinel`, the handlers' loops, `getStatus` | websocket client of the node; the group and context of all goroutines |
| Mempool | `rpc.go` (`Mempool`), `publisher.go` (ticker) | `mempoolSet` | poll, publish | full node |
| Pool messages | `subscriptions.pools.go` | none | `handleMonitoredPools`, `handlePoolSubscriptions` | pool records, volumes, denom traces |
| Lifecycle | `publisher.go`, `cmd/start.go` | group, context | `New`, `SubscribeAll`, `Start`, `Close`, the command | all of the above |
| Unix socket | `pkg/dtlWithSocket` | connection | `Publish`, dial on demand | a local consumer of transactions |
| Rest | `rpc.parsers.go`, `cmd`, options, database setup | none | conversions and wiring | |

What makes them correct, and what is hard about it:

* Pool records must hold the state of the chain at exactly their height, agree with the database,
  and stay for the configured number of blocks. The syncer, two handlers and the prune work on them
  at the same time, records are fetched in two calls, cached before they are saved, and heights are
  machine words that are subtracted from each other.
* Missing heights must be synced in the end, although the channel is small, fetches fail, and the
  goroutine that fills the channel is also the one that prunes.
* Events must be handled in order, none lost without being counted; a silent stream must end the
  process, and the end of the context every goroutine.
* A transaction must be published once while it is in the mempool, and not be forgotten.
* A process that is up must serve or stop; wherever a failure or an interrupt meets it, it must come
  to its end, through the end of every goroutine it waits for, and say by its status how it ended.
* A reader of the socket must find whole frames, in order, and see the messages again after a trouble;
  NATS must get them whatever becomes of the socket.
* Denom lookups must be safe from several goroutines and ask the node no more than needed.
* Prices must stay sorted whatever the order of quotes; estimates must interpolate; volumes must
  add up over records with gaps.

`PROJECT.json` lists the hazards one by one, at their lines.

## The modules

| Module | Models | State and actions |
|---|---|---|
| `PoolIndexer` | pool records and syncing | The variables are those of the code (`current` is `currentBlockHeight`, `queue` is `syncHeights`), plus one program position per goroutine. A call of `PoolStatusesAt` is split where it waits or where others can intervene: `LookUp`, `FetchLiquidity`, `FetchVolume` (which also caches), `SavePool`. The monitor's pass is split at each height and at each send. |
| `PoolWindow` | nothing: the promise | Abstract specification that `PoolIndexer` implements: exact records are learnt and saved, and only records behind the window are forgotten. |
| `EventStream` | subscriptions | Per stream a pump, a bounded buffer, a handler and, for guarded streams, a sentinel with a timer; shared counters. `handled` is a history variable; with it the events lost are those that came and are neither handled nor on their way. `LoadMax`/`SwapMax` are the two halves of the compare-and-swap loop, `GetStatus` is the swap of the telemetry. `Handle` stands for everything a handler does with one event. |
| `LossyQueue` | nothing: the promise | Abstract specification of a channel that may lose what is sent, and keeps the order of the rest. `EventStream` implements it (a channel per stream), and so does `UnixSocket` (a channel per process). |
| `Mempool` | the mempool poll | The node's mempool, in order of arrival, and `mempoolSet`. A poll is one step: one goroutine does it and nothing else touches the set. `announced` and `published` are history variables. |
| `Publisher` | the life of the process | `main` is the line of `startCmd.Run`, `New`, `Start` or `Close` the main goroutine has reached; `workers`, `pumps`, `handlers` and `sentinels` are the goroutines of the group; `interrupted` and `failed` say why the context is done; `captured` whether an interrupt goes to the context. `Mempool` is composed in: its polls are steps of the worker `"mempool"`, and a restart empties its set. |
| `UnixSocket` | the socket for transactions | `Publish` split where the reader can intervene: `Dial`, `Marshal`, one `WritePiece` per piece the kernel takes, `PublishTo` NATS. The reader accepts, reads whole frames, closes, stops and comes back. `calm` counts the messages since the last trouble. |
| `DenomTraces` | the denom cache | Preheat, then lookups by several goroutines. Accesses to the map have a beginning and an end, so that they can overlap. |
| `PriceHistory` | prices of one token | `prices` (the sorted array), `table`, the quote being saved, `anchor` (`lastBlockTimestamp`). A start loads the array that `Set` makes of the rows, which is the only sorted one (`Arrays`). `Insert`, `Nearest` and `Estimate` are the functions of `PriceMap`. |
| `PoolMessages` | messages on pools | Two goroutines build a message each: `TakeBlock` and `Measure` are the two halves of `SetLatestBlockHeight` (the height first, then its time and the block rate), `ReadHeight` is the first read of `BlockToTimestamp`, `AskStatuses` and `LookBack` the calls of `PoolStatusesAt`, `Calculate` the end of `CalculateVolumes`, `FetchBlock` the last call to the node. Any pool may fail in any call; a lookback in which one does is left out of all statuses (`Gathered`). The ids are distinct, since `WithPoolIds` and `ExtractUniquePoolIds` keep one of each. The volumes of a status are the set of their heights, since they are sorted by height before they are compared. |
| `RelativeVolume` | the volume algorithm | The sums of `calculateRelativeVolumeValueCumulatively`; one step per turn of the loop; the initial states are all caches and all messages within the bounds. The properties compare it with `TradedSince`, the sum of what each record is worth over the one before it. |
| `MC...` | | Instances for TLC. |
| `...Proofs` | | Theorems and proofs about `PoolIndexer`, `EventStream`, `DenomTraces`, `UnixSocket`, `Publisher` with `Mempool`, `PriceHistory`, `PoolMessages` and `RelativeVolume`. |

Definitions named `Mut...` are deliberate mistakes, each placed before the definition it would
replace; `PROJECT.json` pairs each property with one that breaks it.

Abstractions worth knowing:

* The liquidity and the volume of a pool record are the height of the state the node answered with,
  so a record is right when both equal its height. `ContextWithHeight` ignores heights that are not
  positive; the node then answers with its latest state (`StateAt`).
* Machine words have `Modulus` values. Subtractions wrap (`Minus`), conversions to `int64` make the
  upper half negative (`Ignored`).
* A call to the node or the database may fail as long as the bound `MaxFailures` allows; the node
  answers with the state asked for, or of its latest block. `MaxStops` bounds stops of the process;
  they lose the memory and keep the tables.
* `PoolMessages` takes the records as `PoolIndexer` shows them to be: a volume is the height it
  was asked for. Its chain is taller than the lookbacks; shorter ones are in `PoolIndexer`.
* Data races: two accesses to the map of denom traces that overlap, one of them a write, may end the
  process, make a read miss or lose a write. `BlockToTimestamp` reads the current height and its
  time one after the other, while the block handler stores them one after the other; one such read
  stands for all of a message.
* In `Publisher` a stream is a pump, a handler and a sentinel without their inside, which is in
  `EventStream`, and any of its errors may come at any time. A call of the main goroutine to the node
  fails once the context is done.
* In `UnixSocket` a frame is a few pieces; a connection whose other end is gone fails at some write.
* A denom trace is its denom, an event its number, a price an integer. Estimates are exact
  fractions and volume sums exact integers in halves: rounding of floats is left out.

## The runs

| Run | Shows | Bounds |
|---|---|---|
| `PoolIndexerSafety` | records exact, queue without repetition, cache and database agree on the window; the component implements `PoolWindow`, which keeps the window | one pool, three blocks to index on a chain of height 5 to 6, a channel of two, so that two heights wait in it while the monitor waits with a third, a caller that asks for the current height and for the fourth behind it, beyond the window, beside the syncer, one failure, one stop |
| `PoolIndexerLiveness` | missing heights are synced, the monitor never hangs, old records leave cache and database | two pools, a channel shorter than the window, a chain that moves two blocks so that records fall behind the prune height, one failure, one stop |
| `PoolIndexerShortChain` | *violated:* the window is lost on a chain with less than 1.5 times as many blocks as are indexed | height 2, two blocks |
| `EventStreamOrder` | the streams implement `LossyQueue`, dropped events are counted, the longest queue is not forgotten, a silent stream ends the process | two streams of three and two events, one of them guarded, buffers of two, a timer of one tick: overflow, and two pumps that saw different lengths |
| `PublisherLife` | a process that is up serves or stops, it stops in the end; mempool transactions are published once, and those that stay are published | the guarded stream of transactions, written to the socket, and the one of pool events; two transactions, one per answer; interrupts, failures and restarts without a bound |
| `PublisherStatus` | *violated:* a process that ended for a failure has an exit status that says so | the same instance |
| `UnixSocketReader` | a connection carries whole frames, the reader gets an ordered part of the messages, NATS gets all of them, and after a trouble at most one more is lost | two processes of three messages each, frames of two pieces, a kernel buffer of three, two closed connections or stops of the reader |
| `DenomTracesSafety` | the node is asked once per goroutine, and never for what the start was given; preheat is all or nothing (part of `TypeOK`); saved is cached | two goroutines, three denoms on two pages or unlisted, two failures, two stops |
| `DenomTracesRace` | *violated:* lookups may end the process | no failure needed |
| `PriceHistorySafety` | sorted array, agreement with the table, interpolation, window of the table | four ticks, one block indexed (so that prices do get pruned), two values, one failure, one stop |
| `PoolMessagesHandlers` | messages hold each lookback for all their pools or for none, at the heights they state, nothing newer than their block and no time far from it, and every block gets one | two monitored pools, and an event that names them in another order; lookbacks of one and two hours, a chain that grows by two blocks, of which some are never announced; one or two ticks between blocks, so that the block rate is raised or kept |
| `RelativeVolumeExact` | exact where records exist, bounded and ordered where they are missing | all caches of four heights with volumes 0 to 2 and two prices, all messages of up to three heights |

The bounds are the smallest at which the behaviours that matter occur: a channel that is full in the
middle of a pass, a record that leaves the window while it is fetched, a buffer that overflows, a
compare-and-swap that fails, a transaction that comes back, a price that is pruned. `RelativeVolume`
stops when the computation is over and `UnixSocket` when its bounded messages are sent, hence their
`CHECK_DEADLOCK FALSE`.

Fairness. `PoolIndexer` assumes weak fairness of the start of the process (a supervisor restarts
it), of the syncer, the monitor and every call: goroutines are scheduled, calls to the node time out
after seconds, the ticker fires every minute. `EventStream` assumes it of pumps, handlers and
sentinels, and of the clock; nothing obliges the node to emit, the client to close a channel or the
owner to cancel. `PoolMessages` assumes that the block handler goes
on with the event it took, since its calls time out; the pool handler needs no such assumption.
`Publisher` assumes that the main goroutine goes on, that the goroutines that select on the context
take it once it is done, one after the other, and that the node answers again and again (a failing
poll may come between any two answers); nothing obliges the metrics server to end, a stream to close
or a stalled reader to read. `UnixSocket` assumes that the publisher goes on and that the reader reads
the connections it keeps open, which its liveness needs because a `Write` has no deadline; the reader
need not listen again. New blocks, interrupts, stops, failures and quotes are never obliged to happen.

## What the checks found

1. `syncing.go:41`: `current - (blocks*3)/2` wraps around on a chain with fewer than 1.5 times the
   configured blocks, and the prune empties cache and database every minute.
2. `ibc.go:21`: the map of denom traces is accessed by several goroutines without a lock.
3. `cmd/start.go:67` and `:81`: when `New` fails, and when a goroutine ends the publisher with an error
   (a silent stream, say), the command logs it and returns; the process exits with status 0. README.md
   deploys it with `restart: on-failure`, which starts a container again only after another status.

Seen on the way, visible in the models but stated by no property: the sentinel is reset when an event
is taken (`publisher.go:328`), so a handler that works for longer than the timeout ends the process
although events wait; an answer without transactions returns before `mempoolSet` is cleaned
(`rpc.go:287`); a lookback to before the first block (`subscriptions.pools.go:46`) becomes a huge height for
the cache and a negative one for the node, which ignores it, so that the latest state is stored under a
height that does not exist, and the volumes are then computed over all heights from the message's to the
huge one: the first record found there asks `make` for almost 2^64 elements, which panics, and without one
the loop has as many turns (`volume.go:182` to `:192`; the proofs exclude such chains by `TallChain`, and
the chain of `PoolMessages` is taller than the lookbacks); of a window that wraps around (`syncing.go:60`) nothing is queued, or height 0; a reader of the socket that
stays connected and stops reading blocks the handler of transactions and with it the end of the process
(`dtlSocket.go:82`); an interrupt leaves interrupts captured until `Close` is over (`start.go:76`), so that
a second one is dropped while it waits; of several heights below the last record only one gets a volume (`volume.go:166`);
`PriceMap.Prune` removes nothing (`prices.go:109`), and the threshold for the table depends on the time
of the first block of the process and does not move while it runs; `BlockAt` sends its height to a
client that ignores it and returns the latest block (`rpc.go:231`), so the height of a message on an
event is not that of its statuses; lookbacks of such a message may be counted at two block rates.

Outside the models, except for the last: the README's `OSMOSIS_BLOCKS` is read as `BLOCKS_TO_INDEX`
(`cmd/start.go`); `subscribeOsmosisEvents` returns in the first turn of its loop; the comment of
`Estimate` speaks of the average of two prices where the code interpolates, and the one at
`volume.go:147` multiplies a difference of volumes by `price[i]` where code and test take the average of
the two prices. `Publisher.Close` waits
for the goroutine of the metrics server, which does not look at the context: `StopsInTheEnd` has to allow
for it.

## What is proved

Every theorem is about the specification of its module and holds for every value of the constants
that the module's assumption admits: any number of pools, goroutines, streams, messages, failures
and restarts, any capacity and any lookbacks. Each follows from an inductive invariant, which was
checked by TLC as an invariant of the module's run before it was proved. No theorem uses fairness.

### `PoolIndexerProofs`

* `TypeCorrect`: `Spec => []TypeOK`.
* `QueueIsAscending`: `Spec => []QueueAscending`; a pass starts on an empty channel and appends
  growing heights, and the syncer takes from the other end.

and, on a chain taller than everything looked back to (`TallChain`: the first height of the process
exceeds 1.5 times `Blocks` and every lookback, and heights fit in half a word):

* `RecordsAreCoherent`, `PoolInvHolds`: `Spec => []CoherentRecords`, `Spec => []PoolInv`.
* `WindowIsKept`: `Spec => WindowKept`.
* `ImplementsWindow`: `Spec => KeepsWindow`, the refinement of `PoolWindow`.
* `CacheIsSaved`: `Spec => []CacheMatchesDatabase`.

`TallChain` is necessary: `PoolIndexerShortChain` is a counterexample without it. `WindowKept` is only
in that run; on a tall chain the refinement of `PoolWindow` says as much, and the theorem proves both.
The inductive invariant is `TypeOK /\ PoolInv /\ CoherentRecords`. Coherence alone is not inductive:
a record is built from two answers, so `CallInv` says that a call in progress carries the answers of
its own height, `Served` that this height is positive and committed (the node would otherwise answer
with another state), `QueueInv` and `MonitorInv` that the syncer and the monitor only bring such
heights in, `ChainInv` that the current height is one of the chain. `MonitorInv` also bounds the
prune height taken earlier by the current window, which is what `WindowKept` and the step of the
refinement for a prune need: the height can only have grown since. `CacheIsSaved` needs three facts
more: a record between its caching and its saving is still cached if the window has it
(`SavingIsCached`), a record is never of a height to come, and a process that is down has no calls.
Two callers that fetch the same record save the same one, by coherence.

### `EventStreamProofs`

* `TypeCorrect`; `ImplementsQueue`: `Spec => KeepsOrder`, the refinement of `LossyQueue`;
  `PeakIsKept`; `LossesAreCounted`.

`InOrder` follows an event from the handler back over the buffer to the pump: the numbers on the way
ascend, between the last handled and the last that came. The refinement maps a drop to a stutter, the
handling of an event to a delivery that skips what was dropped. `PeakInv` adds that a pump about to
swap has measured more than what it compares with, so a swap that succeeds never lowers the counter.
`LossesAreCounted` counts over all streams: a drop puts exactly one event into the set of the lost
ones, and every other step leaves that set alone.

### `DenomTracesProofs`

* `TypeCorrect` (with the preheat that is all or nothing); `SavedDenomsCached`; `NodeAskedOnce`.

The last two hold as long as no two accesses to the map overlapped (`raced`), which is what the code
leaves open. The invariant adds that what a goroutine asked is cached or in its hand, that what it is
about to save is cached, and that a goroutine that writes is alone as long as nothing raced. For what
the start was given (`filled`) it says that all of it is cached, and none of it asked for (`FilledCached`).

### `UnixSocketProofs`

* `TypeCorrect`; `WholeFrames`: `Spec => []FramesAligned`; `ImplementsQueue`: `Spec => KeepsOrder`.

`FramesInv` describes each connection piece by piece: what was read of a frame, and then pieces of
which each continues the frame or begins that of a later message. `TipInv` ties the end of the open
connection to the position of `Publish`; `OneKeptOpen` says that the reader keeps at most one
connection of a process open, so that messages of two of them cannot be read out of order; `BehindInv`
that the reader has nothing `Publish` still works at.

### `PublisherProofs`

* `TypeCorrect`; `AlwaysServesOrStops`: `Spec => []ServesOrStops`; `PublishesOnce`:
  `Spec => []PublishedOnce`.
* `EndIsFinal`: once the context is done and `Start` has returned, no goroutine joins the group and
  the process stops until it has ended, the part of `StopsInTheEnd` that is safety.

`Guards` and `Runs` say, for each place of the main goroutine, which sentinels and workers are there
unless the context is done: those that end any other way than by the context end it. For the mempool
the invariant is that whatever was announced and has not left is in the next answer of the node as
well and in `mempoolSet`; the first part holds because a transaction only moves forward.

### `PriceHistoryProofs`

* `TypeCorrect`; `CacheHasTable`: `Spec => []CacheMatchesTable`; `WindowIsKept`: `Spec => WindowKept`;
  `EstimatesInterpolate`: `Spec => []EstimateInterpolates`.

The position of `PriceMap.Set` is a cardinality; a lemma shows that the indices before a time are an
initial segment of a sorted array, so that an insertion keeps it sorted. That there is a segment rests
on the least-number principle for natural numbers. `SavedInv` adds that no price is of the future and
that the quote being saved is in the array. `EstimatesInterpolate` says that `Nearest` finds the
neighbours of a time and that the mean weighted by the distances lies on the line through them.

### `PoolMessagesProofs`

* `TypeCorrect` (with the rate that is never zero); `LookbacksShared`; `CurrentVolume`; `StatedRate`;
  `NamesNewest`; `ClockIsNear`: the six invariants of the run.

`MessagesInv` says of a message being built what the properties say of the one that goes out.
`Shared` is the part about lookbacks: it is restored by each of them because an answer that is added
is complete (lemma `Complete`): no pool failed, so no status was empty, and each gets the height.
`ClockInv` says that the time
belongs to the current height unless the block handler is between storing the two, and that every
other height it was told is older. `RateInv` bounds the ticks since the first block by `MaxGap` for
each block since: the quotient is then at least one, given `MaxGap <= HourTicks`, the minute of
the sentinel. `BlockOK` needs that only the goroutine that uses the rate changes it.

### `RelativeVolumeProofs`

* `ExactValues`, `BoundedValues`: `Spec => []ExactWhereRecorded`, `Spec => []Bounded`.
* `SumNeverFalls`, `CallEnds`: no step lowers the sum, and every step lowers the number of steps left.

The properties hold of any number of heights, any volumes that do not fall with the height and any
prices. `Inv` says that after each turn the sum is what was traded since the record reached
(`Progress`), since two records next to each other in the list have none between them; that what is
set lies between what was traded since its height and the sum so far, and grows from the latest
height to the earliest (`Ordered`); and that, while all wanted heights so far have records, none of the
records passed is as early as the next wanted height (`Exact`), so that the next turn that sets it is
at its own record. `TradedSince` is a difference of two sums of a recursive function. The prover has no
induction, so the lemmas about it go by the least counterexample: that the function exists is put
together from its beginnings (`SumsUpToExist`, `SumsUpToAgree`, `SumsIs`), and that it grows, or stays
where nothing is added, follows from its equation (`SumsGrow`, `SumsStay`). A sorted list of a finite
set holds all of it because it is injective and as long as the set.

### Only model-checked

All liveness: `MissingEventuallySynced`, `StopsInTheEnd` and the others rest on fairness, which is
beyond the prover. Every safety property of a passing run is also a theorem.

## Plan

Done, in this order: `PoolIndexer` with `PoolWindow` and its proofs, `EventStream`, `Mempool`,
`DenomTraces`, `PriceHistory`, `RelativeVolume`, `PoolMessages`; then the block clock in `PoolMessages`,
`UnixSocket`, `LossyQueue` with both of its refinements, and `Publisher` with `Mempool` composed in;
then the proofs of all safety properties, those of `RelativeVolume` last.

What would come next:

1. Safety that liveness rests on, as `CallEnds` of `RelativeVolume` and `EndIsFinal` of `Publisher`:
   that a call of `PoolStatusesAt`, a pass of the monitor or a message on a block always has a next
   step, and only so many.
2. The value of a volume without any record.

## Not modelled

* Message translation (`rpc.parsers.go`, `pkg/types`): pure conversion between protobuf and JSON, without
  state.
* The command line, the options and their getters (`cmd/root.go`, `cmd/utils.go`, `options.go`): wiring.
  `Publisher` begins where `startCmd.Run` does; a failure of the connections to NATS or to the database
  before that is a panic.
* Opening and migrating the database; Prometheus metrics; NATS itself, which is taken to accept messages.
* `DiagnosticsObtainLiquidity` and `DiagnosticsObtainVolume` of the publisher, which nothing calls.
* In `PriceHistory` the unit of a token and the block rate of the prune threshold; in `RelativeVolume` the
  value of a volume without any record.

Also left out:
that `SaveTokenPrice` and `SavePool` name no conflict target in their upserts, which databases treat
differently; the tables are modelled with the upsert the code asks for.
