------------------------------- MODULE Publisher -------------------------------
(***************************************************************************)
(* The life of the process (cmd/start.go, Publisher.New, Start, Close):    *)
(* the goroutines of the group it starts, how the first failure or an      *)
(* interrupt ends them, and how the process waits for them.  One of them   *)
(* polls the mempool: module Mempool is composed in.                       *)
(*                                                                         *)
(* The group's context is done when an interrupt came or a goroutine       *)
(* failed.  A stream has a pump, a handler and perhaps a sentinel; module  *)
(* EventStream has their inside.                                           *)
(***************************************************************************)
EXTENDS Naturals, Sequences

CONSTANTS
    Subscriptions, \* the streams, in the order SubscribeAll subscribes to them
    Guarded,       \* those whose handler makes a sentinel
    ToSocket,      \* those whose messages also go to the Unix socket
    Txs, Limit     \* of Mempool

Streams == {Subscriptions[i] : i \in DOMAIN Subscriptions}

ASSUME PublisherAssumption ==
    /\ Subscriptions \in Seq(Streams) /\ Subscriptions # <<>>
    /\ Guarded \subseteq Streams
    /\ ToSocket \subseteq Streams
    /\ Limit \in Nat \ {0}

VARIABLES
    main,        \* where the main goroutine is
    turn,        \* the subscription in turn
    interrupted, \* an interrupt ended the context of the command
    failed,      \* a failure ended the context of the publisher
    captured,    \* interrupts go to the context, not to the default handler
    feed,        \* the subscription to prices is active
    workers,     \* goroutines of indexer, mempool ticker and metrics server
    pumps, handlers, sentinels, \* the streams these goroutines run for
    stalled,     \* the streams whose handler waits for the reader of the socket
    mempool, mempoolSet, announced, published  \* of Mempool

M == INSTANCE Mempool

goroutines == <<workers, pumps, handlers, sentinels, stalled>>
mempoolVars == <<mempool, mempoolSet, announced, published>>
context == <<interrupted, failed, captured>>
vars == <<main, turn, feed, context, goroutines, mempoolVars>>

\* p.Context.Done()
Done == interrupted \/ failed

NoGoroutine ==
    /\ workers = {} /\ pumps = {} /\ handlers = {} /\ sentinels = {} /\ stalled = {}

Fresh ==
    /\ main = "connect"
    /\ turn = 1
    /\ interrupted = FALSE
    /\ failed = FALSE
    /\ captured = TRUE
    /\ feed = FALSE
    /\ NoGoroutine

Init == Fresh /\ M!Init

--------------------------------------------------------------------------------
(* The main goroutine.  Its calls to the node fail once the context is done.   *)

Goto(from, to) == main = from /\ main' = to

\* The end of the process takes its goroutines with it.
End(how) ==
    /\ main' = how
    /\ feed' = FALSE
    /\ workers' = {} /\ pumps' = {} /\ handlers' = {} /\ sentinels' = {} /\ stalled' = {}
    /\ UNCHANGED <<turn, captured, interrupted, mempoolVars>>

\* newRpc
Connect ==
    /\ ~Done
    /\ Goto("connect", "index")
    /\ UNCHANGED <<turn, feed, context, goroutines, mempoolVars>>

\* indexer.New; handleSyncing starts monitorHeights before all else.
NewIndexer ==
    /\ ~Done
    /\ Goto("index", "identify")
    /\ workers' = {"syncer", "monitor"}
    /\ UNCHANGED <<turn, feed, context, pumps, handlers, sentinels, stalled, mempoolVars>>

\* rpc.ChainID; the durable stream of prices may be missing.
ChainID ==
    /\ ~Done
    /\ Goto("identify", "feed")
    /\ UNCHANGED <<turn, feed, context, goroutines, mempoolVars>>

\* New fails: the command returns, with the goroutines of the indexer running.
NewFails ==
    /\ main \in {"connect", "index", "identify"}
    /\ failed' = TRUE
    /\ End("exited")

SubscribePriceFeed ==
    /\ Goto("feed", "subscribe")
    /\ feed' = TRUE
    /\ UNCHANGED <<turn, context, goroutines, mempoolVars>>

\* Mutant: no handler makes a sentinel.
MutSentinelsOf(s) == {}

\* The sentinel the handler of a stream makes first.
SentinelsOf(s) == {s} \cap Guarded

\* The next stream: its handler starts the pump, then makes the sentinel.
Subscribe ==
    /\ ~Done
    /\ main = "subscribe"
    /\ LET s == Subscriptions[turn]
       IN  /\ handlers' = handlers \cup {s}
           /\ pumps' = pumps \cup {s}
           /\ sentinels' = sentinels \cup SentinelsOf(s)
    /\ IF turn < Len(Subscriptions) THEN turn' = turn + 1 /\ UNCHANGED main
       ELSE main' = "serve" /\ UNCHANGED turn
    /\ UNCHANGED <<feed, context, workers, stalled, mempoolVars>>

\* SubscribeAll stops at the first failure, and Start fails.
SubscribeFails ==
    /\ main \in {"feed", "subscribe"}
    /\ main' = "up"
    /\ failed' = TRUE
    /\ UNCHANGED <<turn, interrupted, captured, feed, goroutines, mempoolVars>>

\* The metrics server, if a URL is given, and the mempool ticker.
Start(metricsUrl) ==
    /\ Goto("serve", "up")
    /\ workers' = workers \cup {"mempool"} \cup (IF metricsUrl THEN {"metrics"} ELSE {})
    /\ UNCHANGED <<turn, feed, context, pumps, handlers, sentinels, stalled, mempoolVars>>

\* The select of the command: an interrupt leaves interrupts captured while Close
\* waits, the end of the publisher does not.  When both are ready either may be taken.
Shutdown ==
    /\ interrupted
    /\ Goto("up", "close")
    /\ UNCHANGED <<turn, feed, context, goroutines, mempoolVars>>

Stopped ==
    /\ Done
    /\ Goto("up", "close")
    /\ captured' = FALSE
    /\ UNCHANGED <<turn, feed, interrupted, failed, goroutines, mempoolVars>>

\* Publisher.Close cancels the context, which is done already, ends the price feed, and
\* rpc.Close ends the connection to the node.
Close ==
    /\ Goto("close", "wait")
    /\ feed' = FALSE
    /\ UNCHANGED <<turn, context, goroutines, mempoolVars>>

\* Group.Wait, and the end of the command.
Wait ==
    /\ main = "wait"
    /\ NoGoroutine
    /\ UNCHANGED failed
    /\ End("exited")

--------------------------------------------------------------------------------
(* The goroutines.                                                             *)

Failure ==
    /\ failed' = TRUE
    /\ UNCHANGED <<interrupted, captured>>

Rest == <<main, turn, feed, mempoolVars>>

\* Mutant: the monitor waits for the channel of the syncer without the context.
MutHeedsContext == {"syncer", "mempool"}

\* The workers that select on the context; the metrics server does not.
HeedsContext == {"syncer", "monitor", "mempool"}

WorkerEnds(g) ==
    /\ Done
    /\ g \in workers \cap HeedsContext
    /\ workers' = workers \ {g}
    /\ UNCHANGED <<context, pumps, handlers, sentinels, stalled, Rest>>

\* ListenAndServe returns, say because its port is taken; its error is dropped.
MetricsEnds ==
    /\ "metrics" \in workers
    /\ workers' = workers \ {"metrics"}
    /\ UNCHANGED <<context, pumps, handlers, sentinels, stalled, Rest>>

\* The pump ends with the context or with its events.
PumpEnds(s) ==
    /\ s \in pumps
    /\ pumps' = pumps \ {s}
    /\ UNCHANGED <<context, workers, handlers, sentinels, stalled, Rest>>

\* The handler ends with the context or, without an error, with its closed channel.
HandlerEnds(s) ==
    /\ Done \/ s \notin pumps
    /\ s \in handlers \ stalled
    /\ handlers' = handlers \ {s}
    /\ UNCHANGED <<context, workers, pumps, sentinels, stalled, Rest>>

\* An event finds that the timer of the sentinel has fired.
HandlerFails(s) ==
    /\ s \in handlers \cap Guarded
    /\ s \notin stalled
    /\ handlers' = handlers \ {s}
    /\ Failure
    /\ UNCHANGED <<workers, pumps, sentinels, stalled, Rest>>

\* The handler writes to a socket whose reader does not read, until it does again.
Stall(s) ==
    /\ s \in handlers \cap ToSocket
    /\ stalled' = IF s \in stalled THEN stalled \ {s} ELSE stalled \cup {s}
    /\ UNCHANGED <<context, workers, pumps, handlers, sentinels, Rest>>

SentinelEnds(s) ==
    /\ Done
    /\ s \in sentinels
    /\ sentinels' = sentinels \ {s}
    /\ UNCHANGED <<context, workers, pumps, handlers, stalled, Rest>>

SentinelFires(s) ==
    /\ s \in sentinels
    /\ sentinels' = sentinels \ {s}
    /\ Failure
    /\ UNCHANGED <<workers, pumps, handlers, stalled, Rest>>

\* A tick of the mempool ticker; calls fail once the context is done.
Polls(step) ==
    /\ "mempool" \in workers
    /\ step
    /\ UNCHANGED <<main, turn, feed, context, goroutines>>

--------------------------------------------------------------------------------
(* The environment.                                                            *)

\* A first interrupt ends the context, a second one is dropped as long as interrupts
\* are captured; otherwise it ends the process.
Interrupt ==
    IF captured
    THEN /\ main \notin {"exited", "killed"}
         /\ interrupted' = TRUE
         /\ UNCHANGED <<failed, captured, goroutines, Rest>>
    ELSE main \notin {"exited", "killed"} /\ UNCHANGED failed /\ End("killed")

\* The mempool of the node changes; that matters only while it is polled.
Node ==
    /\ "mempool" \in workers /\ ~Done
    /\ M!NodeStep
    /\ UNCHANGED <<main, turn, feed, context, goroutines>>

\* Somebody starts the process again.
Restart ==
    /\ main \in {"exited", "killed"}
    /\ main' = "connect" /\ turn' = 1
    /\ interrupted' = FALSE /\ failed' = FALSE /\ captured' = TRUE
    /\ M!Restart
    /\ UNCHANGED <<feed, goroutines>>

--------------------------------------------------------------------------------

MainStep ==
    \/ Connect \/ NewIndexer \/ ChainID \/ NewFails
    \/ SubscribePriceFeed \/ Subscribe \/ SubscribeFails
    \/ \E metricsUrl \in BOOLEAN : Start(metricsUrl)
    \/ Shutdown \/ Stopped \/ Close \/ Wait

StreamStep(s) ==
    \/ PumpEnds(s) \/ HandlerEnds(s) \/ HandlerFails(s) \/ Stall(s)
    \/ SentinelEnds(s) \/ SentinelFires(s)

\* A poll that the node answers.
Answered == ~Done /\ (M!PollEmpty \/ M!Poll)

Next ==
    \/ MainStep
    \/ \E g \in workers : WorkerEnds(g)
    \/ MetricsEnds
    \/ \E s \in Streams : StreamStep(s)
    \/ Polls(Answered) \/ Polls(M!PollFails)
    \/ Interrupt \/ Node \/ Restart

Spec == Init /\ [][Next]_vars

\* The goroutines that leave their loop once the context is done.
GoroutineStops ==
    /\ Done
    /\ \/ \E g \in workers : WorkerEnds(g)
       \/ \E s \in Streams : PumpEnds(s) \/ HandlerEnds(s) \/ SentinelEnds(s)

\* Main goes on, since its calls time out; a select takes the context in the end once it
\* is done, in one goroutine after the other; the node answers some polls.  Nothing makes
\* a reader read, a metrics server end or a stream close.
FairSpec ==
    /\ Spec
    /\ WF_vars(MainStep)
    /\ WF_vars(GoroutineStops)
    /\ WF_vars(Polls(Answered))

--------------------------------------------------------------------------------
(* Properties                                                                  *)

Places == {"connect", "index", "identify", "feed", "subscribe", "serve", "up", "close",
           "wait", "exited", "killed"}

\* The types of the variables, those of Mempool included; stalled handlers run, and
\* prices and mempool polls come from a process that has an indexer.
TypeOK ==
    /\ main \in Places
    /\ turn \in DOMAIN Subscriptions
    /\ {interrupted, failed, captured, feed} \subseteq BOOLEAN
    /\ workers \subseteq {"syncer", "monitor", "mempool", "metrics"}
    /\ pumps \subseteq Streams /\ handlers \subseteq Streams
    /\ sentinels \subseteq Guarded
    /\ stalled \subseteq handlers \cap ToSocket
    /\ feed => main \in {"subscribe", "serve", "up", "close"}
    /\ M!TypeOK

\* A process that is up, and whose context is not done, has the price feed, the mempool
\* ticker and the indexer, and for each guarded stream the handler, or at least the
\* sentinel that ends the process (Start fails with the first subscription that does).
ServesOrStops ==
    main = "up" /\ ~Done =>
        /\ feed
        /\ {"syncer", "monitor", "mempool"} \subseteq workers
        /\ Guarded \subseteq handlers \cup sentinels

\* What may hold up the end of the process for ever.
Held == "metrics" \in workers \/ stalled # {}

\* An interrupt or a failure ends the process, through the end of every goroutine it
\* waits for, unless the metrics server or a reader of the socket holds it up again
\* and again (Publisher.Close and rpc.Close, Group.Wait).
StopsInTheEnd == Done ~> main \in {"exited", "killed"} \/ Held

\* No transaction is published twice while it stays in the mempool (rpc.Mempool).
PublishedOnce == M!PublishedOnce

\* A transaction that stays among those the node returns is published by a process that
\* stays up (the mempool ticker of Start).
StayingIsPublished ==
    \A t \in Txs :
        <>[](t \in M!Window /\ "mempool" \in workers /\ ~Done) => <>(t \in published)

\* The exit status: the command returns nothing, and main ends as if all was well.
Status == IF main = "killed" THEN 1 ELSE 0

\* README.md:300 deploys the publisher with "restart: on-failure": a process that ended
\* for a failure has to say so by its exit status (cmd/start.go, Run).
FailureHasStatus == main = "exited" /\ failed /\ ~interrupted => Status # 0

================================================================================
