------------------------------ MODULE EventStream ------------------------------
(***************************************************************************)
(* The way of an event from the Osmosis node to its handler: rpc.Subscribe *)
(* starts a pump (bufferChannel) that moves events from the channel of the *)
(* websocket client into a larger one and drops them when that is full; a  *)
(* handler takes them from there, one at a time.  handleBlocks and         *)
(* handleTransactions guard their stream with a sentinel (MakeSentinel), a *)
(* timer each event resets and whose expiry ends the process;              *)
(* handlePoolSubscriptions does not.  All pumps count in the same atomics, *)
(* which the telemetry (getStatus) swaps out concurrently.                 *)
(*                                                                         *)
(* An event is its number in its stream, and comes when the pump receives  *)
(* it.                                                                     *)
(***************************************************************************)
EXTENDS Naturals, FiniteSets, SequencesExt

CONSTANTS
    Streams,    \* the subscriptions
    Guarded,    \* those whose handler makes a sentinel
    Capacity,   \* size of the buffered channel
    MaxEvents,  \* per stream: bound on the events that come
    Timeout     \* ticks of the clock until a sentinel expires

ASSUME EventStreamAssumption ==
    /\ Guarded \subseteq Streams
    /\ Capacity \in Nat \ {0}
    /\ MaxEvents \in [Streams -> Nat]
    /\ Timeout \in Nat \ {0}

VARIABLES
    ctx,        \* the context all goroutines share: "open" or "done"
    closed,     \* per stream: the client closed its channel
    taken,      \* per stream: events its pump has received
    pump,       \* per stream: the goroutine of bufferChannel
    buffer,     \* per stream: the buffered channel
    handler,    \* per stream: the goroutine of the handler
    handled,    \* history, per stream: the events that were handled
    last,       \* per stream: the event handled last
    timer,      \* per guarded stream: ticks until the sentinel expires
    watcher,    \* per guarded stream: the goroutine of MakeSentinel
    counters,   \* the atomics: events skipped, longest queue seen
    telemetry   \* the longest queue getStatus has seen

vars == <<ctx, closed, taken, pump, buffer, handler, handled, last, timer,
          watcher, counters, telemetry>>
node == <<closed, taken>>
work == <<handler, handled, last>>
guard == <<timer, watcher>>
stats == <<counters, telemetry>>

Larger(a, b) == IF a > b THEN a ELSE b
Receiving == [step |-> "recv", event |-> 0, length |-> 0, old |-> 0]

Init ==
    /\ ctx = "open"
    /\ closed = [s \in Streams |-> FALSE]
    /\ taken = [s \in Streams |-> 0]
    /\ pump = [s \in Streams |-> Receiving]
    /\ buffer = [s \in Streams |-> <<>>]
    /\ handler = [s \in Streams |-> [step |-> "recv", event |-> 0]]
    /\ handled = [s \in Streams |-> {}]
    /\ last = [s \in Streams |-> 0]
    /\ timer = [s \in Guarded |-> Timeout]
    /\ watcher = [s \in Guarded |-> "wait"]
    /\ counters = [skipped |-> 0, longest |-> 0]
    /\ telemetry = 0

--------------------------------------------------------------------------------
(* The client of the node, the clock, the owner of the context             *)

CloseEvents(s) ==
    /\ ~closed[s]
    /\ closed' = [closed EXCEPT ![s] = TRUE]
    /\ UNCHANGED <<ctx, taken, pump, buffer, work, guard, stats>>

Cancel ==
    /\ ctx = "open"
    /\ ctx' = "done"
    /\ UNCHANGED <<node, pump, buffer, work, guard, stats>>

Tick ==
    /\ \E s \in Guarded : timer[s] > 0
    /\ timer' = [s \in Guarded |-> IF timer[s] > 0 THEN timer[s] - 1 ELSE 0]
    /\ UNCHANGED <<ctx, node, pump, buffer, work, watcher, stats>>

--------------------------------------------------------------------------------
(* bufferChannel                                                           *)

\* An event comes, and the length of the buffer is read.
Receive(s) ==
    /\ pump[s].step = "recv"
    /\ ~closed[s] /\ taken[s] < MaxEvents[s]
    /\ taken' = [taken EXCEPT ![s] = @ + 1]
    /\ pump' = [pump EXCEPT ![s] = [step |-> "load", event |-> taken[s] + 1,
                                    length |-> Len(buffer[s]), old |-> 0]]
    /\ UNCHANGED <<ctx, closed, buffer, work, guard, stats>>

\* setMaxValue: nothing to do for a shorter queue, else compare and swap,
\* starting over when another goroutine was faster.
LoadMax(s) ==
    /\ pump[s].step = "load"
    /\ pump' = IF counters.longest >= pump[s].length
               THEN [pump EXCEPT ![s].step = "send"]
               ELSE [pump EXCEPT ![s].step = "swap", ![s].old = counters.longest]
    /\ UNCHANGED <<ctx, node, buffer, work, guard, stats>>

\* Mutant of Unmoved: store without comparing.
MutUnmoved(s) == TRUE

Unmoved(s) == counters.longest = pump[s].old

SwapMax(s) ==
    /\ pump[s].step = "swap"
    /\ IF Unmoved(s)
       THEN /\ counters' = [counters EXCEPT !.longest = pump[s].length]
            /\ pump' = [pump EXCEPT ![s].step = "send", ![s].old = 0]
       ELSE /\ pump' = [pump EXCEPT ![s].step = "load", ![s].old = 0]
            /\ UNCHANGED counters
    /\ UNCHANGED <<ctx, node, buffer, work, guard, telemetry>>

\* Mutant of HasRoom: the channel one larger than asked for.
MutHasRoom(s) == Len(buffer[s]) <= Capacity

HasRoom(s) == Len(buffer[s]) < Capacity

\* Mutant of Queued: the event goes in front.
MutQueued(queue, event) == <<event>> \o queue

Queued(queue, event) == Append(queue, event)

\* Mutant of Skip: the loss is logged only.
MutSkip == UNCHANGED counters

Skip == counters' = [counters EXCEPT !.skipped = @ + 1]

\* The send does not wait: a full buffer drops the event.
Forward(s) ==
    /\ pump[s].step = "send"
    /\ IF HasRoom(s)
       THEN buffer' = [buffer EXCEPT ![s] = Queued(@, pump[s].event)] /\ UNCHANGED counters
       ELSE Skip /\ UNCHANGED buffer
    /\ pump' = [pump EXCEPT ![s] = Receiving]
    /\ UNCHANGED <<ctx, node, work, guard, telemetry>>

\* The pump ends with the context or with its source, and closes the buffer.
PumpExit(s) ==
    /\ pump[s].step = "recv"
    /\ ctx = "done" \/ closed[s]
    /\ pump' = [pump EXCEPT ![s].step = "exit"]
    /\ UNCHANGED <<ctx, node, buffer, work, guard, stats>>

--------------------------------------------------------------------------------
(* The handlers                                                            *)

Take(s) ==
    /\ handler[s].step = "recv"
    /\ buffer[s] # <<>>
    /\ buffer' = [buffer EXCEPT ![s] = Tail(@)]
    /\ handler' = [handler EXCEPT ![s] =
                      [step |-> IF s \in Guarded THEN "reset" ELSE "busy",
                       event |-> Head(buffer[s])]]
    /\ UNCHANGED <<ctx, node, pump, handled, last, guard, stats>>

\* Mutant of Fail: the error is not returned to the group.
MutFail == UNCHANGED ctx

\* An error of a goroutine ends, through the group, the context.
Fail == ctx' = "done"

\* sentinel(): an expired timer is an error that ends the handler, else it starts afresh.
ResetSentinel(s) ==
    /\ handler[s].step = "reset"
    /\ IF timer[s] = 0
       THEN Fail /\ handler' = [handler EXCEPT ![s].step = "exit"] /\ UNCHANGED timer
       ELSE /\ handler' = [handler EXCEPT ![s].step = "busy"]
            /\ timer' = [timer EXCEPT ![s] = Timeout]
            /\ UNCHANGED ctx
    /\ UNCHANGED <<node, pump, buffer, handled, last, watcher, stats>>

\* The event is handled: translated, priced and published, which takes its time.
Handle(s) ==
    /\ handler[s].step = "busy"
    /\ handled' = [handled EXCEPT ![s] = @ \cup {handler[s].event}]
    /\ last' = [last EXCEPT ![s] = handler[s].event]
    /\ handler' = [handler EXCEPT ![s] = [step |-> "recv", event |-> 0]]
    /\ UNCHANGED <<ctx, node, pump, buffer, guard, stats>>

HandlerExit(s) ==
    /\ handler[s].step = "recv"
    /\ \/ ctx = "done"
       \/ pump[s].step = "exit" /\ buffer[s] = <<>>
    /\ handler' = [handler EXCEPT ![s].step = "exit"]
    /\ UNCHANGED <<ctx, node, pump, buffer, handled, last, guard, stats>>

\* The goroutine of MakeSentinel: the timer expires, or the context is done.
Expire(s) ==
    /\ watcher[s] = "wait"
    /\ timer[s] = 0
    /\ watcher' = [watcher EXCEPT ![s] = "exit"]
    /\ Fail
    /\ UNCHANGED <<node, pump, buffer, work, timer, stats>>

WatcherExit(s) ==
    /\ watcher[s] = "wait"
    /\ ctx = "done"
    /\ watcher' = [watcher EXCEPT ![s] = "exit"]
    /\ timer' = [timer EXCEPT ![s] = 0]
    /\ UNCHANGED <<ctx, node, pump, buffer, work, stats>>

--------------------------------------------------------------------------------
(* getStatus: the longest queue is swapped out; what follows concerns this *)
(* goroutine alone.                                                        *)

GetStatus ==
    /\ telemetry' = Larger(telemetry, counters.longest)
    /\ counters' = [counters EXCEPT !.longest = 0]
    /\ UNCHANGED <<ctx, node, pump, buffer, work, guard>>

--------------------------------------------------------------------------------

PumpStep(s) == LoadMax(s) \/ SwapMax(s) \/ Forward(s) \/ PumpExit(s)
HandlerStep(s) ==
    \/ Take(s) \/ Handle(s) \/ HandlerExit(s)
    \/ s \in Guarded /\ ResetSentinel(s)
WatcherStep(s) == Expire(s) \/ WatcherExit(s)

Next ==
    \/ \E s \in Streams : CloseEvents(s) \/ Receive(s) \/ PumpStep(s) \/ HandlerStep(s)
    \/ \E s \in Guarded : WatcherStep(s)
    \/ Cancel \/ Tick \/ GetStatus

Spec == Init /\ [][Next]_vars

\* The scheduler runs every goroutine, handlers return from their calls (each
\* has a timeout), the clock advances.  Nothing obliges the node to send, the
\* client to close or the owner to cancel.
FairSpec ==
    /\ Spec
    /\ \A s \in Streams : WF_vars(PumpStep(s)) /\ WF_vars(HandlerStep(s))
    /\ \A s \in Guarded : WF_vars(WatcherStep(s))
    /\ WF_vars(Tick)

--------------------------------------------------------------------------------
(* Properties                                                              *)

PumpType == [step : {"recv", "load", "swap", "send", "exit"}, event : Nat,
             length : 0 .. Capacity, old : 0 .. Capacity]
HandlerType == [step : {"recv", "reset", "busy", "exit"}, event : Nat]

\* The types of the variables, and that no channel holds more than it was made for.
TypeOK ==
    /\ ctx \in {"open", "done"}
    /\ closed \in [Streams -> BOOLEAN]
    /\ taken \in [Streams -> Nat] /\ last \in [Streams -> Nat]
    /\ handled \in [Streams -> SUBSET Nat]
    /\ pump \in [Streams -> PumpType]
    /\ buffer \in [Streams -> Seq(Nat)]
    /\ \A s \in Streams : Len(buffer[s]) <= Capacity
    /\ handler \in [Streams -> HandlerType]
    /\ timer \in [Guarded -> 0 .. Timeout]
    /\ watcher \in [Guarded -> {"wait", "exit"}]
    /\ counters \in [skipped : Nat, longest : 0 .. Capacity]
    /\ telemetry \in 0 .. Capacity

\* The events of a stream that are handled or on their way: nowhere else is one kept.
Kept(s) == handled[s] \cup ToSet(buffer[s]) \cup {handler[s].event, pump[s].event}

\* The events that came and are kept nowhere.
Lost == UNION {{s} \X ((1 .. taken[s]) \ Kept(s)) : s \in Streams}

\* No event is lost without being counted: there are as many events that came and are
\* neither handled nor on their way as bufferChannel counted as skipped, over all
\* streams together.
EventsAccounted == Cardinality(Lost) = counters.skipped

\* Events are handled in the order in which they came, none twice, whatever is lost
\* in between: each subscription is a lossy queue.
Queue == INSTANCE LossyQueue WITH Channels <- Streams, sent <- taken
KeepsOrder == Queue!Spec

\* The longest queue the telemetry has reported or will report.
Peak == Larger(counters.longest, telemetry)

\* A pump that leaves setMaxValue has made the telemetry know the length it saw,
\* whoever swapped the counter meanwhile.
PeakCoversLength ==
    \A s \in Streams : pump[s].step = "send" => pump[s].length <= Peak

\* A guarded stream nothing comes from any more, because the node is silent or the
\* client has closed its channel, ends the process (publisher.go MakeSentinel).
SilentStreamStopsProcess ==
    \A s \in Guarded : <>[](buffer[s] = <<>>) => <>(ctx = "done")

================================================================================
