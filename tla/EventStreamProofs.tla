--------------------------- MODULE EventStreamProofs ---------------------------
(***************************************************************************)
(* Proofs about EventStream, for any number of streams and events, buffers *)
(* of any capacity and sentinels of any timeout: the types, that no loss   *)
(* goes uncounted, that the longest queue is not forgotten, and that the   *)
(* streams implement LossyQueue.                                           *)
(***************************************************************************)
EXTENDS EventStream, FiniteSetTheorems, TLAPS

--------------------------------------------------------------------------------
(* Types                                                                   *)

\* What a goroutine starts with has its type.
LEMMA StartTypes ==
    /\ Capacity \in Nat \ {0} /\ Timeout \in Nat \ {0} /\ Guarded \subseteq Streams
    /\ Receiving \in PumpType
    /\ [step |-> "recv", event |-> 0] \in HandlerType
  BY EventStreamAssumption DEF Receiving, PumpType, HandlerType

\* The buffer after an event was appended to it or taken from it.
LEMMA BufferTypes ==
    ASSUME NEW b \in Seq(Nat), NEW e \in Nat
    PROVE  /\ Len(b) \in Nat
           /\ Append(b, e) \in Seq(Nat) /\ Len(Append(b, e)) = Len(b) + 1
           /\ b # <<>> => /\ Head(b) \in Nat /\ Head(b) = b[1] /\ Len(b) > 0
                          /\ Tail(b) \in Seq(Nat) /\ Len(Tail(b)) = Len(b) - 1
  OBVIOUS

\* A pump that goes on to another step, with an event or another length to compare.
LEMMA PumpGoes ==
    ASSUME TypeOK, NEW s \in Streams, NEW step \in {"recv", "load", "swap", "send", "exit"},
           NEW old \in 0 .. Capacity
    PROVE  /\ [pump EXCEPT ![s].step = step] \in [Streams -> PumpType]
           /\ [pump EXCEPT ![s].step = step, ![s].old = old] \in [Streams -> PumpType]
<1>1. pump \in [Streams -> PumpType] /\ pump[s] \in PumpType
  BY DEF TypeOK
<1>2. [pump[s] EXCEPT !.step = step] \in PumpType
  BY <1>1 DEF PumpType
<1>3. [pump[s] EXCEPT !.step = step, !.old = old] \in PumpType
  BY <1>1 DEF PumpType
<1>4. [pump EXCEPT ![s].step = step] = [pump EXCEPT ![s] = [@ EXCEPT !.step = step]]
  OBVIOUS
<1>5. [pump EXCEPT ![s].step = step, ![s].old = old]
        = [pump EXCEPT ![s] = [@ EXCEPT !.step = step, !.old = old]]
  BY <1>1
<1> QED
  BY <1>1, <1>2, <1>3, <1>4, <1>5

\* A handler that goes on to another step.
LEMMA HandlerGoes ==
    ASSUME TypeOK, NEW s \in Streams, NEW step \in {"recv", "reset", "busy", "exit"}
    PROVE  [handler EXCEPT ![s].step = step] \in [Streams -> HandlerType]
<1>1. handler \in [Streams -> HandlerType] /\ handler[s] \in HandlerType
  BY DEF TypeOK
<1>2. [handler[s] EXCEPT !.step = step] \in HandlerType
  BY <1>1 DEF HandlerType
<1> QED
  BY <1>1, <1>2

LEMMA TypeInit == Init => TypeOK
  BY StartTypes DEF Init, TypeOK

LEMMA TypeStep == TypeOK /\ [Next]_vars => TypeOK'
<1> SUFFICES ASSUME TypeOK, [Next]_vars PROVE TypeOK'
  OBVIOUS
<1>0. /\ timer \in [Guarded -> 0 .. Timeout]
      /\ counters \in [skipped : Nat, longest : 0 .. Capacity]
      /\ telemetry \in 0 .. Capacity
  BY DEF TypeOK
<1> USE StartTypes
<1>1. ASSUME NEW s \in Streams, CloseEvents(s) PROVE TypeOK'
  BY <1>1 DEF TypeOK, CloseEvents, node, work, guard, stats
<1>2. ASSUME NEW s \in Streams, Receive(s) PROVE TypeOK'
  <2>1. [step |-> "load", event |-> taken[s] + 1, length |-> Len(buffer[s]), old |-> 0]
          \in PumpType
    BY BufferTypes DEF TypeOK, PumpType
  <2> QED
    BY <1>2, <2>1 DEF TypeOK, Receive, node, work, guard, stats
<1>3. ASSUME NEW s \in Streams, LoadMax(s) PROVE TypeOK'
  <2>1. counters.longest \in 0 .. Capacity
    BY <1>0
  <2>2. pump' \in [Streams -> PumpType]
    BY <1>3, <2>1, PumpGoes DEF LoadMax
  <2> QED
    BY <1>3, <2>2 DEF TypeOK, LoadMax, node, work, guard, stats
<1>4. ASSUME NEW s \in Streams, SwapMax(s) PROVE TypeOK'
  <2>1. pump' \in [Streams -> PumpType]
    <3>1. 0 \in 0 .. Capacity
      OBVIOUS
    <3>2. PICK step \in {"send", "load"} :
             pump' = [pump EXCEPT ![s].step = step, ![s].old = 0]
      BY <1>4 DEF SwapMax
    <3>3. [pump EXCEPT ![s].step = step, ![s].old = 0] \in [Streams -> PumpType]
      BY <3>1, PumpGoes
    <3> QED
      BY <3>2, <3>3
  <2>2. counters' \in [skipped : Nat, longest : 0 .. Capacity]
    <3>1. pump[s] \in PumpType
      BY DEF TypeOK
    <3>2. pump[s].length \in 0 .. Capacity
      BY <3>1 DEF PumpType
    <3>3. counters' = counters \/ counters' = [counters EXCEPT !.longest = pump[s].length]
      BY <1>4 DEF SwapMax
    <3> QED
      BY <1>0, <3>2, <3>3
  <2> QED
    BY <1>4, <2>1, <2>2 DEF TypeOK, SwapMax, node, work, guard, stats
<1>5. ASSUME NEW s \in Streams, Forward(s) PROVE TypeOK'
  <2>1. pump[s].event \in Nat
    <3>1. pump[s] \in PumpType
      BY DEF TypeOK
    <3> QED
      BY <3>1 DEF PumpType
  <2>2. CASE HasRoom(s)
    <3>1. buffer' = [buffer EXCEPT ![s] = Append(buffer[s], pump[s].event)] /\ UNCHANGED counters
      BY <1>5, <2>2 DEF Forward, Queued
    <3>2. Append(buffer[s], pump[s].event) \in Seq(Nat)
          /\ Len(Append(buffer[s], pump[s].event)) <= Capacity
      BY <2>1, <2>2, BufferTypes DEF TypeOK, HasRoom
    <3> QED
      BY <1>5, <3>1, <3>2 DEF TypeOK, Forward, node, work, guard, stats
  <2>3. CASE ~HasRoom(s)
    <3>1. counters' \in [skipped : Nat, longest : 0 .. Capacity] /\ UNCHANGED buffer
      BY <1>0, <1>5, <2>3 DEF Forward, Skip
    <3> QED
      BY <1>5, <3>1 DEF TypeOK, Forward, node, work, guard, stats
  <2> QED
    BY <2>2, <2>3
<1>6. ASSUME NEW s \in Streams, PumpExit(s) PROVE TypeOK'
  BY <1>6, PumpGoes DEF TypeOK, PumpExit, node, work, guard, stats
<1>7. ASSUME NEW s \in Streams, Take(s) PROVE TypeOK'
  <2>1. /\ Tail(buffer[s]) \in Seq(Nat) /\ Len(Tail(buffer[s])) <= Capacity
        /\ Head(buffer[s]) \in Nat
    BY <1>7, BufferTypes DEF TypeOK, Take
  <2>2. [step |-> IF s \in Guarded THEN "reset" ELSE "busy", event |-> Head(buffer[s])]
          \in HandlerType
    BY <2>1 DEF HandlerType
  <2> QED
    BY <1>7, <2>1, <2>2 DEF TypeOK, Take, node, work, guard, stats
<1>8. ASSUME NEW s \in Guarded, ResetSentinel(s) PROVE TypeOK'
  <2>1. handler' \in [Streams -> HandlerType]
    BY <1>8, HandlerGoes DEF ResetSentinel
  <2>2. timer' = timer \/ timer' = [timer EXCEPT ![s] = Timeout]
    BY <1>8 DEF ResetSentinel
  <2>3. timer' \in [Guarded -> 0 .. Timeout]
    BY <1>0, <2>2
  <2>4. ctx' \in {"open", "done"}
    BY <1>8 DEF TypeOK, ResetSentinel, Fail
  <2> QED
    BY <1>8, <2>1, <2>3, <2>4 DEF TypeOK, ResetSentinel, node, work, guard, stats
<1>9. ASSUME NEW s \in Streams, Handle(s) PROVE TypeOK'
  <2>1. handler[s].event \in Nat
    <3>1. handler[s] \in HandlerType
      BY DEF TypeOK
    <3> QED
      BY <3>1 DEF HandlerType
  <2> QED
    BY <1>9, <2>1 DEF TypeOK, Handle, node, work, guard, stats
<1>10. ASSUME NEW s \in Streams, HandlerExit(s) PROVE TypeOK'
  BY <1>10, HandlerGoes DEF TypeOK, HandlerExit, node, work, guard, stats
<1>11. ASSUME NEW s \in Guarded, WatcherStep(s) PROVE TypeOK'
  <2>1. timer' \in [Guarded -> 0 .. Timeout]
    BY <1>0, <1>11 DEF WatcherStep, Expire, WatcherExit
  <2>2. ctx' \in {"open", "done"}
    BY <1>11 DEF TypeOK, WatcherStep, Expire, WatcherExit, Fail
  <2> QED
    BY <1>11, <2>1, <2>2 DEF TypeOK, WatcherStep, Expire, WatcherExit, node, work, guard, stats
<1>12. CASE Cancel
  BY <1>12 DEF TypeOK, Cancel, node, work, guard, stats
<1>13. CASE Tick
  <2>1. timer' \in [Guarded -> 0 .. Timeout]
    BY <1>0, <1>13 DEF Tick
  <2> QED
    BY <1>13, <2>1 DEF TypeOK, Tick, node, work, guard, stats
<1>14. CASE GetStatus
  <2>1. /\ counters' \in [skipped : Nat, longest : 0 .. Capacity]
        /\ telemetry' \in 0 .. Capacity
    BY <1>0, <1>14 DEF GetStatus, Larger
  <2> QED
    BY <1>14, <2>1 DEF TypeOK, GetStatus, node, work, guard, stats
<1>15. CASE UNCHANGED vars
  BY <1>15 DEF TypeOK, vars
<1> QED
  BY <1>1, <1>2, <1>3, <1>4, <1>5, <1>6, <1>7, <1>8, <1>9, <1>10, <1>11, <1>12, <1>13,
     <1>14, <1>15 DEF Next, PumpStep, HandlerStep

\* Every variable keeps its type and no channel holds more than it was made for
\* (rpc.Subscribe, bufferChannel).
THEOREM TypeCorrect == Spec => []TypeOK
  BY TypeInit, TypeStep, PTL DEF Spec

--------------------------------------------------------------------------------
(* Order                                                                   *)

\* The events of a stream on their way, from the handler over the buffer to the pump,
\* are numbered upwards, between the one handled last and the one that came last.
InOrder(s) ==
    /\ last[s] <= taken[s] /\ handled[s] \subseteq 1 .. last[s]
    /\ handler[s].step = "recv" => handler[s].event = 0
    /\ handler[s].step \in {"reset", "busy"} => handler[s].event # 0
    /\ handler[s].event # 0 => last[s] < handler[s].event /\ handler[s].event <= taken[s]
    /\ pump[s].step \in {"recv", "exit"} => pump[s].event = 0
    /\ pump[s].step \in {"load", "swap", "send"} => pump[s].event = taken[s] /\ taken[s] # 0
    /\ pump[s].event # 0 => last[s] < pump[s].event /\ handler[s].event < pump[s].event
    /\ \A i \in DOMAIN buffer[s] :
          /\ last[s] < buffer[s][i] /\ buffer[s][i] <= taken[s]
          /\ handler[s].event < buffer[s][i]
          /\ pump[s].event # 0 => buffer[s][i] < pump[s].event
    /\ \A i, j \in DOMAIN buffer[s] : i < j => buffer[s][i] < buffer[s][j]

OrderInv == TypeOK /\ \A s \in Streams : InOrder(s)

\* The elements of a buffer after an event was appended to it or taken from it.
LEMMA BufferElements ==
    ASSUME NEW b \in Seq(Nat), NEW e \in Nat
    PROVE  /\ DOMAIN b = 1 .. Len(b)
           /\ DOMAIN Append(b, e) = 1 .. Len(b) + 1
           /\ \A i \in DOMAIN Append(b, e) :
                 \/ i \in DOMAIN b /\ Append(b, e)[i] = b[i]
                 \/ i = Len(b) + 1 /\ Append(b, e)[i] = e
           /\ b # <<>> => /\ 1 \in DOMAIN b
                          /\ \A i \in DOMAIN Tail(b) :
                                /\ i \in Nat /\ i + 1 \in DOMAIN b /\ 1 < i + 1
                                /\ Tail(b)[i] = b[i + 1]
  OBVIOUS

\* The events in a buffer, likewise.
LEMMA BufferSets ==
    ASSUME NEW b \in Seq(Nat), NEW e \in Nat
    PROVE  /\ ToSet(Append(b, e)) = ToSet(b) \cup {e}
           /\ b # <<>> => ToSet(b) = ToSet(Tail(b)) \cup {Head(b)}
<1>1. ToSet(Append(b, e)) = ToSet(b) \cup {e}
  <2>1. ToSet(Append(b, e)) \subseteq ToSet(b) \cup {e}
    BY BufferElements DEF ToSet
  <2>2. e \in ToSet(Append(b, e))
    BY DEF ToSet
  <2>3. ToSet(b) \subseteq ToSet(Append(b, e))
    <3>1. \A i \in DOMAIN b : i \in DOMAIN Append(b, e) /\ Append(b, e)[i] = b[i]
      OBVIOUS
    <3> QED
      BY <3>1 DEF ToSet
  <2> QED
    BY <2>1, <2>2, <2>3
<1>2. ASSUME b # <<>> PROVE ToSet(b) = ToSet(Tail(b)) \cup {Head(b)}
  <2>1. ToSet(Tail(b)) \subseteq ToSet(b)
    BY <1>2, BufferElements DEF ToSet
  <2>2. Head(b) \in ToSet(b)
    BY <1>2, BufferElements DEF ToSet
  <2>3. ASSUME NEW i \in DOMAIN b, i # 1
        PROVE  i - 1 \in DOMAIN Tail(b) /\ Tail(b)[i - 1] = b[i]
    <3>1. i \in 1 .. Len(b) /\ Len(b) \in Nat
      OBVIOUS
    <3>2. i - 1 \in 1 .. Len(b) - 1
      BY <2>3, <3>1
    <3> QED
      BY <1>2, <3>2
  <2>4. ToSet(b) \subseteq ToSet(Tail(b)) \cup {Head(b)}
    <3>1. Head(b) = b[1]
      BY <1>2
    <3> QED
      BY <2>3, <3>1 DEF ToSet
  <2> QED
    BY <2>1, <2>2, <2>4
<1> QED
  BY <1>1, <1>2

\* What the types say of one stream.
LEMMA StreamTypes ==
    ASSUME TypeOK, NEW s \in Streams
    PROVE  /\ taken[s] \in Nat /\ last[s] \in Nat /\ handled[s] \subseteq Nat
           /\ buffer[s] \in Seq(Nat) /\ handler[s].event \in Nat /\ pump[s].event \in Nat
           /\ handler[s].step \in {"recv", "reset", "busy", "exit"}
           /\ pump[s].step \in {"recv", "load", "swap", "send", "exit"}
           /\ pump[s].length \in Nat /\ pump[s].old \in Nat
           /\ counters.longest \in Nat /\ counters.skipped \in Nat /\ telemetry \in Nat
<1>1. pump[s] \in PumpType /\ handler[s] \in HandlerType
  BY DEF TypeOK
<1>2. counters \in [skipped : Nat, longest : 0 .. Capacity] /\ telemetry \in 0 .. Capacity
  BY DEF TypeOK
<1> QED
  BY <1>1, <1>2, StartTypes DEF TypeOK, PumpType, HandlerType

\* A stream nothing changes for stays in order.
LEMMA OrderKept ==
    ASSUME NEW t \in Streams, InOrder(t), taken'[t] = taken[t], last'[t] = last[t],
           handled'[t] = handled[t], handler'[t] = handler[t], pump'[t] = pump[t],
           buffer'[t] = buffer[t]
    PROVE  InOrder(t)'
  BY DEF InOrder

LEMMA OrderInit == Init => OrderInv
<1> SUFFICES ASSUME Init, NEW s \in Streams PROVE InOrder(s)
  BY TypeInit DEF OrderInv
<1> QED
  BY DEF Init, InOrder, Receiving

LEMMA OrderStep == OrderInv /\ [Next]_vars => OrderInv'
<1> SUFFICES ASSUME OrderInv, [Next]_vars, NEW t \in Streams PROVE InOrder(t)'
  BY TypeStep DEF OrderInv
<1>0. TypeOK /\ InOrder(t)
  BY DEF OrderInv
<1>1. ASSUME NEW s \in Streams, Receive(s) PROVE InOrder(t)'
  <2>1. CASE t = s
    <3>1. /\ taken'[t] = taken[t] + 1 /\ pump[t].step = "recv"
          /\ pump'[t].step = "load" /\ pump'[t].event = taken[t] + 1
          /\ UNCHANGED <<last, handled, handler, buffer>>
      BY <1>0, <1>1, <2>1 DEF Receive, TypeOK, work
    <3> QED
      BY <1>0, <3>1, StreamTypes DEF InOrder
  <2> QED
    BY <1>0, <1>1, <2>1, OrderKept DEF Receive, TypeOK, work
<1>2. ASSUME NEW s \in Streams, LoadMax(s) \/ SwapMax(s) PROVE InOrder(t)'
  <2>1. CASE t = s
    <3>1. /\ pump[t].step \in {"load", "swap"} /\ pump'[t].step \in {"load", "swap", "send"}
          /\ pump'[t].event = pump[t].event
          /\ UNCHANGED <<taken, last, handled, handler, buffer>>
      <4>1. CASE LoadMax(s)
        BY <1>0, <2>1, <4>1 DEF LoadMax, TypeOK, PumpType, work, node
      <4>2. CASE SwapMax(s)
        BY <1>0, <2>1, <4>2 DEF SwapMax, Unmoved, TypeOK, PumpType, work, node
      <4> QED
        BY <1>2, <4>1, <4>2
    <3> QED
      BY <1>0, <3>1, StreamTypes DEF InOrder
  <2> QED
    BY <1>0, <1>2, <2>1, OrderKept DEF LoadMax, SwapMax, TypeOK, work, node
<1>3. ASSUME NEW s \in Streams, Forward(s) PROVE InOrder(t)'
  <2>1. CASE t = s
    <3>1. /\ pump[t].step = "send" /\ pump'[t].step = "recv" /\ pump'[t].event = 0
          /\ UNCHANGED <<taken, last, handled, handler>>
          /\ buffer'[t] \in {buffer[t], Append(buffer[t], pump[t].event)}
      BY <1>0, <1>3, <2>1 DEF Forward, Receiving, Queued, TypeOK, work, node
    <3>2. pump[t].event # 0 => pump[t].event = taken[t]
      BY <1>0, <3>1 DEF InOrder
    <3>3. CASE buffer'[t] = buffer[t]
      BY <1>0, <3>1, <3>3, StreamTypes DEF InOrder
    <3>4. CASE buffer'[t] = Append(buffer[t], pump[t].event) /\ pump[t].event # 0
      <4> DEFINE b == buffer[t]
      <4>1. DOMAIN b = 1 .. Len(b) /\ DOMAIN buffer'[t] = 1 .. Len(b) + 1 /\ Len(b) \in Nat
        BY <1>0, <3>4, StreamTypes, BufferElements
      <4>2. \A i \in DOMAIN buffer'[t] :
               \/ i \in DOMAIN b /\ buffer'[t][i] = b[i]
               \/ i = Len(b) + 1 /\ buffer'[t][i] = taken[t]
        BY <1>0, <3>2, <3>4, StreamTypes, BufferElements
      <4>3. \A i \in DOMAIN b : b[i] < taken[t] /\ last[t] < b[i] /\ handler[t].event < b[i]
        BY <1>0, <3>2, <3>4 DEF InOrder
      <4>4. last[t] < taken[t] /\ handler[t].event < taken[t]
        BY <1>0, <3>2, <3>4 DEF InOrder
      <4>5. \A i \in DOMAIN buffer'[t] :
               last[t] < buffer'[t][i] /\ buffer'[t][i] <= taken[t]
               /\ handler[t].event < buffer'[t][i]
        BY <1>0, <4>2, <4>3, <4>4, StreamTypes
      <4>6. \A i, j \in DOMAIN buffer'[t] : i < j => buffer'[t][i] < buffer'[t][j]
        <5> SUFFICES ASSUME NEW i \in DOMAIN buffer'[t], NEW j \in DOMAIN buffer'[t], i < j
                     PROVE  buffer'[t][i] < buffer'[t][j]
          OBVIOUS
        <5>1. i \in DOMAIN b
          BY <4>1, <4>2
        <5>2. CASE j \in DOMAIN b
          BY <1>0, <4>1, <4>2, <5>1, <5>2 DEF InOrder
        <5>3. CASE j = Len(b) + 1
          BY <4>1, <4>2, <4>3, <5>1, <5>3
        <5> QED
          BY <4>2, <5>2, <5>3
      <4> QED
        BY <1>0, <3>1, <4>5, <4>6 DEF InOrder
    <3>5. pump[t].event # 0
      BY <1>0, <3>1, StreamTypes DEF InOrder
    <3> QED
      BY <3>1, <3>3, <3>4, <3>5
  <2> QED
    BY <1>0, <1>3, <2>1, OrderKept DEF Forward, TypeOK, work, node
<1>4. ASSUME NEW s \in Streams, PumpExit(s) PROVE InOrder(t)'
  <2>1. CASE t = s
    <3>1. /\ pump[t].step = "recv" /\ pump'[t].step = "exit" /\ pump'[t].event = pump[t].event
          /\ UNCHANGED <<taken, last, handled, handler, buffer>>
      BY <1>0, <1>4, <2>1 DEF PumpExit, TypeOK, PumpType, work, node
    <3> QED
      BY <1>0, <3>1 DEF InOrder
  <2> QED
    BY <1>0, <1>4, <2>1, OrderKept DEF PumpExit, TypeOK, work, node
<1>5. ASSUME NEW s \in Streams, Take(s) PROVE InOrder(t)'
  <2>1. CASE t = s
    <3> DEFINE b == buffer[t]
    <3>1. /\ handler[t].step = "recv" /\ handler'[t].step \in {"reset", "busy"}
          /\ handler'[t].event = b[1] /\ buffer'[t] = Tail(b) /\ b # <<>>
          /\ UNCHANGED <<taken, last, handled, pump>>
      BY <1>0, <1>5, <2>1, StreamTypes, BufferTypes DEF Take, TypeOK, node
    <3>2. /\ 1 \in DOMAIN b
          /\ \A i \in DOMAIN Tail(b) :
                i \in Nat /\ i + 1 \in DOMAIN b /\ 1 < i + 1 /\ Tail(b)[i] = b[i + 1]
      BY <1>0, <3>1, StreamTypes, BufferElements
    <3>3. \A i \in DOMAIN Tail(b) : b[1] < b[i + 1]
      BY <1>0, <3>2 DEF InOrder
    <3>4. last[t] < b[1] /\ b[1] <= taken[t] /\ (pump[t].event # 0 => b[1] < pump[t].event)
      BY <1>0, <3>2 DEF InOrder
    <3>5. \A i \in DOMAIN Tail(b) :
             /\ last[t] < Tail(b)[i] /\ Tail(b)[i] <= taken[t] /\ b[1] < Tail(b)[i]
             /\ pump[t].event # 0 => Tail(b)[i] < pump[t].event
      BY <1>0, <3>2, <3>3 DEF InOrder
    <3>6. \A i, j \in DOMAIN Tail(b) : i < j => Tail(b)[i] < Tail(b)[j]
      <4> SUFFICES ASSUME NEW i \in DOMAIN Tail(b), NEW j \in DOMAIN Tail(b), i < j
                   PROVE  b[i + 1] < b[j + 1]
        BY <3>2
      <4>1. i + 1 \in DOMAIN b /\ j + 1 \in DOMAIN b /\ i + 1 < j + 1
        BY <3>2
      <4> QED
        BY <1>0, <4>1 DEF InOrder
    <3>7. b[1] # 0
      BY <1>0, <3>2, <3>4, StreamTypes
    <3> QED
      BY <1>0, <3>1, <3>4, <3>5, <3>6, <3>7 DEF InOrder
  <2> QED
    BY <1>0, <1>5, <2>1, OrderKept DEF Take, TypeOK, node
<1>6. ASSUME NEW s \in Guarded, ResetSentinel(s) PROVE InOrder(t)'
  <2>1. CASE t = s
    <3>1. /\ handler[t].step = "reset" /\ handler'[t].step \in {"busy", "exit"}
          /\ handler'[t].event = handler[t].event
          /\ UNCHANGED <<taken, last, handled, pump, buffer>>
      BY <1>0, <1>6, <2>1 DEF ResetSentinel, TypeOK, HandlerType, node
    <3> QED
      BY <1>0, <3>1 DEF InOrder
  <2> QED
    BY <1>0, <1>6, <2>1, OrderKept DEF ResetSentinel, TypeOK, node
<1>7. ASSUME NEW s \in Streams, Handle(s) PROVE InOrder(t)'
  <2>1. CASE t = s
    <3>1. /\ handler[t].step = "busy" /\ handler'[t].step = "recv" /\ handler'[t].event = 0
          /\ last'[t] = handler[t].event /\ handled'[t] = handled[t] \cup {handler[t].event}
          /\ UNCHANGED <<taken, pump, buffer>>
      BY <1>0, <1>7, <2>1 DEF Handle, TypeOK, node
    <3>2. last[t] < handler[t].event /\ handler[t].event <= taken[t]
      BY <1>0, <3>1 DEF InOrder
    <3>3. handled'[t] \subseteq 1 .. last'[t]
      BY <1>0, <3>1, <3>2, StreamTypes DEF InOrder
    <3>4. \A i \in DOMAIN buffer[t] :
             /\ handler[t].event < buffer[t][i] /\ 0 < buffer[t][i]
             /\ pump[t].event # 0 => handler[t].event < pump[t].event /\ 0 < pump[t].event
      BY <1>0, StreamTypes DEF InOrder
    <3>5. pump[t].event # 0 => handler[t].event < pump[t].event /\ 0 < pump[t].event
      BY <1>0, StreamTypes DEF InOrder
    <3> QED
      BY <1>0, <3>1, <3>2, <3>3, <3>4, <3>5 DEF InOrder
  <2> QED
    BY <1>0, <1>7, <2>1, OrderKept DEF Handle, TypeOK, node
<1>8. ASSUME NEW s \in Streams, HandlerExit(s) PROVE InOrder(t)'
  <2>1. CASE t = s
    <3>1. /\ handler'[t].step = "exit" /\ handler'[t].event = handler[t].event
          /\ UNCHANGED <<taken, last, handled, pump, buffer>>
      BY <1>0, <1>8, <2>1 DEF HandlerExit, TypeOK, HandlerType, node
    <3> QED
      BY <1>0, <3>1 DEF InOrder
  <2> QED
    BY <1>0, <1>8, <2>1, OrderKept DEF HandlerExit, TypeOK, node
<1>9. CASE UNCHANGED <<taken, last, handled, handler, pump, buffer>>
  BY <1>0, <1>9, OrderKept
<1> QED
  BY <1>1, <1>2, <1>3, <1>4, <1>5, <1>6, <1>7, <1>8, <1>9
  DEF Next, PumpStep, HandlerStep, WatcherStep, CloseEvents, Expire, WatcherExit, Cancel, Tick,
      GetStatus, vars, node, work

LEMMA OrderAlways == Spec => []OrderInv
  BY OrderInit, OrderStep, PTL DEF Spec

--------------------------------------------------------------------------------
(* The streams are lossy queues                                            *)

\* A step moves at most one stream, by an event that comes or by one that is handled,
\* which came after the one handled before.
LEMMA QueueStep == OrderInv /\ [Next]_vars => [Queue!Next]_<<taken, last>>
<1> SUFFICES ASSUME OrderInv, [Next]_vars
             PROVE  Queue!Next \/ UNCHANGED <<taken, last>>
  OBVIOUS
<1>1. ASSUME NEW s \in Streams, Receive(s) PROVE Queue!Next
  <2>1. Queue!Send(s)
    BY <1>1 DEF Receive, work, Queue!Send
  <2> QED
    BY <2>1 DEF Queue!Next
<1>2. ASSUME NEW s \in Streams, Handle(s) PROVE Queue!Next
  <2>1. /\ handler[s].step = "busy" /\ InOrder(s) /\ TypeOK
        /\ last' = [last EXCEPT ![s] = handler[s].event] /\ UNCHANGED taken
    BY <1>2 DEF Handle, node, OrderInv
  <2>2. handler[s].event \in last[s] + 1 .. taken[s]
    BY <2>1, StreamTypes DEF InOrder
  <2>3. Queue!Deliver(s)
    BY <2>1, <2>2 DEF Queue!Deliver
  <2> QED
    BY <2>3 DEF Queue!Next
<1>3. CASE UNCHANGED <<taken, last>>
  BY <1>3
<1> QED
  BY <1>1, <1>2, <1>3
  DEF Next, PumpStep, HandlerStep, WatcherStep, CloseEvents, LoadMax, SwapMax, Forward,
      PumpExit, Take, ResetSentinel, HandlerExit, Expire, WatcherExit, Cancel, Tick, GetStatus,
      vars, node, work

\* Each subscription implements a lossy queue: its events are handled in the order in
\* which they came and at most once (rpc.Subscribe, bufferChannel, the handlers' loops).
THEOREM ImplementsQueue == Spec => KeepsOrder
<1>1. Init => Queue!Init
  BY DEF Init, Queue!Init
<1>2. OrderInv /\ [Next]_vars => [Queue!Next]_<<taken, last>>
  BY QueueStep
<1> QED
  BY <1>1, <1>2, OrderAlways, PTL DEF Spec, KeepsOrder, Queue!Spec

--------------------------------------------------------------------------------
(* The longest queue                                                       *)

\* A pump about to swap saw a longer queue than the counter it compares with; so a swap
\* that succeeds never lowers the counter.
PeakInv ==
    /\ \A s \in Streams : pump[s].step = "swap" => pump[s].old < pump[s].length
    /\ PeakCoversLength

LEMMA PeakStep == TypeOK /\ PeakInv /\ [Next]_vars => PeakInv'
<1> SUFFICES ASSUME TypeOK, PeakInv, [Next]_vars, NEW t \in Streams
             PROVE  /\ pump'[t].step = "swap" => pump'[t].old < pump'[t].length
                    /\ pump'[t].step = "send" => pump'[t].length <= Peak'
  BY DEF PeakInv, PeakCoversLength
<1>0. /\ pump[t].step = "swap" => pump[t].old < pump[t].length
      /\ pump[t].step = "send" => pump[t].length <= Peak
      /\ pump[t].length \in Nat /\ counters.longest \in Nat /\ telemetry \in Nat
  BY StreamTypes DEF PeakInv, PeakCoversLength
<1>1. ASSUME NEW s \in Streams, LoadMax(s)
      PROVE  /\ pump'[t].step = "swap" => pump'[t].old < pump'[t].length
             /\ pump'[t].step = "send" => pump'[t].length <= Peak'
  <2>1. UNCHANGED <<counters, telemetry>>
    BY <1>1 DEF LoadMax, stats
  <2>2. CASE t = s /\ counters.longest >= pump[t].length
    <3>1. pump'[t].step = "send" /\ pump'[t].length = pump[t].length
      BY <1>1, <2>2 DEF LoadMax, TypeOK, PumpType
    <3> QED
      BY <1>0, <2>1, <2>2, <3>1 DEF Peak, Larger
  <2>3. CASE t = s /\ ~(counters.longest >= pump[t].length)
    <3>1. /\ pump'[t].step = "swap" /\ pump'[t].length = pump[t].length
          /\ pump'[t].old = counters.longest
      BY <1>1, <2>3 DEF LoadMax, TypeOK, PumpType
    <3> QED
      BY <1>0, <2>3, <3>1
  <2>4. CASE t # s
    <3>1. pump'[t] = pump[t]
      BY <1>1, <2>4 DEF LoadMax, TypeOK
    <3> QED
      BY <1>0, <2>1, <3>1 DEF Peak
  <2> QED
    BY <2>2, <2>3, <2>4
<1>2. ASSUME NEW s \in Streams, SwapMax(s)
      PROVE  /\ pump'[t].step = "swap" => pump'[t].old < pump'[t].length
             /\ pump'[t].step = "send" => pump'[t].length <= Peak'
  <2>1. /\ pump[s].step = "swap" /\ pump[s].old < pump[s].length /\ UNCHANGED telemetry
        /\ pump[s].length \in Nat /\ pump[s].old \in Nat
    BY <1>2, StreamTypes DEF SwapMax, PeakInv
  <2>2. CASE Unmoved(s)
    <3>1. counters'.longest = pump[s].length /\ counters.longest = pump[s].old
      BY <1>2, <2>2 DEF SwapMax, Unmoved, TypeOK
    <3>2. Peak <= Peak' /\ pump[s].length <= Peak' /\ Peak \in Nat /\ Peak' \in Nat
      BY <1>0, <2>1, <3>1 DEF Peak, Larger
    <3>3. CASE t = s
      <4>1. pump'[t].step = "send" /\ pump'[t].length = pump[s].length
        BY <1>2, <2>2, <3>3 DEF SwapMax, TypeOK, PumpType
      <4> QED
        BY <3>2, <4>1
    <3>4. CASE t # s
      <4>1. pump'[t] = pump[t]
        BY <1>2, <2>2, <3>4 DEF SwapMax, TypeOK
      <4> QED
        BY <1>0, <3>2, <4>1
    <3> QED
      BY <3>3, <3>4
  <2>3. CASE ~Unmoved(s)
    <3>1. UNCHANGED counters
      BY <1>2, <2>3 DEF SwapMax
    <3>2. CASE t = s
      <4>1. pump'[t].step = "load"
        BY <1>2, <2>3, <3>2 DEF SwapMax, TypeOK, PumpType
      <4> QED
        BY <4>1
    <3>3. CASE t # s
      <4>1. pump'[t] = pump[t]
        BY <1>2, <2>3, <3>3 DEF SwapMax, TypeOK
      <4> QED
        BY <1>0, <2>1, <3>1, <4>1 DEF Peak
    <3> QED
      BY <3>2, <3>3
  <2> QED
    BY <2>2, <2>3
<1>3. ASSUME NEW s \in Streams, Receive(s) \/ Forward(s) \/ PumpExit(s)
      PROVE  /\ pump'[t].step = "swap" => pump'[t].old < pump'[t].length
             /\ pump'[t].step = "send" => pump'[t].length <= Peak'
  <2>1. counters'.longest = counters.longest /\ UNCHANGED telemetry
    BY <1>3 DEF Receive, Forward, PumpExit, Skip, TypeOK, stats
  <2>2. pump'[t] = pump[t] \/ pump'[t].step \in {"load", "recv", "exit"}
    BY <1>3 DEF Receive, Forward, PumpExit, Receiving, TypeOK, PumpType
  <2> QED
    BY <1>0, <2>1, <2>2 DEF Peak
<1>4. CASE GetStatus
  <2>1. Peak' = Peak /\ UNCHANGED pump
    BY <1>0, <1>4 DEF GetStatus, Peak, Larger, TypeOK
  <2> QED
    BY <1>0, <2>1
<1>5. CASE UNCHANGED <<pump, counters, telemetry>>
  BY <1>0, <1>5 DEF Peak
<1> QED
  BY <1>1, <1>2, <1>3, <1>4, <1>5
  DEF Next, PumpStep, HandlerStep, WatcherStep, CloseEvents, Take, ResetSentinel, Handle,
      HandlerExit, Expire, WatcherExit, Cancel, Tick, vars, work, stats

\* The telemetry learns the length of every queue a pump saw, however many pumps and
\* reports race for the counter (setMaxValue, getStatus).
THEOREM PeakIsKept == Spec => []PeakCoversLength
<1>1. Init => PeakInv
  BY DEF Init, PeakInv, PeakCoversLength, Receiving
<1>2. TypeOK /\ PeakInv /\ [Next]_vars => PeakInv'
  BY PeakStep
<1>3. PeakInv => PeakCoversLength
  BY DEF PeakInv
<1> QED
  BY <1>1, <1>2, <1>3, TypeCorrect, PTL DEF Spec

--------------------------------------------------------------------------------
(* Losses                                                                  *)

\* The events of a stream that are lost.
LostOf(s) == (1 .. taken[s]) \ Kept(s)

CountInv == IsFiniteSet(Lost) /\ EventsAccounted

\* Nothing is lost where each stream keeps what it lost.
LEMMA SameLost ==
    ASSUME \A s \in Streams : LostOf(s)' = LostOf(s), counters'.skipped = counters.skipped,
           CountInv
    PROVE  CountInv'
<1>1. Lost' = Lost
  BY DEF Lost, LostOf
<1> QED
  BY <1>1 DEF CountInv, EventsAccounted

\* A stream nothing changes for loses nothing.
LEMMA KeptSame ==
    ASSUME NEW t \in Streams, taken'[t] = taken[t], handled'[t] = handled[t],
           handler'[t].event = handler[t].event, pump'[t].event = pump[t].event,
           buffer'[t] = buffer[t]
    PROVE  LostOf(t)' = LostOf(t)
  BY DEF LostOf, Kept

LEMMA CountStep == OrderInv /\ CountInv /\ [Next]_vars => CountInv'
<1> SUFFICES ASSUME OrderInv, CountInv, [Next]_vars PROVE CountInv'
  OBVIOUS
<1>0. TypeOK /\ \A t \in Streams : InOrder(t)
  BY DEF OrderInv
<1>1. ASSUME NEW s \in Streams, Receive(s) PROVE CountInv'
  <2>1. /\ taken'[s] = taken[s] + 1 /\ pump[s].event = 0 /\ pump'[s].event = taken[s] + 1
        /\ UNCHANGED <<handled, handler, buffer, counters>>
    BY <1>0, <1>1 DEF Receive, InOrder, TypeOK, work, stats
  <2>2. LostOf(s)' = LostOf(s)
    BY <1>0, <2>1, StreamTypes DEF LostOf, Kept
  <2>3. ASSUME NEW t \in Streams, t # s PROVE LostOf(t)' = LostOf(t)
    BY <1>0, <1>1, <2>3, KeptSame DEF Receive, TypeOK, work
  <2> QED
    BY <2>1, <2>2, <2>3, SameLost
<1>2. ASSUME NEW s \in Streams, LoadMax(s) \/ SwapMax(s) \/ PumpExit(s) PROVE CountInv'
  <2>1. /\ \A t \in Streams : pump'[t].event = pump[t].event
        /\ UNCHANGED <<taken, handled, handler, buffer>>
    <3>1. CASE LoadMax(s)
      BY <1>0, <3>1 DEF LoadMax, TypeOK, PumpType, work, node
    <3>2. CASE SwapMax(s)
      <4>1. UNCHANGED <<taken, handled, handler, buffer>> /\ pump \in [Streams -> PumpType]
        BY <1>0, <3>2 DEF SwapMax, TypeOK, work, node
      <4>2. PICK step \in {"send", "load"} :
               pump' = [pump EXCEPT ![s].step = step, ![s].old = 0]
        BY <3>2 DEF SwapMax
      <4> QED
        BY <4>1, <4>2 DEF PumpType
    <3>3. CASE PumpExit(s)
      BY <1>0, <3>3 DEF PumpExit, TypeOK, PumpType, work, node
    <3> QED
      BY <1>2, <3>1, <3>2, <3>3
  <2>2. counters'.skipped = counters.skipped
    BY <1>0, <1>2 DEF LoadMax, SwapMax, PumpExit, TypeOK, stats
  <2> QED
    BY <2>1, <2>2, KeptSame, SameLost
<1>3. ASSUME NEW s \in Streams, Forward(s) PROVE CountInv'
  <2>1. /\ pump[s].step = "send" /\ pump'[s].event = 0
        /\ UNCHANGED <<taken, last, handled, handler>>
    BY <1>0, <1>3 DEF Forward, Receiving, TypeOK, work, node
  <2>2. pump[s].event = taken[s] /\ taken[s] # 0 /\ taken[s] \in Nat
    BY <1>0, <2>1, StreamTypes DEF InOrder
  <2>3. ASSUME NEW t \in Streams, t # s PROVE LostOf(t)' = LostOf(t)
    BY <1>0, <1>3, <2>3, KeptSame DEF Forward, TypeOK, work, node
  <2>4. CASE HasRoom(s)
    <3>1. buffer'[s] = Append(buffer[s], taken[s]) /\ UNCHANGED counters
      BY <1>0, <1>3, <2>2, <2>4 DEF Forward, Queued, TypeOK
    <3>2. ToSet(buffer'[s]) = ToSet(buffer[s]) \cup {taken[s]}
      <4>1. buffer[s] \in Seq(Nat)
        BY <1>0 DEF TypeOK
      <4> QED
        BY <2>2, <3>1, <4>1, BufferSets
    <3>3. LostOf(s)' = LostOf(s)
      BY <2>1, <2>2, <3>2 DEF LostOf, Kept
    <3> QED
      BY <2>3, <3>1, <3>3, SameLost
  <2>5. CASE ~HasRoom(s)
    <3>1. UNCHANGED buffer /\ counters'.skipped = counters.skipped + 1
      BY <1>0, <1>3, <2>5 DEF Forward, Skip, TypeOK
    <3>2. taken[s] \notin handled[s] \cup ToSet(buffer[s]) \cup {handler[s].event, 0}
      <4>1. taken[s] \notin handled[s] /\ handler[s].event # taken[s]
        BY <1>0, <2>2, StreamTypes DEF InOrder
      <4>2. \A i \in DOMAIN buffer[s] : buffer[s][i] # taken[s]
        BY <1>0, <2>2, StreamTypes DEF InOrder
      <4> QED
        BY <2>2, <4>1, <4>2 DEF ToSet
    <3>3. LostOf(s)' = LostOf(s) \cup {taken[s]} /\ taken[s] \notin LostOf(s)
      BY <2>1, <2>2, <3>1, <3>2 DEF LostOf, Kept
    <3>4. Lost' = Lost \cup {<<s, taken[s]>>} /\ <<s, taken[s]>> \notin Lost
      BY <2>3, <3>3 DEF Lost, LostOf
    <3>5. /\ IsFiniteSet(Lost') /\ Cardinality(Lost') = Cardinality(Lost) + 1
      BY <3>4, FS_AddElement DEF CountInv
    <3> QED
      BY <3>1, <3>5 DEF CountInv, EventsAccounted
  <2> QED
    BY <2>4, <2>5
<1>4. ASSUME NEW s \in Streams, Take(s) PROVE CountInv'
  <2>1. /\ handler[s].event = 0 /\ handler'[s].event = Head(buffer[s])
        /\ buffer[s] # <<>> /\ buffer'[s] = Tail(buffer[s])
        /\ UNCHANGED <<taken, handled, pump, counters>>
    BY <1>0, <1>4 DEF Take, InOrder, TypeOK, node, stats
  <2>2. ToSet(buffer[s]) = ToSet(buffer'[s]) \cup {Head(buffer[s])}
    <3>1. buffer[s] \in Seq(Nat)
      BY <1>0 DEF TypeOK
    <3> QED
      BY <2>1, <3>1, BufferSets
  <2>3. LostOf(s)' = LostOf(s)
    BY <2>1, <2>2 DEF LostOf, Kept
  <2>4. ASSUME NEW t \in Streams, t # s PROVE LostOf(t)' = LostOf(t)
    BY <1>0, <1>4, <2>4, KeptSame DEF Take, TypeOK, node
  <2> QED
    BY <2>1, <2>3, <2>4, SameLost
<1>5. ASSUME NEW s \in Guarded, ResetSentinel(s) PROVE CountInv'
  <2>1. /\ \A t \in Streams : handler'[t].event = handler[t].event
        /\ UNCHANGED <<taken, handled, pump, buffer, counters>>
    <3>1. UNCHANGED <<taken, handled, pump, buffer, counters>>
      BY <1>5 DEF ResetSentinel, node, stats
    <3>2. PICK step \in {"exit", "busy"} : handler' = [handler EXCEPT ![s].step = step]
      BY <1>5 DEF ResetSentinel
    <3>3. handler \in [Streams -> HandlerType]
      BY <1>0 DEF TypeOK
    <3> QED
      BY <3>1, <3>2, <3>3 DEF HandlerType
  <2> QED
    BY <2>1, KeptSame, SameLost
<1>6. ASSUME NEW s \in Streams, Handle(s) PROVE CountInv'
  <2>1. /\ handler'[s].event = 0 /\ handled'[s] = handled[s] \cup {handler[s].event}
        /\ UNCHANGED <<taken, pump, buffer, counters>>
    BY <1>0, <1>6 DEF Handle, TypeOK, node, stats
  <2>2. LostOf(s)' = LostOf(s)
    BY <1>0, <2>1, StreamTypes DEF LostOf, Kept
  <2>3. ASSUME NEW t \in Streams, t # s PROVE LostOf(t)' = LostOf(t)
    BY <1>0, <1>6, <2>3, KeptSame DEF Handle, TypeOK, node
  <2> QED
    BY <2>1, <2>2, <2>3, SameLost
<1>7. ASSUME NEW s \in Streams, HandlerExit(s) PROVE CountInv'
  <2>1. /\ \A t \in Streams : handler'[t].event = handler[t].event
        /\ UNCHANGED <<taken, handled, pump, buffer, counters>>
    BY <1>0, <1>7 DEF HandlerExit, TypeOK, HandlerType, node, stats
  <2> QED
    BY <2>1, KeptSame, SameLost
<1>8. CASE UNCHANGED <<taken, handled, handler, pump, buffer>>
           /\ counters'.skipped = counters.skipped
  BY <1>8, KeptSame, SameLost
<1>9. CASE GetStatus
  BY <1>0, <1>8, <1>9 DEF GetStatus, TypeOK, node, work
<1> QED
  BY <1>1, <1>2, <1>3, <1>4, <1>5, <1>6, <1>7, <1>8, <1>9
  DEF Next, PumpStep, HandlerStep, WatcherStep, CloseEvents, Expire, WatcherExit, Cancel, Tick,
      vars, node, work, stats

\* No event is lost without being counted: over all streams together, as many events that
\* came are neither handled nor on their way as were counted as skipped (bufferChannel).
THEOREM LossesAreCounted == Spec => []EventsAccounted
<1>1. Init => CountInv
  <2> SUFFICES ASSUME Init PROVE CountInv
    OBVIOUS
  <2>1. Lost = {}
    BY DEF Init, Lost
  <2> QED
    BY <2>1, FS_EmptySet DEF Init, CountInv, EventsAccounted
<1>2. OrderInv /\ CountInv /\ [Next]_vars => CountInv'
  BY CountStep
<1>3. CountInv => EventsAccounted
  BY DEF CountInv
<1> QED
  BY <1>1, <1>2, <1>3, OrderAlways, PTL DEF Spec

================================================================================
