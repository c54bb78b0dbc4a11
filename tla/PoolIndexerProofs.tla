--------------------------- MODULE PoolIndexerProofs ---------------------------
(***************************************************************************)
(* Proofs about PoolIndexer for every value of its constants: the types,   *)
(* and, on a chain taller than everything the process looks back to, the   *)
(* exactness of every record, the permanence of the window and that memory *)
(* and database agree on it.                                               *)
(***************************************************************************)
EXTENDS PoolIndexer, TLAPS

(***************************************************************************)
(* The chain is taller than every lookback and than the pruning distance,  *)
(* and heights are far from the sign bit.  Where it is not, the run        *)
(* PoolIndexerShortChain shows what happens.                               *)
(***************************************************************************)
TallChain ==
    /\ Blocks < FirstHeight
    /\ (Blocks * 3) \div 2 <= FirstHeight
    /\ \A back \in Lookbacks : back < FirstHeight
    /\ MaxHeight < Modulus \div 2

--------------------------------------------------------------------------------
(* Words                                                                   *)

\* uint64 subtraction of two words is a word.
LEMMA MinusWord ==
    ASSUME NEW a \in Word, NEW b \in Word
    PROVE  Minus(a, b) \in Word
<1>1. Modulus \in Nat
  BY PoolIndexerAssumption
<1> QED
  BY <1>1 DEF Minus, Word

\* The pruning distance, 1.5 windows rounded down, is at least one window and
\* less than two.
LEMMA PruneDistance ==
    /\ (Blocks * 3) \div 2 \in Nat
    /\ Blocks <= (Blocks * 3) \div 2
    /\ (Blocks * 3) \div 2 < 2 * Blocks
<1>1. Blocks \in Nat \ {0}
  BY PoolIndexerAssumption
<1> QED
  BY <1>1

--------------------------------------------------------------------------------
(* Types                                                                   *)

LEMMA ConstantTypes ==
    /\ Modulus \in Nat \ {0}
    /\ 0 \in Word
    /\ Blocks \in Word
    /\ (Blocks * 3) \div 2 \in Word
    /\ FirstHeight \in Word
    /\ QueueCap \in Nat \ {0}
    /\ PoolIds \in Seq(Pools)
    /\ \A ids \in IdLists : ids \in Seq(Pools)
  BY PoolIndexerAssumption, PruneDistance DEF Word

\* The height the scan is about to send lies before the end of the scan.
SendInside == monitor.step = "send" => monitor.cursor < monitor.end

LEMMA CursorBelowEnd ==
    ASSUME TypeOK, monitor.cursor < monitor.end
    PROVE  monitor.cursor + 1 \in Word
<1>1. monitor.cursor \in Word /\ monitor.end \in Word
  BY DEF TypeOK, MonitorType
<1> QED
  BY <1>1, ConstantTypes DEF Word

\* A call starts well typed, and stays so when its pool in hand is done.
LEMMA CallOfType ==
    ASSUME current \in Word, NEW h \in Word, NEW ids \in Seq(Pools)
    PROVE  CallOf(h, ids) \in CallType
  BY ConstantTypes DEF CallOf, Idle, CallType, Steps

LEMMA PoolDoneType ==
    ASSUME TypeOK, NEW w \in Workers, Busy(w), PoolDone(w)
    PROVE  call' \in [Workers -> CallType]
<1>1. call \in [Workers -> CallType] /\ call[w] \in CallType
  BY DEF TypeOK
<1>2. Tail(call[w].ids) \in Seq(Pools)
  BY <1>1 DEF CallType, Busy
<1>3. Idle \in CallType
  BY ConstantTypes DEF Idle, CallType, Steps
<1>4. [Idle EXCEPT !.height = call[w].height, !.ids = Tail(call[w].ids)] \in CallType
  BY <1>1, <1>2, <1>3 DEF CallType, Idle, Steps
<1> QED
  BY <1>1, <1>3, <1>4 DEF PoolDone

\* The record a call builds is a record.
LEMMA FetchedType ==
    ASSUME TypeOK, NEW w \in Workers, Busy(w)
    PROVE  /\ Fetched(w) \in Record
           /\ StateAt(call[w].height) \in Word
           /\ [Fetched(w) EXCEPT !.volume = StateAt(call[w].height)] \in Record
<1>1. call[w] \in CallType
  BY DEF TypeOK
<1>2. Head(call[w].ids) \in Pools
  BY <1>1 DEF CallType, Busy
<1>3. StateAt(call[w].height) \in Word
  BY <1>1 DEF StateAt, TypeOK, CallType
<1> QED
  BY <1>1, <1>2, <1>3 DEF Fetched, Record, CallType

LEMMA PutType ==
    ASSUME NEW store \in SUBSET Record, NEW r \in Record
    PROVE  Put(store, r) \in SUBSET Record
  BY DEF Put

\* The type invariant holds initially and is kept by every step.
LEMMA TypeInit == Init => TypeOK
<1> SUFFICES ASSUME Init PROVE TypeOK
  OBVIOUS
<1>1. Idle \in CallType /\ Parked \in MonitorType
  BY ConstantTypes DEF Idle, Parked, CallType, MonitorType, Steps, MonitorSteps
<1>2. queue \in Seq(Word) /\ Len(queue) <= QueueCap
  BY ConstantTypes DEF Init
<1>3. call \in [Workers -> CallType]
  BY <1>1 DEF Init
<1>4. up \in BOOLEAN /\ cache \subseteq Record /\ db \subseteq Record
  BY DEF Init
<1> QED
  BY <1>1, <1>2, <1>3, <1>4, ConstantTypes DEF Init, TypeOK

\* Every step keeps the types.
LEMMA TypeStep == TypeOK /\ SendInside /\ [Next]_vars => TypeOK'
<1> SUFFICES ASSUME TypeOK, SendInside, [Next]_vars PROVE TypeOK'
  OBVIOUS
<1> USE ConstantTypes
<1>1. CASE NewBlock
  BY <1>1, PoolIndexerAssumption DEF NewBlock, TypeOK, Word
<1>2. CASE Start
  <2>1. monitor' \in MonitorType
    BY <1>2 DEF Start, TypeOK, MonitorType, MonitorSteps
  <2>2. cache' \subseteq Record /\ failures' \in Nat
    BY <1>2 DEF Start, PoolsRange, TypeOK, MayFail
  <2> QED
    BY <1>2, <2>1, <2>2 DEF Start, TypeOK
<1>3. CASE Stop
  <2>1. Idle \in CallType /\ Parked \in MonitorType
    BY DEF Idle, Parked, CallType, MonitorType, Steps, MonitorSteps
  <2>2. queue' \in Seq(Word) /\ Len(queue') <= QueueCap
    BY <1>3 DEF Stop
  <2>3. call' \in [Workers -> CallType]
    BY <1>3, <2>1 DEF Stop
  <2>4. stops' \in Nat /\ current' \in Word /\ cache' \subseteq Record
    BY <1>3 DEF Stop, TypeOK
  <2>5. up' \in BOOLEAN
    BY <1>3 DEF Stop
  <2> QED
    BY <1>3, <2>1, <2>2, <2>3, <2>4, <2>5 DEF Stop, TypeOK
<1>4. ASSUME NEW h \in FirstHeight .. MaxHeight, SetLatestBlockHeight(h)
      PROVE  TypeOK'
  BY <1>4, PoolIndexerAssumption DEF SetLatestBlockHeight, TypeOK, Word
<1>5. ASSUME NEW w \in Readers, NEW ids \in IdLists, Read(w, ids)
      PROVE  TypeOK'
  <2>1. PICK h \in {0} \cup {Minus(current, back) : back \in Lookbacks} :
               call' = [call EXCEPT ![w] = CallOf(h, ids)]
    BY <1>5 DEF Read
  <2>2. h \in Word
    BY PoolIndexerAssumption DEF Minus, Word, TypeOK
  <2>3. CallOf(h, ids) \in CallType
    BY <2>2, CallOfType DEF TypeOK
  <2>4. call' \in [Workers -> CallType]
    BY <2>1, <2>3 DEF TypeOK
  <2> QED
    BY <1>5, <2>4 DEF Read, TypeOK
<1>6. CASE TakeHeight
  <2>1. Head(queue) \in Word /\ Tail(queue) \in Seq(Word) /\ Len(Tail(queue)) <= Len(queue)
    BY <1>6 DEF TakeHeight, TypeOK
  <2>2. CallOf(Head(queue), PoolIds) \in CallType
    BY <2>1, CallOfType DEF TypeOK
  <2>3. call' \in [Workers -> CallType]
    BY <1>6, <2>2 DEF TakeHeight, TypeOK
  <2>4. queue' \in Seq(Word) /\ Len(queue') <= QueueCap
    BY <1>6, <2>1 DEF TakeHeight, TypeOK
  <2> QED
    BY <1>6, <2>3, <2>4 DEF TakeHeight, TypeOK
<1>7. ASSUME NEW w \in Workers, Advance(w)
      PROVE  TypeOK'
  <2>1. CASE LookUp(w)
    <3>1. call' \in [Workers -> CallType]
      <4>1. CASE PoolDone(w)
        BY <2>1, <4>1, PoolDoneType DEF LookUp, At, CallType
      <4>2. CASE call' = [call EXCEPT ![w].step = "liquidity"]
        BY <4>2 DEF TypeOK, CallType, Steps
      <4> QED
        BY <2>1, <4>1, <4>2 DEF LookUp
    <3> QED
      BY <2>1, <3>1 DEF LookUp, TypeOK
  <2>2. CASE FetchLiquidity(w)
    <3>1. call' \in [Workers -> CallType]
      <4>1. CASE PoolDone(w)
        BY <2>2, <4>1, PoolDoneType DEF FetchLiquidity, At
      <4>2. CASE call' = [call EXCEPT ![w].step = "volume",
                                      ![w].liquidity = StateAt(call[w].height)]
        <5>1. StateAt(call[w].height) \in Word
          BY <2>2, FetchedType DEF FetchLiquidity, At
        <5> QED
          BY <4>2, <5>1 DEF TypeOK, CallType, Steps
      <4> QED
        BY <2>2, <4>1, <4>2 DEF FetchLiquidity
    <3> QED
      BY <2>2, <3>1 DEF FetchLiquidity, MayFail, TypeOK
  <2>3. CASE FetchVolume(w)
    <3>1. /\ StateAt(call[w].height) \in Word
          /\ [Fetched(w) EXCEPT !.volume = StateAt(call[w].height)] \in Record
      BY <2>3, FetchedType DEF FetchVolume, At
    <3>2. call' \in [Workers -> CallType]
      <4>1. CASE PoolDone(w)
        BY <2>3, <4>1, PoolDoneType DEF FetchVolume, At
      <4>2. CASE call' = [call EXCEPT ![w].step = "save",
                                      ![w].volume = StateAt(call[w].height)]
        BY <3>1, <4>2 DEF TypeOK, CallType, Steps
      <4> QED
        BY <2>3, <4>1, <4>2 DEF FetchVolume
    <3>3. cache' \subseteq Record
      BY <2>3, <3>1, PutType DEF FetchVolume, TypeOK
    <3> QED
      BY <2>3, <3>2, <3>3 DEF FetchVolume, MayFail, TypeOK
  <2>4. CASE SavePool(w)
    <3>1. call' \in [Workers -> CallType]
      BY <2>4, PoolDoneType DEF SavePool, At
    <3>2. Fetched(w) \in Record /\ db \in SUBSET Record
      BY <2>4, FetchedType DEF SavePool, At, TypeOK
    <3>3. Put(db, Fetched(w)) \in SUBSET Record
      BY <3>2, PutType
    <3>4. db' \subseteq Record
      BY <2>4, <3>2, <3>3 DEF SavePool, SavedPool
    <3> QED
      BY <2>4, <3>1, <3>4 DEF SavePool, MayFail, TypeOK
  <2> QED
    BY <1>7, <2>1, <2>2, <2>3, <2>4 DEF Advance
<1>8. CASE MonitorStep
  <2> USE DEF MonitorType, MonitorSteps
  <2>1. WindowStart \in Word /\ PruneHeight \in Word
    BY MinusWord DEF WindowStart, PruneHeight, TypeOK
  <2>2. CASE StartScan
    BY <2>1, <2>2 DEF StartScan, TypeOK
  <2>3. CASE CheckHeight
    <3>1. monitor.cursor + 1 \in Word
      <4>1. monitor.cursor < monitor.end
        BY <2>3 DEF CheckHeight
      <4> QED
        BY <4>1, CursorBelowEnd
    <3>2. monitor' = [monitor EXCEPT !.cursor = @ + 1] \/ monitor' = [monitor EXCEPT !.step = "send"]
      BY <2>3 DEF CheckHeight
    <3>3. monitor' \in MonitorType
      BY <3>1, <3>2 DEF TypeOK
    <3> QED
      BY <2>3, <3>3 DEF CheckHeight, TypeOK
  <2>4. CASE SendHeight
    <3>1. monitor.cursor + 1 \in Word
      <4>1. monitor.cursor < monitor.end
        BY <2>4 DEF SendHeight, Monitor, SendInside
      <4> QED
        BY <4>1, CursorBelowEnd
    <3>2. monitor' \in MonitorType
      BY <2>4, <3>1 DEF SendHeight, TypeOK
    <3>3. queue' \in Seq(Word) /\ Len(queue') = Len(queue) + 1 /\ Len(queue) \in Nat
      <4>1. monitor.cursor \in Word /\ queue \in Seq(Word)
        BY DEF TypeOK
      <4> QED
        BY <2>4, <4>1 DEF SendHeight
    <3> QED
      BY <2>4, <3>2, <3>3 DEF SendHeight, TypeOK
  <2>5. CASE EndScan
    BY <2>1, <2>5 DEF EndScan, TypeOK
  <2>6. CASE PruneCache
    BY <2>6 DEF PruneCache, From, TypeOK
  <2>7. CASE PruneDb
    BY <2>7 DEF PruneDb, PrunedPools, From, MayFail, Parked, TypeOK
  <2>8. CASE Tick
    BY <2>8 DEF Tick, TypeOK
  <2> QED
    BY <1>8, <2>2, <2>3, <2>4, <2>5, <2>6, <2>7, <2>8 DEF MonitorStep
<1>9. CASE UNCHANGED vars
  BY <1>9 DEF vars, TypeOK
<1> QED
  BY <1>1, <1>2, <1>3, <1>4, <1>5, <1>6, <1>7, <1>8, <1>9 DEF Next, SyncerStep, Workers

LEMMA SendInsideStep == TypeOK /\ SendInside /\ [Next]_vars => SendInside'
<1> SUFFICES ASSUME TypeOK, SendInside, [Next]_vars PROVE SendInside'
  OBVIOUS
<1> USE DEF SendInside
<1>1. CASE CheckHeight
  <2>1. monitor' = [monitor EXCEPT !.cursor = @ + 1] \/ monitor' = [monitor EXCEPT !.step = "send"]
    BY <1>1 DEF CheckHeight
  <2>2. monitor.step = "check" /\ monitor.cursor < monitor.end
    BY <1>1 DEF CheckHeight, Monitor
  <2> QED
    BY <2>1, <2>2 DEF TypeOK, MonitorType
<1>2. CASE StartScan \/ SendHeight \/ EndScan \/ PruneCache \/ PruneDb \/ Tick \/ Start \/ Stop
  <2>1. monitor \in MonitorType
    BY DEF TypeOK
  <2>2. \E s \in MonitorSteps \ {"send"} : monitor'.step = s
    <3> USE <2>1 DEF MonitorType, MonitorSteps
    <3>1. CASE StartScan
      BY <3>1 DEF StartScan
    <3>2. CASE SendHeight
      BY <3>2 DEF SendHeight
    <3>3. CASE EndScan \/ PruneCache
      BY <3>3 DEF EndScan, PruneCache
    <3>4. CASE PruneDb \/ Stop
      BY <3>4 DEF PruneDb, Stop, Parked
    <3>5. CASE Tick \/ Start
      BY <3>5 DEF Tick, Start
    <3> QED
      BY <1>2, <3>1, <3>2, <3>3, <3>4, <3>5
  <2> QED
    BY <2>2
<1>3. CASE UNCHANGED monitor
  BY <1>3
<1> QED
  BY <1>1, <1>2, <1>3 DEF Next, SyncerStep, MonitorStep, Advance, vars, NewBlock,
     SetLatestBlockHeight, Read, TakeHeight, LookUp, FetchLiquidity, FetchVolume, SavePool

\* The types hold in every behaviour of the component, with no assumption on how
\* tall the chain is.
THEOREM TypeCorrect == Spec => []TypeOK
<1>1. Init => SendInside
  BY DEF Init, Parked, SendInside
<1>2. TypeOK /\ SendInside /\ [Next]_vars => SendInside'
  BY SendInsideStep
<1> QED
  BY <1>1, <1>2, TypeInit, TypeStep, PTL DEF Spec

--------------------------------------------------------------------------------
(* A tall chain: the inductive invariant                                   *)

TallInv == TypeOK /\ PoolInv /\ CoherentRecords

\* The constants of a tall chain as linear facts.
LEMMA TallFacts ==
    ASSUME TallChain
    PROVE  /\ Blocks \in Nat \ {0} /\ Modulus \in Nat
           /\ FirstHeight \in Nat \ {0} /\ MaxHeight \in Nat
           /\ FirstHeight <= MaxHeight
           /\ Blocks < FirstHeight
           /\ (Blocks * 3) \div 2 \in Nat
           /\ Blocks <= (Blocks * 3) \div 2 /\ (Blocks * 3) \div 2 <= FirstHeight
           /\ \A back \in Lookbacks : back \in Nat /\ back < FirstHeight
           /\ Modulus \div 2 \in Nat /\ MaxHeight < Modulus \div 2
           /\ MaxHeight < Modulus
<1>1. Modulus \in Nat
  BY PoolIndexerAssumption
<1>2. Modulus \div 2 \in Nat
  BY <1>1
<1> QED
  BY <1>1, <1>2, PruneDistance, PoolIndexerAssumption DEF TallChain

\* The node answers a height it serves with the state of that height.
LEMMA ServedExactly ==
    ASSUME TallChain, TypeOK, ChainInv, NEW h \in Word, Served(h)
    PROVE  StateAt(h) = h
<1>1. node \in Nat /\ h \in Nat
  BY TallFacts DEF TypeOK, Word
<1>2. 0 < h /\ h < Modulus \div 2
  BY <1>1, TallFacts DEF ChainInv, Served
<1> QED
  BY <1>1, <1>2, TallFacts DEF StateAt, Ignored

\* While the process runs, neither the window, nor a lookback, nor the prune
\* height wraps around.
LEMMA NoWrap ==
    ASSUME TallChain, TypeOK, ChainInv, up
    PROVE  /\ WindowStart = current - Blocks /\ 0 < WindowStart
           /\ PruneHeight + Blocks <= current
           /\ \A back \in Lookbacks : Served(Minus(current, back))
           /\ Served(current)
<1>1. current \in Nat /\ node \in Nat /\ FirstHeight <= current /\ current <= node
  BY TallFacts DEF TypeOK, Word, ChainInv
<1> QED
  BY <1>1, TallFacts DEF WindowStart, PruneHeight, Minus, Served

\* A call that starts, or goes on to its next pool, holds a served height and no
\* answers yet; the calls of the other goroutines are untouched.
LEMMA CallInvKept ==
    ASSUME CallInv, TypeOK, NEW w \in Workers, NEW c \in CallType,
           call' = [call EXCEPT ![w] = c], node' = node,
           c.ids # <<>> =>
               /\ Served(c.height)
               /\ c.step \in {"volume", "save"} => c.liquidity = c.height
               /\ c.step = "save" => c.volume = c.height
    PROVE  CallInv'
  BY DEF CallInv, TypeOK, Busy, Served

LEMMA CallOfServed ==
    ASSUME TallChain, TypeOK, ChainInv, CallInv, up, NEW w \in Workers,
           NEW h \in Word, h = 0 \/ Served(h), NEW ids \in Seq(Pools),
           call' = [call EXCEPT ![w] = CallOf(h, ids)], node' = node
    PROVE  CallInv'
<1> DEFINE c == CallOf(h, ids)
<1>1. c \in CallType
  BY CallOfType DEF TypeOK
<1>2. Served(current)
  BY NoWrap
<1>3. c.ids # <<>> => Served(c.height) /\ c.step = "lookup"
  BY <1>2 DEF CallOf, Idle
<1> HIDE DEF c
<1> QED
  BY <1>1, <1>3, CallInvKept DEF c

LEMMA PoolDoneServed ==
    ASSUME TypeOK, CallInv, NEW w \in Workers, Busy(w), PoolDone(w), node' = node
    PROVE  CallInv'
<1> DEFINE c == IF Len(call[w].ids) = 1 THEN Idle
                ELSE [Idle EXCEPT !.height = call[w].height, !.ids = Tail(call[w].ids)]
<1>1. call \in [Workers -> CallType] /\ call[w] \in CallType
  BY DEF TypeOK
<1>2. c = call'[w] /\ call' = [call EXCEPT ![w] = c]
  BY <1>1 DEF PoolDone
<1>3. c \in CallType
  BY <1>2, PoolDoneType
<1>4. c.ids # <<>> => Served(c.height) /\ c.step = "lookup"
  BY DEF Idle, CallInv, Busy
<1> HIDE DEF c
<1> QED
  BY <1>2, <1>3, <1>4, CallInvKept

\* A record fetched at a served height is exact.
LEMMA PutCoherent ==
    ASSUME NEW store, \A r \in store : r.liquidity = r.height /\ r.volume = r.height,
           NEW q, q.liquidity = q.height /\ q.volume = q.height
    PROVE  \A r \in Put(store, q) : r.liquidity = r.height /\ r.volume = r.height
  BY DEF Put

LEMMA TallInit == TallChain /\ Init => TallInv
<1> SUFFICES ASSUME TallChain, Init PROVE TallInv
  OBVIOUS
<1>1. ChainInv
  BY TallFacts DEF Init, ChainInv
<1>2. CallInv /\ QueueInv /\ MonitorInv /\ CoherentRecords
  BY DEF Init, CallInv, Busy, Idle, QueueInv, MonitorInv, Parked, CoherentRecords
<1> QED
  BY <1>1, <1>2, TypeInit DEF TallInv, PoolInv

\* Progress of one goroutine through PoolStatusesAt.
LEMMA AdvanceTall ==
    ASSUME TallChain, TallInv, NEW w \in Workers, Advance(w)
    PROVE  CallInv' /\ CoherentRecords'
<1> USE DEF TallInv, PoolInv
<1>1. /\ Busy(w) /\ node' = node
      /\ call[w] \in CallType /\ call \in [Workers -> CallType]
  BY DEF Advance, LookUp, FetchLiquidity, FetchVolume, SavePool, At, TypeOK
<1>2. Served(call[w].height) /\ call[w].height \in Word
  BY <1>1 DEF CallInv, CallType
<1>3. StateAt(call[w].height) = call[w].height
  BY <1>2, ServedExactly
<1>4. PoolDone(w) => CallInv'
  BY <1>1, PoolDoneServed
<1>5. CASE LookUp(w)
  <2>1. CASE call' = [call EXCEPT ![w].step = "liquidity"]
    <3> DEFINE c == [call[w] EXCEPT !.step = "liquidity"]
    <3>1. c \in CallType /\ c.height = call[w].height /\ c.step = "liquidity"
      BY <1>1 DEF CallType, Steps
    <3>2. call' = [call EXCEPT ![w] = c]
      BY <2>1
    <3> HIDE DEF c
    <3> QED
      BY <1>1, <1>2, <1>5, <3>1, <3>2, CallInvKept DEF LookUp, CoherentRecords
  <2>2. CASE PoolDone(w)
    BY <1>4, <1>5, <2>2 DEF LookUp, CoherentRecords
  <2> QED
    BY <1>5, <2>1, <2>2 DEF LookUp
<1>6. CASE FetchLiquidity(w)
  <2>1. CASE call' = [call EXCEPT ![w].step = "volume",
                                  ![w].liquidity = StateAt(call[w].height)]
    <3> DEFINE c == [call[w] EXCEPT !.step = "volume", !.liquidity = call[w].height]
    <3>1. /\ c \in CallType /\ c.height = call[w].height
          /\ c.step = "volume" /\ c.liquidity = c.height
      BY <1>1 DEF CallType, Steps
    <3>2. call' = [call EXCEPT ![w] = c]
      BY <1>1, <1>3, <2>1
    <3> HIDE DEF c
    <3> QED
      BY <1>1, <1>2, <1>6, <3>1, <3>2, CallInvKept DEF FetchLiquidity, CoherentRecords
  <2>2. CASE PoolDone(w)
    BY <1>4, <1>6, <2>2 DEF FetchLiquidity, CoherentRecords
  <2> QED
    BY <1>6, <2>1, <2>2 DEF FetchLiquidity
<1>7. CASE FetchVolume(w)
  <2>1. CASE /\ call' = [call EXCEPT ![w].step = "save",
                                     ![w].volume = StateAt(call[w].height)]
             /\ cache' = Put(cache, [Fetched(w) EXCEPT !.volume = StateAt(call[w].height)])
    <3> DEFINE c == [call[w] EXCEPT !.step = "save", !.volume = call[w].height]
               q == [Fetched(w) EXCEPT !.volume = StateAt(call[w].height)]
    <3>0. call[w].liquidity = call[w].height
      BY <1>1, <1>7 DEF FetchVolume, At, CallInv
    <3>1. /\ c \in CallType /\ c.height = call[w].height
          /\ c.step = "save" /\ c.volume = c.height /\ c.liquidity = c.height
      BY <1>1, <3>0 DEF CallType, Steps
    <3>2. call' = [call EXCEPT ![w] = c]
      BY <1>1, <1>3, <2>1
    <3>3. q.liquidity = q.height /\ q.volume = q.height
      BY <1>3, <3>0 DEF Fetched
    <3>4. \A r \in cache' : r.liquidity = r.height /\ r.volume = r.height
      <4> HIDE DEF q
      <4>1. \A r \in Put(cache, q) : r.liquidity = r.height /\ r.volume = r.height
        BY <3>3, PutCoherent DEF CoherentRecords
      <4> QED
        BY <2>1, <4>1 DEF q
    <3> HIDE DEF c
    <3>5. CallInv'
      BY <1>1, <1>2, <3>1, <3>2, CallInvKept
    <3> QED
      BY <1>7, <3>4, <3>5 DEF FetchVolume, CoherentRecords
  <2>2. CASE PoolDone(w) /\ UNCHANGED cache
    BY <1>4, <1>7, <2>2 DEF FetchVolume, CoherentRecords
  <2> QED
    BY <1>7, <2>1, <2>2 DEF FetchVolume
<1>8. CASE SavePool(w)
  <2>1. Fetched(w).liquidity = Fetched(w).height /\ Fetched(w).volume = Fetched(w).height
    BY <1>1, <1>8 DEF SavePool, At, CallInv, Fetched
  <2>2. \A r \in Put(db, Fetched(w)) : r.liquidity = r.height /\ r.volume = r.height
    BY <2>1, PutCoherent DEF CoherentRecords
  <2> QED
    BY <1>4, <1>8, <2>2 DEF SavePool, SavedPool, CoherentRecords
<1> QED
  BY <1>5, <1>6, <1>7, <1>8 DEF Advance

\* Progress of the monitor.
LEMMA MonitorTall ==
    ASSUME TallChain, TallInv, MonitorStep
    PROVE  MonitorInv' /\ QueueInv' /\ CallInv' /\ CoherentRecords'
<1> USE DEF TallInv, PoolInv
<1>1. /\ up /\ node' = node /\ call' = call /\ current' = current
      /\ monitor \in MonitorType /\ queue \in Seq(Word)
      /\ monitor.cursor \in Nat /\ monitor.end \in Nat /\ current \in Nat /\ node \in Nat
  <2>1. up /\ UNCHANGED <<node, call, current>>
    BY DEF MonitorStep, StartScan, CheckHeight, SendHeight, EndScan, PruneCache,
           PruneDb, Tick, Monitor
  <2> QED
    BY <2>1, TallFacts DEF TypeOK, MonitorType, Word
<1>2. CallInv'
  BY <1>1 DEF CallInv, Busy, Served
<1>3. /\ WindowStart = current - Blocks /\ 0 < WindowStart
      /\ PruneHeight + Blocks <= current /\ current <= node
  BY <1>1, NoWrap DEF ChainInv
<1>4. CASE StartScan
  <2>1. CASE monitor' = [monitor EXCEPT !.step = "pruneCache", !.min = PruneHeight]
    BY <1>1, <1>2, <1>3, <1>4, <2>1
    DEF StartScan, MonitorInv, MonitorType, QueueInv, Served, CoherentRecords
  <2>2. CASE monitor' = [monitor EXCEPT !.step = "check",
                                       !.cursor = WindowStart, !.end = current]
    BY <1>1, <1>2, <1>3, <1>4, <2>2
    DEF StartScan, MonitorInv, MonitorType, QueueInv, Served, CoherentRecords
  <2> QED
    BY <1>4, <2>1, <2>2 DEF StartScan
<1>5. CASE CheckHeight
  <2>1. monitor.step = "check" /\ monitor.cursor < monitor.end
    BY <1>5 DEF CheckHeight, Monitor
  <2>2. \/ monitor' = [monitor EXCEPT !.cursor = @ + 1]
        \/ monitor' = [monitor EXCEPT !.step = "send"]
    BY <1>5 DEF CheckHeight
  <2>3. MonitorInv'
    BY <1>1, <2>1, <2>2 DEF MonitorInv, MonitorType
  <2> QED
    BY <1>1, <1>2, <1>5, <2>3 DEF CheckHeight, QueueInv, Served, CoherentRecords
<1>6. CASE SendHeight
  <2>1. monitor.step = "send"
    BY <1>6 DEF SendHeight, Monitor
  <2>2. Served(monitor.cursor) /\ monitor.cursor \in Word
    BY <1>1, <2>1 DEF MonitorInv, Served, MonitorType
  <2>3. MonitorInv'
    BY <1>1, <1>6, <2>1 DEF SendHeight, MonitorInv, MonitorType
  <2>4. queue' = Append(queue, monitor.cursor)
    BY <1>6 DEF SendHeight
  <2>5. QueueInv'
    BY <1>1, <2>2, <2>4 DEF QueueInv, Served
  <2> QED
    BY <1>2, <1>6, <2>3, <2>5 DEF SendHeight, CoherentRecords
<1>7. CASE EndScan
  BY <1>1, <1>2, <1>3, <1>7 DEF EndScan, MonitorInv, MonitorType, QueueInv, Served, CoherentRecords
<1>8. CASE PruneCache
  <2>1. monitor.step = "pruneCache" /\ monitor' = [monitor EXCEPT !.step = "pruneDb"]
    BY <1>8 DEF PruneCache, Monitor
  <2>2. MonitorInv'
    BY <1>1, <2>1 DEF MonitorInv, MonitorType
  <2> QED
    BY <1>1, <1>2, <1>8, <2>2 DEF PruneCache, From, QueueInv, Served, CoherentRecords
<1>9. CASE PruneDb
  BY <1>1, <1>2, <1>9 DEF PruneDb, Parked, PrunedPools, From, MonitorInv, QueueInv, Served, CoherentRecords
<1>10. CASE Tick
  BY <1>1, <1>2, <1>10 DEF Tick, MonitorInv, MonitorType, QueueInv, Served, CoherentRecords
<1> QED
  BY <1>4, <1>5, <1>6, <1>7, <1>8, <1>9, <1>10 DEF MonitorStep

\* Every step keeps the invariant of a tall chain.
LEMMA TallStep == TallChain /\ TallInv /\ [Next]_vars => TallInv'
<1> SUFFICES ASSUME TallChain, TallInv, [Next]_vars PROVE TallInv'
  OBVIOUS
<1> USE DEF TallInv, PoolInv
<1>0. /\ current \in Nat /\ node \in Nat
      /\ monitor.min \in Nat /\ monitor.end \in Nat /\ monitor \in MonitorType
      /\ call \in [Workers -> CallType] /\ queue \in Seq(Word)
  BY TallFacts DEF TypeOK, MonitorType, Word
<1>1. TypeOK'
  BY TypeStep DEF SendInside, MonitorInv
<1>2. CASE NewBlock
  <2>1. node' = node + 1 /\ node < MaxHeight
    BY <1>2 DEF NewBlock
  <2>2. ChainInv'
    BY <1>0, <1>2, <2>1, TallFacts DEF NewBlock, ChainInv
  <2>3. \A h \in Word : Served(h) => Served(h)'
    BY <1>0, <2>1, TallFacts DEF Served, Word
  <2>4. CallInv'
    <3> SUFFICES ASSUME NEW w \in Workers, Busy(w)'
                 PROVE  /\ Served(call[w].height)'
                        /\ call[w].step \in {"volume", "save"} => call[w].liquidity = call[w].height
                        /\ call[w].step = "save" => call[w].volume = call[w].height
      BY <1>2 DEF NewBlock, CallInv
    <3>1. Busy(w) /\ call' = call /\ call[w].height \in Word
      BY <1>0, <1>2 DEF NewBlock, Busy, CallType
    <3> QED
      BY <2>3, <3>1 DEF CallInv, Served
  <2>5. QueueInv'
    BY <1>0, <1>2, <2>3 DEF NewBlock, QueueInv, Served
  <2>6. MonitorInv'
    BY <1>0, <1>2, <2>1 DEF NewBlock, MonitorInv
  <2> QED
    BY <1>1, <1>2, <2>2, <2>4, <2>5, <2>6 DEF NewBlock, CoherentRecords
<1>3. CASE Start
  <2>1. ChainInv'
    BY <1>0, <1>3, TallFacts DEF Start, ChainInv
  <2>2. MonitorInv'
    BY <1>0, <1>3 DEF Start, MonitorInv, MonitorType
  <2>3. CallInv' /\ QueueInv'
    BY <1>3 DEF Start, CallInv, Busy, QueueInv, Served
  <2>4. CoherentRecords'
    BY <1>3 DEF Start, PoolsRange, CoherentRecords
  <2> QED
    BY <1>1, <2>1, <2>2, <2>3, <2>4
<1>4. CASE Stop
  <2>1. ChainInv' /\ MonitorInv'
    BY <1>4 DEF Stop, ChainInv, MonitorInv, Parked
  <2>2. CallInv' /\ QueueInv' /\ CoherentRecords'
    BY <1>4 DEF Stop, CallInv, Busy, Idle, QueueInv, CoherentRecords
  <2> QED
    BY <1>1, <2>1, <2>2
<1>5. ASSUME NEW h \in FirstHeight .. MaxHeight, SetLatestBlockHeight(h)
      PROVE  TallInv'
  <2>1. h \in Nat /\ current < h /\ h <= node /\ current' = h /\ node' = node
    BY <1>5, TallFacts DEF SetLatestBlockHeight
  <2>2. /\ up /\ up' /\ monitor' = monitor
        /\ FirstHeight <= h
    BY <1>5 DEF SetLatestBlockHeight
  <2>4. ChainInv'
    BY <1>0, <2>1, <2>2, TallFacts DEF ChainInv
  <2>5. MonitorInv'
    <3>1. monitor.min + Blocks <= current => monitor.min + Blocks <= h
      BY <1>0, <2>1, TallFacts
    <3> QED
      BY <2>1, <2>2, <3>1 DEF MonitorInv
  <2>3. CallInv' /\ QueueInv' /\ CoherentRecords'
    BY <1>5 DEF SetLatestBlockHeight, CallInv, Busy, QueueInv, Served, CoherentRecords
  <2> QED
    BY <1>1, <2>3, <2>4, <2>5
<1>6. ASSUME NEW w \in Readers, NEW ids \in IdLists, Read(w, ids)
      PROVE  TallInv'
  <2>1. /\ up /\ w \in Workers /\ ids \in Seq(Pools)
        /\ UNCHANGED <<node, up, current, cache, db, queue, monitor>>
    BY <1>6, PoolIndexerAssumption DEF Read, Workers
  <2>2. PICK h \in {0} \cup {Minus(current, back) : back \in Lookbacks} :
               call' = [call EXCEPT ![w] = CallOf(h, ids)]
    BY <1>6 DEF Read
  <2>3. h = 0 \/ Served(h)
    BY <2>1, NoWrap
  <2>4. h \in Word
    BY PoolIndexerAssumption DEF Minus, Word, TypeOK
  <2>5. CallInv'
    BY <2>1, <2>2, <2>3, <2>4, CallOfServed
  <2> QED
    BY <1>1, <2>1, <2>5 DEF ChainInv, QueueInv, Served, MonitorInv, CoherentRecords
<1>7. CASE TakeHeight
  <2>1. /\ up /\ Syncer \in Workers /\ queue # <<>> /\ queue' = Tail(queue)
        /\ call' = [call EXCEPT ![Syncer] = CallOf(Head(queue), PoolIds)]
        /\ UNCHANGED <<node, up, current, cache, db, monitor>>
    BY <1>7 DEF TakeHeight, Workers
  <2>2. Head(queue) \in Word /\ Head(queue) = queue[1] /\ 1 \in DOMAIN queue
    BY <1>0, <2>1
  <2>3. CallInv'
    BY <2>1, <2>2, CallOfServed, ConstantTypes DEF QueueInv
  <2>4. \A i \in DOMAIN Tail(queue) : i + 1 \in DOMAIN queue /\ Tail(queue)[i] = queue[i + 1]
    BY <1>0, <2>1
  <2>5. QueueInv'
    BY <2>1, <2>4 DEF QueueInv, Served
  <2> QED
    BY <1>1, <2>1, <2>3, <2>5 DEF ChainInv, MonitorInv, CoherentRecords
<1>8. ASSUME NEW w \in Workers, Advance(w)
      PROVE  TallInv'
  <2>1. UNCHANGED <<node, up, current, queue, monitor>>
    BY <1>8 DEF Advance, LookUp, FetchLiquidity, FetchVolume, SavePool
  <2>2. ChainInv' /\ QueueInv' /\ MonitorInv'
    BY <2>1 DEF ChainInv, QueueInv, Served, MonitorInv
  <2> QED
    BY <1>1, <1>8, <2>2, AdvanceTall
<1>9. CASE MonitorStep
  <2>1. ChainInv'
    BY <1>9 DEF MonitorStep, StartScan, CheckHeight, SendHeight, EndScan, PruneCache,
                PruneDb, Tick, ChainInv
  <2> QED
    BY <1>1, <1>9, <2>1, MonitorTall
<1>10. CASE UNCHANGED vars
  BY <1>1, <1>10 DEF vars, ChainInv, CallInv, Busy, QueueInv, Served, MonitorInv, CoherentRecords
<1> QED
  BY <1>2, <1>3, <1>4, <1>5, <1>6, <1>7, <1>8, <1>9, <1>10 DEF Next, SyncerStep, Workers

\* The invariant holds in every behaviour on a tall chain.
LEMMA TallAlways == ASSUME TallChain PROVE Spec => []TallInv
<1>1. Init => TallInv
  BY TallInit
<1>2. TallInv /\ [Next]_vars => TallInv'
  BY TallStep
<1> QED
  BY <1>1, <1>2, PTL DEF Spec

\* On a tall chain every pool record, cached or saved, holds the liquidity and
\* the volume of exactly its height, whatever the goroutines interleave.
THEOREM RecordsAreCoherent == ASSUME TallChain PROVE Spec => []CoherentRecords
<1>1. TallInv => CoherentRecords
  BY DEF TallInv
<1> QED
  BY <1>1, TallAlways, PTL

\* On a tall chain the parts of the inductive invariant hold.
THEOREM PoolInvHolds == ASSUME TallChain PROVE Spec => []PoolInv
<1>1. TallInv => PoolInv
  BY DEF TallInv
<1> QED
  BY <1>1, TallAlways, PTL

--------------------------------------------------------------------------------
(* The window is kept                                                      *)

KeepsCached ==
    up /\ up' => \A r \in cache : InWindow(r) =>
                    \E s \in cache' : s.height = r.height /\ s.pool = r.pool

\* Storing a record keeps every key stored before.
LEMMA PutKeepsKeys ==
    ASSUME NEW store, NEW q, NEW r \in store
    PROVE  \E s \in Put(store, q) : s.height = r.height /\ s.pool = r.pool
<1>1. CASE r.height = q.height /\ r.pool = q.pool
  BY <1>1 DEF Put
<1>2. CASE ~(r.height = q.height /\ r.pool = q.pool)
  BY <1>2 DEF Put
<1> QED
  BY <1>1, <1>2

\* Pruning at or below the window keeps the records of the window.
LEMMA PruneKeepsWindow ==
    ASSUME TypeOK, MonitorInv, up, monitor.step \in {"pruneCache", "pruneDb"},
           NEW r \in Record, InWindow(r)
    PROVE  r.height >= monitor.min
<1>1. /\ r.height \in Nat /\ monitor.min \in Nat /\ current \in Nat /\ Blocks \in Nat
      /\ current <= r.height + Blocks
  BY ConstantTypes, PoolIndexerAssumption DEF TypeOK, MonitorType, Record, InWindow, Word
<1>2. monitor.min + Blocks <= current
  BY DEF MonitorInv
<1> QED
  BY <1>1, <1>2

LEMMA KeepsCachedStep == TallInv /\ [Next]_vars => KeepsCached
<1> SUFFICES ASSUME TallInv, [Next]_vars, up, up',
                    NEW r \in cache, InWindow(r)
             PROVE  \E s \in cache' : s.height = r.height /\ s.pool = r.pool
  BY DEF KeepsCached
<1> USE DEF TallInv, PoolInv
<1>1. ASSUME NEW w \in Workers, FetchVolume(w)
      PROVE  \E s \in cache' : s.height = r.height /\ s.pool = r.pool
  <2>1. CASE cache' = Put(cache, [Fetched(w) EXCEPT !.volume = StateAt(call[w].height)])
    BY <2>1, PutKeepsKeys
  <2>2. CASE UNCHANGED cache
    BY <2>2
  <2> QED
    BY <1>1, <2>1, <2>2 DEF FetchVolume
<1>2. CASE PruneCache
  <2>1. r \in Record /\ monitor.step = "pruneCache" /\ cache' = From(cache, monitor.min)
    BY <1>2 DEF PruneCache, Monitor, TypeOK
  <2> QED
    BY <2>1, PruneKeepsWindow DEF From
<1>3. CASE UNCHANGED cache
  BY <1>3
<1> QED
  BY <1>1, <1>2, <1>3
  DEF Next, SyncerStep, MonitorStep, Advance, Workers, vars, NewBlock, Start, Stop,
      SetLatestBlockHeight, Read, TakeHeight, LookUp, FetchLiquidity, SavePool,
      StartScan, CheckHeight, SendHeight, EndScan, PruneDb, Tick

\* On a tall chain a running process never removes a record of the window from
\* its cache: the prune height, computed before the other goroutines move on, is
\* still behind the window when it is used.
THEOREM WindowIsKept == ASSUME TallChain PROVE Spec => WindowKept
<1>1. TallInv /\ [Next]_vars => [KeepsCached]_vars
  BY KeepsCachedStep
<1> QED
  BY <1>1, TallAlways, PTL DEF Spec, WindowKept, KeepsCached

--------------------------------------------------------------------------------
(* The channel of heights                                                  *)

\* With the types, the order of the queued heights is inductive by itself.
LEMMA AscendingStep == TypeOK /\ QueueAscending /\ [Next]_vars => QueueAscending'
<1> SUFFICES ASSUME TypeOK, QueueAscending, [Next]_vars PROVE QueueAscending'
  OBVIOUS
<1> USE DEF QueueAscending
<1>0. /\ queue \in Seq(Word) /\ monitor \in MonitorType
      /\ monitor.cursor \in Int /\ \A i \in DOMAIN queue : queue[i] \in Int
  <2>1. /\ queue \in Seq(Word) /\ monitor \in MonitorType
        /\ \A i \in DOMAIN queue : queue[i] \in Word
    BY DEF TypeOK
  <2> QED
    BY <2>1, ConstantTypes DEF MonitorType, Word
<1>1. CASE TakeHeight
  <2>1. queue # <<>> /\ queue' = Tail(queue) /\ monitor' = monitor
    BY <1>1 DEF TakeHeight
  <2>2. \A i \in DOMAIN Tail(queue) : i \in Int /\ i + 1 \in DOMAIN queue /\ Tail(queue)[i] = queue[i + 1]
    BY <1>0, <2>1
  <2> QED
    BY <2>1, <2>2
<1>2. CASE SendHeight
  <2>1. /\ monitor.step = "send" /\ queue' = Append(queue, monitor.cursor)
        /\ monitor' = [monitor EXCEPT !.step = "check", !.cursor = @ + 1]
    BY <1>2 DEF SendHeight, Monitor
  <2>2. /\ DOMAIN queue' = 1 .. Len(queue) + 1 /\ DOMAIN queue = 1 .. Len(queue)
        /\ Len(queue) \in Nat
        /\ queue'[Len(queue) + 1] = monitor.cursor
        /\ \A i \in DOMAIN queue : queue'[i] = queue[i]
    BY <1>0, <2>1 DEF MonitorType
  <2>3. monitor'.cursor = monitor.cursor + 1
    BY <1>0, <2>1 DEF MonitorType
  <2>4. \A i \in DOMAIN queue : queue[i] < monitor.cursor
    BY <2>1
  <2>5. \A i, j \in DOMAIN queue' : i < j => queue'[i] < queue'[j]
    <3> SUFFICES ASSUME NEW i \in DOMAIN queue', NEW j \in DOMAIN queue', i < j
                 PROVE  queue'[i] < queue'[j]
      OBVIOUS
    <3>1. i \in DOMAIN queue
      BY <2>2
    <3>2. CASE j \in DOMAIN queue
      BY <2>2, <3>1, <3>2
    <3>3. CASE j = Len(queue) + 1
      BY <2>2, <2>4, <3>1, <3>3
    <3> QED
      BY <2>2, <3>2, <3>3
  <2>6. \A i \in DOMAIN queue' : queue'[i] < monitor'.cursor
    <3> SUFFICES ASSUME NEW i \in DOMAIN queue' PROVE queue'[i] < monitor'.cursor
      OBVIOUS
    <3>1. CASE i \in DOMAIN queue
      BY <1>0, <2>2, <2>3, <2>4, <3>1
    <3>2. CASE i = Len(queue) + 1
      BY <1>0, <2>2, <2>3, <3>2
    <3> QED
      BY <2>2, <3>1, <3>2
  <2> QED
    BY <2>5, <2>6
<1>3. CASE CheckHeight
  <2>1. /\ monitor.step = "check" /\ queue' = queue
        /\ \/ monitor' = [monitor EXCEPT !.cursor = @ + 1]
           \/ monitor' = [monitor EXCEPT !.step = "send"]
    BY <1>3 DEF CheckHeight, Monitor
  <2>2. monitor'.cursor \in {monitor.cursor, monitor.cursor + 1}
    BY <1>0, <2>1 DEF MonitorType
  <2> QED
    BY <1>0, <2>1, <2>2
<1>4. CASE StartScan
  <2>1. CASE queue # <<>>
    <3>1. monitor'.step = "pruneCache" /\ queue' = queue
      BY <1>0, <1>4, <2>1 DEF StartScan, MonitorType
    <3> QED
      BY <3>1
  <2>2. CASE queue = <<>>
    BY <1>4, <2>2 DEF StartScan
  <2> QED
    BY <2>1, <2>2
<1>5. CASE Stop
  BY <1>5 DEF Stop
<1>6. CASE EndScan \/ PruneCache \/ PruneDb \/ Tick \/ Start
  <2>1. monitor'.step \notin {"check", "send"} /\ queue' = queue
    <3> USE <1>0 DEF MonitorType
    <3>1. CASE EndScan \/ PruneCache
      BY <3>1 DEF EndScan, PruneCache
    <3>2. CASE PruneDb \/ Tick \/ Start
      BY <3>2 DEF PruneDb, Parked, Tick, Start
    <3> QED
      BY <1>6, <3>1, <3>2
  <2> QED
    BY <2>1
<1>7. CASE UNCHANGED <<queue, monitor>>
  BY <1>7
<1> QED
  BY <1>1, <1>2, <1>3, <1>4, <1>5, <1>6, <1>7
  DEF Next, SyncerStep, MonitorStep, Advance, vars, NewBlock, SetLatestBlockHeight,
      Read, LookUp, FetchLiquidity, FetchVolume, SavePool

\* No height is ever queued twice, however tall the chain is: the scan refills
\* the channel only after the previous pass was consumed.
THEOREM QueueIsAscending == Spec => []QueueAscending
<1>1. Init => QueueAscending
  BY DEF Init, Parked, QueueAscending
<1>2. TypeOK /\ QueueAscending /\ [Next]_vars => QueueAscending'
  BY AscendingStep
<1> QED
  BY <1>1, <1>2, TypeCorrect, PTL DEF Spec

--------------------------------------------------------------------------------
(* PoolIndexer implements PoolWindow                                       *)

\* Storing an exact record among exact records adds it.
LEMMA PutExact ==
    ASSUME NEW store \in SUBSET Record,
           \A r \in store : r.liquidity = r.height /\ r.volume = r.height,
           NEW q \in Record, q.liquidity = q.height, q.volume = q.height
    PROVE  /\ q = Window!Exact(q.height, q.pool)
           /\ Put(store, q) = store \cup {Window!Exact(q.height, q.pool)}
<1>1. q = Window!Exact(q.height, q.pool)
  BY DEF Window!Exact, Record
<1>2. \A r \in store : r.height = q.height /\ r.pool = q.pool => r = q
  BY DEF Record
<1>3. Put(store, q) = store \cup {q}
  BY <1>2 DEF Put
<1> QED
  BY <1>1, <1>3

\* Pruning forgets only what is behind the window.
LEMMA PruneForgets ==
    ASSUME TypeOK, MonitorInv, up, monitor.step \in {"pruneCache", "pruneDb"},
           NEW store \in SUBSET Record
    PROVE  Window!Keeps(From(store, monitor.min), store)
<1>1. /\ monitor.min \in Int /\ current \in Int /\ Blocks \in Int
      /\ \A r \in store : r.height \in Int
  BY ConstantTypes, PoolIndexerAssumption DEF TypeOK, MonitorType, Record, Word
<1>2. monitor.min + Blocks <= current
  BY DEF MonitorInv
<1>3. \A r \in store \ From(store, monitor.min) : r.height < monitor.min
  BY <1>1 DEF From
<1> QED
  BY <1>1, <1>2, <1>3 DEF Window!Keeps, From

LEMMA WindowStep == TallChain /\ TallInv /\ [Next]_vars => [Window!Next]_(Window!wvars)
<1> SUFFICES ASSUME TallChain, TallInv, [Next]_vars
             PROVE  Window!Next \/ UNCHANGED <<up, current, cache, db>>
  BY DEF Window!wvars
<1> USE DEF TallInv, PoolInv
<1>1. CASE Start
  <2>1. /\ ~up /\ up' = TRUE /\ current' = node /\ UNCHANGED db /\ node \in Word
        /\ \/ cache' = {}
           \/ cache' = {r \in db : Minus(node, Blocks) <= r.height /\ r.height <= node}
    BY <1>1 DEF Start, PoolsRange, TypeOK
  <2>2. Minus(node, Blocks) = node - Blocks /\ node \in Int /\ Blocks \in Int
    BY <2>1, TallFacts DEF Minus, ChainInv, Word
  <2>3. \A r \in db : r.height \in Int
    BY ConstantTypes DEF TypeOK, Record, Word
  <2>4. {r \in db : Minus(node, Blocks) <= r.height /\ r.height <= node}
        = {r \in db : r.height + Blocks >= current' /\ r.height <= current'}
    BY <2>1, <2>2, <2>3
  <2>5. Window!Start
    BY <2>1, <2>4 DEF Window!Start
  <2> QED
    BY <2>5 DEF Window!Next
<1>2. CASE Stop
  BY <1>2 DEF Stop, Window!Stop, Window!Next
<1>3. ASSUME NEW h \in FirstHeight .. MaxHeight, SetLatestBlockHeight(h)
      PROVE  Window!Next
  <2>1. up /\ current' = h /\ current < h /\ current \in Int /\ h \in Int /\ UNCHANGED <<up, cache, db>>
    BY <1>3, TallFacts DEF SetLatestBlockHeight, TypeOK, Word
  <2> QED
    BY <2>1 DEF Window!Advance, Window!Next
<1>4. ASSUME NEW w \in Workers, FetchVolume(w)
      PROVE  Window!Next \/ UNCHANGED <<up, current, cache, db>>
  <2>1. CASE UNCHANGED cache
    BY <1>4, <2>1 DEF FetchVolume
  <2>2. CASE cache' = Put(cache, [Fetched(w) EXCEPT !.volume = StateAt(call[w].height)])
    <3> DEFINE q == [Fetched(w) EXCEPT !.volume = StateAt(call[w].height)]
    <3>1. up /\ Busy(w) /\ call[w].step = "volume" /\ UNCHANGED <<up, current, db>>
      BY <1>4 DEF FetchVolume, At
    <3>2. q \in Record
      BY <3>1, FetchedType
    <3>3. call[w].height \in Word /\ Served(call[w].height) /\ call[w].liquidity = call[w].height
      BY <3>1 DEF TypeOK, CallType, CallInv
    <3>4. q.liquidity = q.height /\ q.volume = q.height
      BY <3>3, ServedExactly DEF Fetched
    <3> HIDE DEF q
    <3>5. cache' = cache \cup {Window!Exact(q.height, q.pool)}
      <4>1. cache' = Put(cache, q)
        BY <2>2 DEF q
      <4> QED
        BY <4>1, <3>2, <3>4, PutExact DEF TypeOK, CoherentRecords
    <3>6. q.height \in Word /\ q.pool \in Pools
      BY <3>2 DEF Record
    <3>7. Window!Learn(q.height, q.pool)
      BY <3>1, <3>5 DEF Window!Learn
    <3> QED
      BY <3>6, <3>7 DEF Window!Next
  <2> QED
    BY <1>4, <2>1, <2>2 DEF FetchVolume
<1>5. ASSUME NEW w \in Workers, SavePool(w)
      PROVE  Window!Next \/ UNCHANGED <<up, current, cache, db>>
  <2>1. CASE UNCHANGED db
    BY <1>5, <2>1 DEF SavePool
  <2>2. CASE db' = SavedPool(Fetched(w))
    <3> DEFINE q == Fetched(w)
    <3>1. up /\ Busy(w) /\ call[w].step = "save" /\ UNCHANGED <<up, current, cache>>
      BY <1>5 DEF SavePool, At
    <3>2. q \in Record
      BY <3>1, FetchedType
    <3>3. q.liquidity = q.height /\ q.volume = q.height
      BY <3>1 DEF Fetched, CallInv
    <3> HIDE DEF q
    <3>4. db' = db \cup {Window!Exact(q.height, q.pool)}
      <4>1. db' = Put(db, q)
        BY <2>2 DEF q, SavedPool
      <4> QED
        BY <4>1, <3>2, <3>3, PutExact DEF TypeOK, CoherentRecords
    <3>5. q.height \in Word /\ q.pool \in Pools
      BY <3>2 DEF Record
    <3>6. Window!Save(q.height, q.pool)
      BY <3>1, <3>4 DEF Window!Save
    <3> QED
      BY <3>5, <3>6 DEF Window!Next
  <2> QED
    BY <1>5, <2>1, <2>2 DEF SavePool
<1>6. CASE PruneCache
  <2>1. /\ up /\ monitor.step = "pruneCache" /\ cache' = From(cache, monitor.min)
        /\ UNCHANGED <<up, current, db>>
    BY <1>6 DEF PruneCache, Monitor
  <2>2. Window!Keeps(cache', cache)
    BY <2>1, PruneForgets DEF TypeOK
  <2> QED
    BY <2>1, <2>2 DEF Window!Forget, Window!Next
<1>7. CASE PruneDb
  <2>1. up /\ monitor.step = "pruneDb" /\ UNCHANGED <<up, current, cache>>
    BY <1>7 DEF PruneDb, Monitor
  <2>2. CASE db' = PrunedPools(monitor.min)
    <3>1. Window!Keeps(db', db)
      BY <2>1, <2>2, PruneForgets DEF PrunedPools, TypeOK
    <3> QED
      BY <2>1, <3>1 DEF Window!ForgetSaved, Window!Next
  <2> QED
    BY <1>7, <2>1, <2>2 DEF PruneDb
<1>8. CASE UNCHANGED <<up, current, cache, db>>
  BY <1>8
<1> QED
  BY <1>1, <1>2, <1>3, <1>4, <1>5, <1>6, <1>7, <1>8
  DEF Next, SyncerStep, MonitorStep, Advance, Workers, vars, NewBlock, Read, TakeHeight,
      LookUp, FetchLiquidity, StartScan, CheckHeight, SendHeight, EndScan, Tick

\* On a tall chain the component implements PoolWindow: it learns and saves only
\* exact records, forgets them only behind the window, and a new process starts
\* from the saved part of the window or from nothing.
THEOREM ImplementsWindow == ASSUME TallChain PROVE Spec => KeepsWindow
<1>1. Init => Window!Init
  BY DEF Init, Window!Init
<1>2. TallInv /\ [Next]_vars => [Window!Next]_(Window!wvars)
  BY WindowStep
<1> QED
  BY <1>1, <1>2, TallAlways, PTL DEF Spec, KeepsWindow, Window!Spec

--------------------------------------------------------------------------------
(* Memory and database                                                     *)

\* No record is of a height the node has yet to commit.
Committed == \A r \in cache \cup db : r.height <= node

\* A record whose save is under way is still in memory, if it is of the window: the
\* prune in between takes only what is behind it.
SavingIsCached ==
    \A w \in Workers : At(w, "save") /\ InWindow(Fetched(w)) => Fetched(w) \in cache

\* A call ends with its process.
DownIsIdle == ~up => \A w \in Workers : call[w].ids = <<>>

SyncInv == Committed /\ SavingIsCached /\ DownIsIdle /\ CacheMatchesDatabase

\* The heights and the window are integers, and records are told apart by their key.
LEMMA SyncFacts ==
    ASSUME TallChain, TallInv
    PROVE  /\ current \in Int /\ node \in Int /\ Blocks \in Int /\ Blocks > 0
           /\ \A r \in cache \cup db : r \in Record /\ r.height \in Int
           /\ \A r \in Record : r.height \in Int
           /\ \A w \in Workers : At(w, "save") =>
                 /\ Fetched(w) \in Record /\ Fetched(w).height <= node
                 /\ Fetched(w).liquidity = Fetched(w).height
                 /\ Fetched(w).volume = Fetched(w).height
<1> USE DEF TallInv, PoolInv
<1>0. TypeOK /\ Modulus \in Nat /\ Blocks \in Nat \ {0}
  BY TallFacts
<1>1. /\ current \in Int /\ node \in Int /\ Blocks \in Int /\ Blocks > 0
      /\ \A r \in Record : r.height \in Int
      /\ cache \cup db \subseteq Record
  <2>1. current \in Word /\ node \in Word /\ cache \cup db \subseteq Record
    BY <1>0 DEF TypeOK
  <2>2. Word \subseteq Int
    BY <1>0 DEF Word
  <2>3. \A r \in Record : r.height \in Word
    BY DEF Record
  <2>4. \A r \in Record : r.height \in Int
    BY <2>2, <2>3
  <2>5. Blocks \in Int /\ Blocks > 0
    BY <1>0
  <2> QED
    BY <2>1, <2>2, <2>4, <2>5
<1>2. ASSUME NEW w \in Workers, At(w, "save")
      PROVE  /\ Fetched(w) \in Record /\ Fetched(w).height <= node
             /\ Fetched(w).liquidity = Fetched(w).height
             /\ Fetched(w).volume = Fetched(w).height
  BY <1>2, FetchedType DEF At, Fetched, CallInv, Served
<1> QED
  BY <1>1, <1>2

\* A step of a call that neither was saving nor is now.
LEMMA SyncUnsaved ==
    ASSUME TallChain, TallInv, SyncInv, NEW w \in Workers, ~At(w, "save"),
           NEW c, c.step # "save", call' = [call EXCEPT ![w] = c], up,
           UNCHANGED <<node, up, current, cache, db>>, failures' = 0 => failures = 0
    PROVE  SyncInv'
<1>1. call \in [Workers -> CallType]
  BY DEF TallInv, TypeOK
<1>2. ASSUME NEW u \in Workers
      PROVE  /\ At(u, "save") => At(u, "save")' /\ Fetched(u)' = Fetched(u)
             /\ At(u, "save")' => At(u, "save") /\ Fetched(u)' = Fetched(u)
  <2>1. CASE u = w
    <3>1. call'[w] = c
      BY <1>1
    <3> QED
      BY <2>1, <3>1 DEF At
  <2>2. CASE u # w
    <3>1. call'[u] = call[u]
      BY <1>1, <2>2
    <3> QED
      BY <3>1 DEF At, Busy, Fetched
  <2> QED
    BY <2>1, <2>2
<1>3. \A r : InWindow(r)' = InWindow(r)
  BY DEF InWindow
<1>4. Committed'
  BY DEF SyncInv, Committed
<1>5. SavingIsCached'
  <2> SUFFICES ASSUME NEW u \in Workers, At(u, "save")', InWindow(Fetched(u))'
               PROVE  Fetched(u)' \in cache
    BY DEF SavingIsCached
  <2>1. At(u, "save") /\ Fetched(u)' = Fetched(u)
    BY <1>2
  <2>2. InWindow(Fetched(u))
    BY <2>1 DEF InWindow
  <2> QED
    BY <2>1, <2>2 DEF SyncInv, SavingIsCached
<1>6. CacheMatchesDatabase'
  <2> SUFFICES ASSUME up, failures = 0
               PROVE  /\ \A r \in cache : InWindow(r) =>
                            r \in db \/ \E u \in Workers : At(u, "save")' /\ Fetched(u)' = r
                      /\ \A r \in db : InWindow(r) => r \in cache
    BY <1>3 DEF CacheMatchesDatabase
  <2> QED
    BY <1>2 DEF SyncInv, CacheMatchesDatabase
<1> QED
  BY <1>4, <1>5, <1>6 DEF SyncInv, DownIsIdle

\* A record is cached while it waits to be saved: in memory at once, to be saved next.
LEMMA SyncFetched ==
    ASSUME TallChain, TallInv, SyncInv, NEW w \in Workers, FetchVolume(w) PROVE SyncInv'
<1> DEFINE q == [Fetched(w) EXCEPT !.volume = StateAt(call[w].height)]
<1>0. /\ call \in [Workers -> CallType] /\ up /\ Busy(w) /\ call[w].step = "volume"
      /\ UNCHANGED <<node, up, current, db>>
  BY DEF TallInv, TypeOK, FetchVolume, At
<1>1. CASE PoolDone(w) /\ failures' = failures + 1 /\ UNCHANGED cache
  <2>1. failures \in Nat
    BY DEF TallInv, TypeOK
  <2>2. call'[w].step # "save" /\ call' = [call EXCEPT ![w] = call'[w]]
    BY <1>0, <1>1 DEF PoolDone, Idle
  <2> QED
    BY <1>0, <1>1, <2>1, <2>2, SyncUnsaved DEF At
<1>2. CASE /\ call' = [call EXCEPT ![w].step = "save", ![w].volume = StateAt(call[w].height)]
           /\ cache' = Put(cache, q)
           /\ UNCHANGED failures
  <2>1. q \in Record
    BY <1>0, FetchedType DEF TallInv
  <2>2. call[w].height \in Word /\ Served(call[w].height) /\ call[w].liquidity = call[w].height
    BY <1>0 DEF TallInv, PoolInv, TypeOK, CallType, CallInv
  <2>3. StateAt(call[w].height) = call[w].height
    BY <2>2, ServedExactly DEF TallInv, PoolInv
  <2>4. q.liquidity = q.height /\ q.volume = q.height /\ q.height <= node
    BY <2>2, <2>3 DEF Fetched, Served
  <2>5. Fetched(w)' = q /\ At(w, "save")'
    BY <1>0, <1>2 DEF Fetched, At, Busy
  <2>6. ASSUME NEW u \in Workers, u # w
        PROVE  At(u, "save")' = At(u, "save") /\ Fetched(u)' = Fetched(u)
    <3>1. call'[u] = call[u]
      BY <1>0, <1>2, <2>6
    <3> QED
      BY <1>0, <3>1 DEF At, Busy, Fetched
  <2> HIDE DEF q
  <2>7. cache' = cache \cup {q}
    BY <1>2, <2>1, <2>4, PutExact DEF TallInv, TypeOK, CoherentRecords
  <2>8. \A r : InWindow(r)' = InWindow(r)
    BY <1>0 DEF InWindow
  <2>9. Committed'
    BY <1>0, <2>4, <2>7 DEF SyncInv, Committed
  <2>10. SavingIsCached'
    <3> SUFFICES ASSUME NEW u \in Workers, At(u, "save")', InWindow(Fetched(u))'
                 PROVE  Fetched(u)' \in cache'
      BY DEF SavingIsCached
    <3>1. CASE u = w
      BY <2>5, <2>7, <3>1
    <3>2. CASE u # w
      <4>1. At(u, "save") /\ Fetched(u)' = Fetched(u)
        BY <2>6, <3>2
      <4>2. InWindow(Fetched(u))
        BY <1>0, <4>1 DEF InWindow
      <4> QED
        BY <2>7, <4>1, <4>2 DEF SyncInv, SavingIsCached
    <3> QED
      BY <3>1, <3>2
  <2>11. CacheMatchesDatabase'
    <3> SUFFICES ASSUME up, failures = 0
                 PROVE  /\ \A r \in cache' : InWindow(r) =>
                              r \in db \/ \E u \in Workers : At(u, "save")' /\ Fetched(u)' = r
                        /\ \A r \in db : InWindow(r) => r \in cache'
      BY <1>0, <1>2, <2>8 DEF CacheMatchesDatabase
    <3>1. ASSUME NEW r \in cache', InWindow(r)
          PROVE  r \in db \/ \E u \in Workers : At(u, "save")' /\ Fetched(u)' = r
      <4>1. CASE r = q
        BY <2>5, <4>1
      <4>2. CASE r # q
        <5>1. r \in db \/ \E u \in Workers : At(u, "save") /\ Fetched(u) = r
          BY <2>7, <3>1, <4>2 DEF SyncInv, CacheMatchesDatabase
        <5>2. ~At(w, "save")
          BY <1>0 DEF At
        <5> QED
          BY <2>6, <5>1, <5>2
      <4> QED
        BY <4>1, <4>2
    <3>2. \A r \in db : InWindow(r) => r \in cache'
      BY <2>7 DEF SyncInv, CacheMatchesDatabase
    <3> QED
      BY <3>1, <3>2
  <2> QED
    BY <1>0, <2>9, <2>10, <2>11 DEF SyncInv, DownIsIdle
<1> QED
  BY <1>1, <1>2 DEF FetchVolume, MayFail

\* The saved record is the one in memory, if it is of the window.
LEMMA SyncSaved ==
    ASSUME TallChain, TallInv, SyncInv, NEW w \in Workers, SavePool(w) PROVE SyncInv'
<1> DEFINE q == Fetched(w)
<1>0. /\ call \in [Workers -> CallType] /\ up /\ At(w, "save") /\ PoolDone(w)
      /\ UNCHANGED <<node, up, current, cache>>
  BY DEF TallInv, TypeOK, SavePool, At
<1>1. ~At(w, "save")'
  BY <1>0 DEF PoolDone, At, Idle
<1>2. ASSUME NEW u \in Workers, u # w
      PROVE  At(u, "save")' = At(u, "save") /\ Fetched(u)' = Fetched(u)
  <2>1. call'[u] = call[u]
    BY <1>0, <1>2 DEF PoolDone
  <2> QED
    BY <1>0, <2>1 DEF At, Busy, Fetched
<1>3. \A r : InWindow(r)' = InWindow(r)
  BY <1>0 DEF InWindow
<1>4. SavingIsCached'
  <2> SUFFICES ASSUME NEW u \in Workers, At(u, "save")', InWindow(Fetched(u))'
               PROVE  Fetched(u)' \in cache
    BY <1>0 DEF SavingIsCached
  <2>1. At(u, "save") /\ Fetched(u)' = Fetched(u)
    BY <1>1, <1>2
  <2>2. InWindow(Fetched(u))
    BY <1>0, <2>1 DEF InWindow
  <2> QED
    BY <2>1, <2>2 DEF SyncInv, SavingIsCached
<1>5. CASE db' = SavedPool(q) /\ UNCHANGED failures
  <2>1. q \in Record /\ q.height <= node /\ q.liquidity = q.height /\ q.volume = q.height
    BY <1>0, SyncFacts
  <2>2. InWindow(q) => q \in cache
    BY <1>0 DEF SyncInv, SavingIsCached
  <2> HIDE DEF q
  <2>3. db' = db \cup {q}
    <3>1. db' = Put(db, q)
      BY <1>5 DEF SavedPool
    <3> QED
      BY <2>1, <3>1, PutExact DEF TallInv, TypeOK, CoherentRecords
  <2>4. Committed'
    BY <1>0, <2>1, <2>3 DEF SyncInv, Committed
  <2>5. CacheMatchesDatabase'
    <3> SUFFICES ASSUME up, failures = 0
                 PROVE  /\ \A r \in cache : InWindow(r) =>
                              r \in db' \/ \E u \in Workers : At(u, "save")' /\ Fetched(u)' = r
                        /\ \A r \in db' : InWindow(r) => r \in cache
      BY <1>0, <1>3, <1>5 DEF CacheMatchesDatabase
    <3>1. ASSUME NEW r \in cache, InWindow(r), r # q
          PROVE  r \in db' \/ \E u \in Workers : At(u, "save")' /\ Fetched(u)' = r
      <4>1. r \in db \/ \E u \in Workers : At(u, "save") /\ Fetched(u) = r
        BY <3>1 DEF SyncInv, CacheMatchesDatabase
      <4>2. \A u \in Workers : Fetched(u) = r => u # w
        BY <3>1 DEF q
      <4> QED
        BY <1>2, <2>3, <4>1, <4>2
    <3>2. \A r \in db' : InWindow(r) => r \in cache
      BY <2>2, <2>3 DEF SyncInv, CacheMatchesDatabase
    <3> QED
      BY <2>3, <3>1, <3>2
  <2> QED
    BY <1>0, <1>4, <2>4, <2>5 DEF SyncInv, DownIsIdle
<1>6. CASE failures' = failures + 1 /\ UNCHANGED db
  <2>1. failures' # 0
    BY <1>6 DEF TallInv, TypeOK
  <2>2. Committed'
    BY <1>0, <1>6 DEF SyncInv, Committed
  <2> QED
    BY <1>0, <1>4, <2>1, <2>2 DEF SyncInv, DownIsIdle, CacheMatchesDatabase
<1> QED
  BY <1>5, <1>6 DEF SavePool, MayFail

\* Pruning takes what is behind the window, in memory and in the database.
LEMMA SyncPruned ==
    ASSUME TallChain, TallInv, SyncInv, PruneCache \/ PruneDb PROVE SyncInv'
<1>0. /\ up /\ UNCHANGED <<node, up, current, call>> /\ failures \in Nat
      /\ failures' = failures \/ failures' = failures + 1
  BY DEF TallInv, TypeOK, PruneCache, PruneDb, Monitor, MayFail
<1>1. \A r : InWindow(r)' = InWindow(r)
  BY <1>0 DEF InWindow
<1>2. \A u \in Workers : At(u, "save")' = At(u, "save") /\ Fetched(u)' = Fetched(u)
  BY <1>0 DEF At, Busy, Fetched
<1>3. /\ cache' \subseteq cache /\ db' \subseteq db
      /\ \A r \in cache : InWindow(r) => r \in cache'
      /\ \A r \in db : InWindow(r) => r \in db'
  <2>1. monitor.min \in Int /\ current \in Int /\ Blocks \in Int /\ monitor.min + Blocks <= current
    <3>1. monitor.min \in Word /\ Modulus \in Nat
      BY TallFacts DEF TallInv, TypeOK, MonitorType
    <3>2. monitor.min + Blocks <= current
      BY DEF TallInv, PoolInv, MonitorInv, PruneCache, PruneDb, Monitor
    <3> QED
      BY <3>1, <3>2, SyncFacts DEF Word
  <2>2. \A r \in cache \cup db : InWindow(r) => r.height >= monitor.min
    BY <2>1, SyncFacts DEF InWindow
  <2>3. CASE PruneCache
    BY <2>2, <2>3 DEF PruneCache, From
  <2>4. CASE PruneDb
    BY <2>2, <2>4 DEF PruneDb, PrunedPools, From
  <2> QED
    BY <2>3, <2>4
<1>4. Committed'
  BY <1>0, <1>3 DEF SyncInv, Committed
<1>5. SavingIsCached'
  <2> SUFFICES ASSUME NEW u \in Workers, At(u, "save"), InWindow(Fetched(u))
               PROVE  Fetched(u) \in cache'
    BY <1>0, <1>2 DEF SavingIsCached, InWindow
  <2> QED
    BY <1>3 DEF SyncInv, SavingIsCached
<1>6. CacheMatchesDatabase'
  <2> SUFFICES ASSUME up, failures = 0
               PROVE  /\ \A r \in cache' : InWindow(r) =>
                            r \in db' \/ \E u \in Workers : At(u, "save") /\ Fetched(u) = r
                      /\ \A r \in db' : InWindow(r) => r \in cache'
    BY <1>0, <1>1, <1>2 DEF CacheMatchesDatabase
  <2> QED
    BY <1>3 DEF SyncInv, CacheMatchesDatabase
<1> QED
  BY <1>0, <1>4, <1>5, <1>6 DEF SyncInv, DownIsIdle

\* A process starts from what is saved of the window, unless the database fails.
LEMMA SyncStarted == ASSUME TallChain, TallInv, SyncInv, Start PROVE SyncInv'
<1>0. /\ ~up /\ up' = TRUE /\ current' = node /\ UNCHANGED <<node, db, call>>
      /\ failures \in Nat
  BY DEF TallInv, TypeOK, Start
<1>1. node \in Int /\ Blocks \in Int /\ Minus(node, Blocks) = node - Blocks
  <2>1. FirstHeight <= node /\ node \in Int
    BY SyncFacts DEF TallInv, PoolInv, ChainInv
  <2> QED
    BY <2>1, TallFacts DEF Minus
<1>2. ASSUME NEW u \in Workers PROVE ~At(u, "save")'
  <2>1. call[u].ids = <<>> /\ call'[u] = call[u]
    BY <1>0 DEF SyncInv, DownIsIdle
  <2> QED
    BY <2>1 DEF At, Busy
<1>3. cache' \subseteq db
  BY DEF Start, PoolsRange
<1>4. Committed'
  BY <1>0, <1>3 DEF SyncInv, Committed
<1>5. SavingIsCached' /\ DownIsIdle'
  BY <1>0, <1>2 DEF SavingIsCached, DownIsIdle
<1>6. CacheMatchesDatabase'
  <2>1. CASE cache' = PoolsRange(Minus(node, Blocks), node)
    <3>1. \A r \in db : InWindow(r)' => r \in cache'
      <4> SUFFICES ASSUME NEW r \in db, InWindow(r)' PROVE r \in cache'
        OBVIOUS
      <4>1. r.height \in Int /\ r.height <= node /\ r.height + Blocks >= node
        BY <1>0, SyncFacts DEF SyncInv, Committed, InWindow
      <4> QED
        BY <1>1, <2>1, <4>1 DEF PoolsRange
    <3> QED
      BY <1>0, <1>3, <3>1 DEF CacheMatchesDatabase
  <2>2. CASE MayFail
    <3>1. failures' # 0
      BY <1>0, <2>2 DEF MayFail
    <3> QED
      BY <3>1 DEF CacheMatchesDatabase
  <2> QED
    BY <2>1, <2>2 DEF Start
<1> QED
  BY <1>4, <1>5, <1>6 DEF SyncInv

\* The chain grows, the current height follows it, the process ends, the monitor works.
LEMMA SyncQuiet ==
    ASSUME TallChain, TallInv, SyncInv, UNCHANGED <<cache, db, call, failures>>,
           current' >= current, up' = up, node' >= node, node' \in Int, current' \in Int
    PROVE  SyncInv'
<1>0. \A u \in Workers : At(u, "save")' = At(u, "save") /\ Fetched(u)' = Fetched(u)
  BY DEF At, Busy, Fetched
<1>1. ASSUME NEW r \in Record, InWindow(r)' PROVE InWindow(r)
  <2>1. r.height \in Int /\ Blocks \in Int /\ current \in Int
    BY SyncFacts
  <2>2. r.height + Blocks >= current'
    BY <1>1 DEF InWindow
  <2> QED
    BY <2>1, <2>2 DEF InWindow
<1>2. cache \subseteq Record /\ db \subseteq Record
  BY DEF TallInv, TypeOK
<1>3. Committed'
  <2> SUFFICES ASSUME NEW r \in cache \cup db PROVE r.height <= node'
    BY DEF Committed
  <2>1. r.height \in Int /\ node \in Int /\ r.height <= node
    BY SyncFacts DEF SyncInv, Committed
  <2> QED
    BY <2>1
<1>4. SavingIsCached'
  <2> SUFFICES ASSUME NEW u \in Workers, At(u, "save"), InWindow(Fetched(u))'
               PROVE  Fetched(u) \in cache
    BY <1>0 DEF SavingIsCached
  <2>1. Fetched(u) \in Record /\ Fetched(u)' = Fetched(u)
    BY <1>0, SyncFacts
  <2>2. InWindow(Fetched(u))
    <3>1. Fetched(u).height + Blocks >= current'
      BY <2>1 DEF InWindow
    <3>2. Fetched(u).height \in Int /\ Blocks \in Int /\ current \in Int
      BY <2>1, SyncFacts
    <3> QED
      BY <3>1, <3>2 DEF InWindow
  <2> QED
    BY <2>2 DEF SyncInv, SavingIsCached
<1>5. CacheMatchesDatabase'
  <2> SUFFICES ASSUME up, failures = 0
               PROVE  /\ \A r \in cache : InWindow(r)' =>
                            r \in db \/ \E u \in Workers : At(u, "save")' /\ Fetched(u)' = r
                      /\ \A r \in db : InWindow(r)' => r \in cache
    BY DEF CacheMatchesDatabase
  <2>1. /\ \A r \in cache : InWindow(r) =>
              r \in db \/ \E u \in Workers : At(u, "save") /\ Fetched(u) = r
        /\ \A r \in db : InWindow(r) => r \in cache
    BY DEF SyncInv, CacheMatchesDatabase
  <2>2. \A r \in cache \cup db : InWindow(r)' => InWindow(r)
    BY <1>1, <1>2
  <2> QED
    BY <1>0, <2>1, <2>2
<1>6. DownIsIdle'
  BY DEF SyncInv, DownIsIdle
<1> QED
  BY <1>3, <1>4, <1>5, <1>6 DEF SyncInv

LEMMA SyncStopped == ASSUME TallInv, SyncInv, Stop PROVE SyncInv'
<1>0. ~up' /\ cache' = {} /\ call' = [w \in Workers |-> Idle] /\ UNCHANGED <<node, db>>
  BY DEF Stop
<1>1. \A u \in Workers : call'[u].ids = <<>> /\ ~At(u, "save")'
  BY <1>0 DEF Idle, At
<1> QED
  BY <1>0, <1>1 DEF SyncInv, Committed, SavingIsCached, DownIsIdle, CacheMatchesDatabase

LEMMA SyncStep == TallChain /\ TallInv /\ SyncInv /\ [Next]_vars => SyncInv'
<1> SUFFICES ASSUME TallChain, TallInv, SyncInv, [Next]_vars PROVE SyncInv'
  OBVIOUS
<1>0. /\ node \in Int /\ current \in Int /\ failures \in Nat
      /\ call \in [Workers -> CallType] /\ FirstHeight \in Int /\ MaxHeight \in Int
  BY SyncFacts, TallFacts DEF TallInv, TypeOK
<1>1. CASE NewBlock
  BY <1>0, <1>1, SyncQuiet DEF NewBlock
<1>2. ASSUME NEW h \in FirstHeight .. MaxHeight, SetLatestBlockHeight(h) PROVE SyncInv'
  BY <1>0, <1>2, SyncQuiet DEF SetLatestBlockHeight
<1>3. CASE StartScan \/ CheckHeight \/ SendHeight \/ EndScan \/ Tick \/ UNCHANGED vars
  <2>1. UNCHANGED <<node, up, current, cache, db, call, failures>>
    BY <1>3 DEF StartScan, CheckHeight, SendHeight, EndScan, Tick, vars
  <2>2. current' >= current /\ node' >= node
    BY <1>0, <2>1
  <2> QED
    BY <1>0, <2>1, <2>2, SyncQuiet
<1>4. CASE PruneCache \/ PruneDb
  BY <1>4, SyncPruned
<1>5. CASE Start
  BY <1>5, SyncStarted
<1>6. CASE Stop
  BY <1>6, SyncStopped
<1>7. ASSUME NEW w \in Workers, NEW h, NEW ids, ~Busy(w), up,
             call' = [call EXCEPT ![w] = CallOf(h, ids)],
             UNCHANGED <<node, up, current, cache, db, failures>>
      PROVE  SyncInv'
  <2>1. CallOf(h, ids).step # "save" /\ ~At(w, "save")
    BY <1>7 DEF CallOf, Idle, At
  <2> QED
    BY <1>7, <2>1, SyncUnsaved
<1>8. ASSUME NEW w \in Readers, NEW ids \in IdLists, Read(w, ids) PROVE SyncInv'
  BY <1>7, <1>8 DEF Read, Workers
<1>9. CASE TakeHeight
  BY <1>7, <1>9 DEF TakeHeight, Workers
<1>10. ASSUME NEW w \in Workers,
              \/ PoolDone(w)
              \/ call' = [call EXCEPT ![w].step = "liquidity"]
              \/ call' = [call EXCEPT ![w].step = "volume",
                                      ![w].liquidity = StateAt(call[w].height)]
       PROVE  call'[w].step # "save" /\ call' = [call EXCEPT ![w] = call'[w]]
  <2>0. call[w] \in CallType
    BY <1>0
  <2>1. CASE PoolDone(w)
    BY <1>0, <2>1 DEF PoolDone, Idle
  <2>2. CASE call' = [call EXCEPT ![w].step = "liquidity"]
    BY <1>0, <2>0, <2>2 DEF CallType
  <2>3. CASE call' = [call EXCEPT ![w].step = "volume",
                                  ![w].liquidity = StateAt(call[w].height)]
    BY <1>0, <2>0, <2>3 DEF CallType
  <2> QED
    BY <1>10, <2>1, <2>2, <2>3
<1>11. ASSUME NEW w \in Workers, LookUp(w) PROVE SyncInv'
  <2>0. PoolDone(w) \/ call' = [call EXCEPT ![w].step = "liquidity"]
    BY <1>11 DEF LookUp
  <2>1. call'[w].step # "save" /\ call' = [call EXCEPT ![w] = call'[w]]
    BY <1>0, <1>10, <2>0
  <2> QED
    BY <1>11, <2>1, SyncUnsaved DEF LookUp, At
<1>12. ASSUME NEW w \in Workers, FetchLiquidity(w) PROVE SyncInv'
  <2>0. \/ PoolDone(w)
        \/ call' = [call EXCEPT ![w].step = "volume",
                                ![w].liquidity = StateAt(call[w].height)]
    BY <1>12 DEF FetchLiquidity
  <2>1. call'[w].step # "save" /\ call' = [call EXCEPT ![w] = call'[w]]
    BY <1>0, <1>10, <2>0
  <2>2. failures' = 0 => failures = 0
    BY <1>0, <1>12 DEF FetchLiquidity, MayFail
  <2> QED
    BY <1>12, <2>1, <2>2, SyncUnsaved DEF FetchLiquidity, At
<1>13. ASSUME NEW w \in Workers, Advance(w) PROVE SyncInv'
  BY <1>11, <1>12, <1>13, SyncFetched, SyncSaved DEF Advance
<1> QED
  BY <1>1, <1>2, <1>3, <1>4, <1>5, <1>6, <1>8, <1>9, <1>13
  DEF Next, SyncerStep, MonitorStep, Workers

\* On a tall chain memory and database agree on every record of the window, but for the
\* saves under way, as long as no call failed: neither the prune between the caching and
\* the saving of a record, nor two callers that fetch the same one, nor a stop and a start
\* loses one of the two.
THEOREM CacheIsSaved == ASSUME TallChain PROVE Spec => []CacheMatchesDatabase
<1>1. Init => SyncInv
  BY DEF Init, Idle, SyncInv, Committed, SavingIsCached, DownIsIdle, CacheMatchesDatabase, At
<1>2. TallInv /\ SyncInv /\ [Next]_vars => SyncInv'
  BY SyncStep
<1>3. SyncInv => CacheMatchesDatabase
  BY DEF SyncInv
<1> QED
  BY <1>1, <1>2, <1>3, TallAlways, PTL DEF Spec

================================================================================
