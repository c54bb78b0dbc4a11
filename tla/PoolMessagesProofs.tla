-------------------------- MODULE PoolMessagesProofs ---------------------------
(***************************************************************************)
(* Proofs about PoolMessages: the types, with a rate that is never zero,   *)
(* and what its messages promise.  They follow from one invariant, in      *)
(* three parts: the clock, which "blocks" stores one part after the other; *)
(* the rate it measures; and the messages being built.                     *)
(***************************************************************************)
EXTENDS PoolMessages, SequenceTheorems, TLAPS

Message == [step : Steps, ids : Seq(Pools \cup {NoPool}), height : Nat, turn : DOMAIN Hours,
            statuses : Seq(Status), avg : Nat, pools : Nat, blockHeight : Nat,
            hash : Nat, now : Nat]

\* The steps at which a message has its statuses.
Filled == {"lookback", "volumes", "time", "block", "publish"}

\* The status of a pool at a height: nothing, or that of the pool with the height.
IsStatusOf(s, id, height) ==
    /\ s \in Status
    /\ s # Empty => s.pool = id /\ height \in s.heights

\* What the lookbacks have left of statuses that were asked for at a height.
Shared(statuses, height) ==
    IF \E i \in DOMAIN statuses : statuses[i] = Empty
    THEN \A i \in DOMAIN statuses : statuses[i].heights \subseteq {height}
    ELSE \A i, j \in DOMAIN statuses : statuses[i].heights = statuses[j].heights

\* The message of each goroutine, and what is known of one that has its statuses.
MessageOK(m) ==
    /\ m \in Message
    /\ m.step \in Filled =>
          /\ DOMAIN m.statuses = DOMAIN m.ids
          /\ \A i \in DOMAIN m.ids : IsStatusOf(m.statuses[i], m.ids[i], m.height)
          /\ Shared(m.statuses, m.height)

MessagesInv == work \in [Handlers -> Message] /\ \A w \in Handlers : MessageOK(work[w])

\* The clock: the height has its time unless the goroutine that stores both is between
\* them, and every other height told is older than the time.
ClockInv ==
    /\ node \in FirstHeight .. MaxHeight
    /\ {current, timed} \subseteq FirstHeight .. node
    /\ told \subseteq FirstHeight .. node
    /\ handled = current \/ (handled = 0 /\ current = FirstHeight)
    /\ IF work["blocks"].step = "measure"
       THEN work["blocks"].height = current /\ timed < current
       ELSE timed = current
    /\ \A height \in told : height <= timed \/ height = current

\* The rate is measured over at least as many ticks as a quick chain takes.
RateInv ==
    /\ rate \in Nat \ {0} /\ elapsed \in Nat
    /\ first \in {0} \cup FirstHeight .. timed
    /\ first = 0 => elapsed = 0
    /\ first # 0 => elapsed <= (timed - first) * MaxGap

\* The message on a block: of the current one, at the rate that holds while it is built.
Lookbacks(m) == {m.height} \cup {m.height - Hours[k] * m.avg : k \in DOMAIN Hours}

BlockOK(m, height, r) ==
    /\ m.step \notin {"idle", "measure"} => m.height = height /\ m.avg = Average(r)
    /\ m.step \in Filled =>
          \A i \in DOMAIN m.ids : m.statuses[i].heights \subseteq Lookbacks(m)
    /\ m.step = "time" => m.now = height
    /\ m.step # "block"

\* The message on an event: nothing in it is newer than the block it names.
EventOK(m, latest, height) ==
    /\ m.pools <= latest /\ m.height <= latest /\ m.now <= height
    /\ m.step # "measure"
    /\ m.step = "publish" =>
          IF m.hash = 0 THEN m.blockHeight = m.height
          ELSE m.hash = m.blockHeight /\ m.pools <= m.blockHeight /\ m.height <= m.blockHeight

PoolMessagesInv ==
    /\ MessagesInv /\ ClockInv /\ RateInv
    /\ BlockOK(work["blocks"], current, rate)
    /\ EventOK(work["pools"], node, current)

--------------------------------------------------------------------------------
(* What is assumed of the constants.                                       *)

LEMMA Constants ==
    /\ NoPool \notin Pools
    /\ PoolIds \in Seq(Pools \cup {NoPool})
    /\ EventIds \subseteq Seq(Pools \cup {NoPool})
    /\ Hours \in Seq(Nat \ {0}) /\ Len(Hours) \in Nat \ {0} /\ DOMAIN Hours = 1 .. Len(Hours)
    /\ DefaultBlocksPerHour \in Nat \ {0} /\ HourTicks \in Nat \ {0} /\ MaxGap \in Nat \ {0}
    /\ FirstHeight \in Nat \ {0}
    /\ MaxGap <= HourTicks
    /\ MaxHeight \in Nat /\ FirstHeight <= MaxHeight
  <1>1. Hours \in Seq(Nat \ {0}) /\ Hours # <<>>
    BY PoolMessagesAssumption, Zenon
  <1>2. Len(Hours) \in Nat \ {0} /\ DOMAIN Hours = 1 .. Len(Hours)
    BY <1>1, EmptySeq, LenProperties
  <1>3. QED
    BY <1>1, <1>2, PoolMessagesAssumption

LEMMA AverageIs == \A r \in Nat : Average(r) \in Nat \ {0}
  BY Constants DEF Average

\* The message at rest satisfies all that is said of messages.
LEMMA IdleOK ==
    /\ MessageOK(Idle)
    /\ \A height, r : BlockOK(Idle, height, r)
    /\ \A latest, height \in Nat : EventOK(Idle, latest, height)
  <1>1. Idle.step = "idle" /\ Idle.step \notin Filled /\ Idle.ids = <<>>
    BY DEF Idle, Filled
  <1>2. Idle \in Message
    BY Constants, EmptySeq DEF Idle, Message, Steps
  <1>3. QED
    BY <1>1, <1>2 DEF MessageOK, BlockOK, EventOK, Idle

--------------------------------------------------------------------------------
(* The indexer's answers.                                                  *)

\* An answer has a status for each id: an empty one, or that of the pool at the height.
Answered(s, id, height) ==
    \/ s = Empty
    \/ id # NoPool /\ s = [pool |-> id, heights |-> {height}]

LEMMA AnsweredInFull ==
  ASSUME NEW s, NEW id, NEW height, Answered(s, id, height), s.heights # {}
  PROVE  id # NoPool /\ s.heights = {height}
  <1>1. s # Empty
    BY DEF Empty
  <1>2. QED
    BY <1>1 DEF Answered

LEMMA AnswersAre ==
  ASSUME NEW h \in Int, NEW ids \in Seq(Pools \cup {NoPool}), NEW s \in PoolStatusesAt(h, ids)
  PROVE  /\ s \in Seq(Status) /\ Len(s) = Len(ids)
         /\ DOMAIN s = DOMAIN ids
         /\ \A i \in DOMAIN ids : Answered(s[i], ids[i], h)
  <1>1. DOMAIN ids = 1 .. Len(ids) /\ Len(ids) \in Nat
    BY LenProperties
  <1>2. DOMAIN s = DOMAIN ids /\ \A i \in DOMAIN ids : s[i] \in StatusAt(h, ids[i])
    BY DEF PoolStatusesAt
  <1>3. s = [i \in DOMAIN ids |-> s[i]]
    BY DEF PoolStatusesAt
  <1>4. \A i \in DOMAIN ids : Answered(s[i], ids[i], h)
    BY <1>2 DEF StatusAt, Answered
  <1>5. \A i \in DOMAIN ids : s[i] \in Status
    <2>1. SUFFICES ASSUME NEW i \in DOMAIN ids
                   PROVE  s[i] \in Status
      OBVIOUS
    <2>2. ids[i] \in Pools \cup {NoPool}
      BY <1>1, ElementOfSeq
    <2>3. CASE s[i] = Empty
      BY <2>3 DEF Empty, Status
    <2>4. CASE ids[i] # NoPool /\ s[i] = [pool |-> ids[i], heights |-> {h}]
      BY <2>2, <2>4 DEF Status
    <2>5. QED
      BY <1>4, <2>3, <2>4 DEF Answered
  <1>6. s \in [1 .. Len(ids) -> Status]
    BY <1>1, <1>3, <1>5
  <1>7. s \in Seq(Status)
    BY <1>1, <1>6, IsASeq
  <1>8. Len(s) = Len(ids)
    BY <1>1, <1>2, <1>7, LenProperties
  <1>9. QED
    BY <1>2, <1>4, <1>7, <1>8

\* The statuses of an answer at the height of the message are those of its pools.
LEMMA AnswerIsStatuses ==
  ASSUME NEW h \in Int, NEW ids \in Seq(Pools \cup {NoPool}), NEW s \in PoolStatusesAt(h, ids)
  PROVE  /\ \A i \in DOMAIN ids : IsStatusOf(s[i], ids[i], h) /\ s[i].heights \subseteq {h}
         /\ Shared(s, h)
  <1>1. s \in Seq(Status) /\ DOMAIN s = DOMAIN ids /\ DOMAIN s = 1 .. Len(s)
        /\ \A i \in DOMAIN ids : Answered(s[i], ids[i], h)
    BY AnswersAre, LenProperties
  <1>2. \A i \in DOMAIN ids : s[i] \in Status
    BY <1>1, ElementOfSeq
  <1>3. \A i \in DOMAIN ids : s[i].heights \subseteq {h} /\ (s[i] # Empty => s[i].heights = {h})
    BY <1>1 DEF Answered, Empty
  <1>4. \A i \in DOMAIN ids : s[i] # Empty => s[i].pool = ids[i]
    BY <1>1 DEF Answered
  <1>5. Shared(s, h)
    BY <1>1, <1>3 DEF Shared
  <1>6. QED
    BY <1>2, <1>3, <1>4, <1>5 DEF IsStatusOf

--------------------------------------------------------------------------------
(* Combining.                                                              *)

\* The ids of statuses, which the lookbacks ask for.
IdsOf(statuses) == [i \in DOMAIN statuses |-> statuses[i].pool]

\* The statuses of a message.
StatusesOf(statuses, ids, height) ==
    /\ ids \in Seq(Pools \cup {NoPool})
    /\ statuses \in Seq(Status)
    /\ DOMAIN statuses = DOMAIN ids
    /\ \A i \in DOMAIN ids : IsStatusOf(statuses[i], ids[i], height)
    /\ Shared(statuses, height)

LEMMA IdsAre ==
  ASSUME NEW statuses \in Seq(Status)
  PROVE  /\ IdsOf(statuses) \in Seq(Pools \cup {NoPool})
         /\ DOMAIN IdsOf(statuses) = DOMAIN statuses
         /\ \A i \in DOMAIN statuses : IdsOf(statuses)[i] = statuses[i].pool
  <1>1. DOMAIN statuses = 1 .. Len(statuses) /\ Len(statuses) \in Nat
    BY LenProperties
  <1>2. \A i \in DOMAIN statuses : statuses[i].pool \in Pools \cup {NoPool}
    <2>1. \A i \in DOMAIN statuses : statuses[i] \in Status
      BY <1>1, ElementOfSeq
    <2>2. QED
      BY <2>1 DEF Status
  <1>3. IdsOf(statuses) \in [1 .. Len(statuses) -> Pools \cup {NoPool}]
    BY <1>1, <1>2 DEF IdsOf
  <1>4. QED
    BY <1>1, <1>3, IsASeq DEF IdsOf

\* An answer that is added to the statuses is complete: no status was empty, and each gets
\* the height of the lookback.
LEMMA Complete ==
  ASSUME NEW statuses, NEW ids, NEW height, StatusesOf(statuses, ids, height),
         NEW h \in Int, NEW answer \in PoolStatusesAt(h, IdsOf(statuses)),
         ~ \E i \in DOMAIN answer : answer[i].heights = {}
  PROVE  \A i \in DOMAIN ids :
            /\ statuses[i] # Empty
            /\ Combine(statuses, answer)[i] \in Status
            /\ Combine(statuses, answer)[i].pool = statuses[i].pool
            /\ Combine(statuses, answer)[i].heights = statuses[i].heights \cup {h}
  <1>1. /\ DOMAIN answer = DOMAIN statuses /\ DOMAIN statuses = DOMAIN ids
        /\ \A i \in DOMAIN statuses : Answered(answer[i], statuses[i].pool, h)
    BY IdsAre, AnswersAre DEF StatusesOf
  <1>2. SUFFICES ASSUME NEW i \in DOMAIN ids
                 PROVE  /\ statuses[i] # Empty
                        /\ Combine(statuses, answer)[i] \in Status
                        /\ Combine(statuses, answer)[i].pool = statuses[i].pool
                        /\ Combine(statuses, answer)[i].heights = statuses[i].heights \cup {h}
    OBVIOUS
  <1>3. statuses[i].pool # NoPool /\ answer[i].heights = {h}
    BY <1>1, AnsweredInFull
  <1>4. statuses[i] \in Status
    BY DEF StatusesOf, IsStatusOf
  <1>5. Combine(statuses, answer)[i] = [statuses[i] EXCEPT !.heights = @ \cup {h}]
    BY <1>1, <1>3 DEF Combine
  <1>6. QED
    BY <1>3, <1>4, <1>5 DEF Empty, Status

\* So every status stays that of its pool, the height of the lookback is added to all of
\* them or to none, and to none when one is empty.
LEMMA GatheredIs ==
  ASSUME NEW statuses, NEW ids, NEW height, StatusesOf(statuses, ids, height),
         NEW h \in Int, NEW answer \in PoolStatusesAt(h, IdsOf(statuses))
  PROVE  /\ StatusesOf(Gathered(statuses, answer), ids, height)
         /\ \A i \in DOMAIN ids :
               Gathered(statuses, answer)[i].heights \subseteq statuses[i].heights \cup {h}
  <1>1. CASE \E i \in DOMAIN answer : answer[i].heights = {}
    BY <1>1 DEF Gathered
  <1>2. CASE ~ \E i \in DOMAIN answer : answer[i].heights = {}
    <2> DEFINE new == Combine(statuses, answer)
    <2>1. Gathered(statuses, answer) = new
      BY <1>2 DEF Gathered
    <2>2. /\ ids \in Seq(Pools \cup {NoPool}) /\ DOMAIN ids = 1 .. Len(ids) /\ Len(ids) \in Nat
          /\ DOMAIN statuses = DOMAIN ids
          /\ \A i \in DOMAIN ids : IsStatusOf(statuses[i], ids[i], height)
      BY LenProperties DEF StatusesOf
    <2>3. \A i \in DOMAIN ids :
             /\ statuses[i] # Empty
             /\ new[i] \in Status /\ new[i].pool = statuses[i].pool
             /\ new[i].heights = statuses[i].heights \cup {h}
      BY <1>2, Complete
    <2>4. DOMAIN new = DOMAIN ids /\ new = [i \in DOMAIN ids |-> new[i]]
      BY <2>2 DEF Combine
    <2> HIDE DEF new
    <2>5. ASSUME NEW i \in DOMAIN ids
          PROVE  IsStatusOf(new[i], ids[i], height)
      <3>1. statuses[i].pool = ids[i] /\ height \in statuses[i].heights
        BY <2>2, <2>3 DEF IsStatusOf
      <3>2. new[i] \in Status /\ new[i].pool = ids[i] /\ height \in new[i].heights
        BY <2>3, <3>1
      <3>3. QED
        BY <3>2 DEF IsStatusOf
    <2>6. new \in Seq(Status)
      <3>1. new \in [1 .. Len(ids) -> Status]
        BY <2>2, <2>4, <2>5 DEF IsStatusOf
      <3>2. QED
        BY <2>2, <3>1, IsASeq
    <2>7. Shared(new, height)
      <3>1. \A i \in DOMAIN ids : new[i].heights = statuses[i].heights \cup {h}
        BY <2>3
      <3>2. \A i \in DOMAIN new : new[i] # Empty
        <4>1. SUFFICES ASSUME NEW i \in DOMAIN new, new[i] = Empty
                       PROVE  FALSE
          OBVIOUS
        <4>2. h \in new[i].heights
          BY <2>4, <3>1, <4>1
        <4>3. QED
          BY <4>1, <4>2 DEF Empty
      <3>3. Shared(statuses, height)
        BY DEF StatusesOf
      <3>4. \A i, j \in DOMAIN statuses : statuses[i].heights = statuses[j].heights
        BY <2>2, <2>3, <3>3 DEF Shared
      <3>5. \A i, j \in DOMAIN new : new[i].heights = new[j].heights
        <4>1. SUFFICES ASSUME NEW i \in DOMAIN new, NEW j \in DOMAIN new
                       PROVE  new[i].heights = new[j].heights
          OBVIOUS
        <4>2. i \in DOMAIN ids /\ j \in DOMAIN ids /\ i \in DOMAIN statuses /\ j \in DOMAIN statuses
          BY <2>2, <2>4
        <4>3. statuses[i].heights = statuses[j].heights
          BY <3>4, <4>2
        <4>4. QED
          BY <3>1, <4>2, <4>3
      <3>6. QED
        BY <3>2, <3>5 DEF Shared
    <2>8. \A i \in DOMAIN ids : new[i].heights \subseteq statuses[i].heights \cup {h}
      BY <2>3
    <2>9. StatusesOf(new, ids, height)
      BY <2>2, <2>4, <2>5, <2>6, <2>7 DEF StatusesOf
    <2>10. QED
      BY <2>1, <2>8, <2>9
  <1>3. QED
    BY <1>1, <1>2

--------------------------------------------------------------------------------
(* The rate.                                                               *)

LEMMA TimesMonotonic ==
  ASSUME NEW a \in Nat, NEW b \in Nat, NEW k \in Nat, a <= b
  PROVE  a * k <= b * k
  <1>1. b * k = a * k + (b - a) * k
    OBVIOUS
  <1>2. (b - a) * k >= 0
    OBVIOUS
  <1>3. a * k \in Nat /\ (b - a) * k \in Int
    OBVIOUS
  <1>4. QED
    BY <1>1, <1>2, <1>3

LEMMA QuotientPositive ==
  ASSUME NEW a \in Nat, NEW b \in Nat \ {0}, b <= a
  PROVE  a \div b \in Nat \ {0}
  OBVIOUS

\* One gap more, at most a minute, for at least one block more.
LEMMA OneGapMore ==
  ASSUME NEW a \in Nat, NEW b \in Nat, a < b, NEW e \in Nat, e <= a * MaxGap,
         NEW gap \in 1 .. MaxGap
  PROVE  e + gap \in Nat \ {0} /\ e + gap <= b * MaxGap
  <1>1. (a + 1) * MaxGap <= b * MaxGap
    BY TimesMonotonic, Constants
  <1>2. (a + 1) * MaxGap = a * MaxGap + MaxGap
    BY Constants
  <1>3. a * MaxGap \in Nat /\ b * MaxGap \in Nat /\ MaxGap \in Nat
    BY Constants
  <1>4. QED
    BY <1>1, <1>2, <1>3

\* A rate measured over a minute or less for each block is not zero.
LEMMA MeasuredRate ==
  ASSUME NEW d \in Nat, NEW e \in Nat \ {0}, e <= d * MaxGap
  PROVE  (d * HourTicks) \div e \in Nat \ {0}
  <1>1. MaxGap * d <= HourTicks * d
    BY TimesMonotonic, Constants
  <1>2. d * HourTicks \in Nat /\ d * MaxGap \in Nat
        /\ d * MaxGap = MaxGap * d /\ d * HourTicks = HourTicks * d
    BY Constants
  <1>3. e <= d * HourTicks
    BY <1>1, <1>2
  <1>4. QED
    BY <1>2, <1>3, QuotientPositive

--------------------------------------------------------------------------------
(* The steps.                                                              *)

LEMMA InitHolds == Init => PoolMessagesInv
  <1>1. SUFFICES ASSUME Init
                 PROVE  PoolMessagesInv
    OBVIOUS
  <1>2. work["blocks"] = Idle /\ work["pools"] = Idle /\ work = [w \in Handlers |-> Idle]
    BY <1>1 DEF Init, Handlers
  <1>3. MessagesInv
    BY <1>2, IdleOK DEF MessagesInv, MessageOK
  <1>4. ClockInv
    BY <1>1, <1>2, Constants DEF Init, ClockInv, Idle
  <1>5. RateInv
    BY <1>1, Constants DEF Init, RateInv
  <1>6. node \in Nat /\ current \in Nat
    BY <1>1, Constants DEF Init
  <1>7. BlockOK(work["blocks"], current, rate) /\ EventOK(work["pools"], node, current)
    BY <1>2, <1>6, IdleOK
  <1>8. QED
    BY <1>3, <1>4, <1>5, <1>7 DEF PoolMessagesInv

\* What the invariant says of the types.
LEMMA Before1 ==
  ASSUME PoolMessagesInv
  PROVE  /\ node \in Nat /\ current \in Nat /\ timed \in Nat /\ rate \in Nat
         /\ current # 0 /\ current <= node /\ timed <= current
         /\ work \in [Handlers -> Message]
         /\ \A w \in Handlers : MessageOK(work[w]) /\ work[w] \in Message
  <1>1. node \in Nat /\ current \in Nat /\ timed \in Nat /\ current # 0 /\ current <= node
    BY Constants DEF PoolMessagesInv, ClockInv
  <1>2. timed <= current
    BY <1>1 DEF PoolMessagesInv, ClockInv
  <1>3. work \in [Handlers -> Message]
        /\ \A w \in Handlers : MessageOK(work[w]) /\ work[w] \in Message
    BY DEF PoolMessagesInv, MessagesInv
  <1>4. QED
    BY <1>1, <1>2, <1>3 DEF PoolMessagesInv, RateInv

\* A step that gives one goroutine another message and leaves the clock alone.
LEMMA MessageStep ==
  ASSUME PoolMessagesInv, NEW w \in Handlers, NEW n, MessageOK(n),
         UNCHANGED <<node, clock>>, handled' \in {handled, current},
         work' = [work EXCEPT ![w] = n],
         w = "blocks" => /\ work[w].step # "measure" /\ n.step # "measure"
                         /\ BlockOK(n, current, rate),
         w = "pools" => EventOK(n, node, current)
  PROVE  PoolMessagesInv'
  <1>1. work \in [Handlers -> Message] /\ n \in Message
        /\ "blocks" \in Handlers /\ "pools" \in Handlers
    BY Before1 DEF MessageOK, Handlers
  <1>2. \A v \in Handlers : work'[v] = IF v = w THEN n ELSE work[v]
    BY <1>1
  <1>3. MessagesInv'
    BY <1>1, <1>2, Before1 DEF MessagesInv
  <1>4. ClockInv'
    <2>1. (work["blocks"].step = "measure") <=> (work'["blocks"].step = "measure")
      BY <1>1, <1>2
    <2>2. work["blocks"].step = "measure" => work'["blocks"].height = work["blocks"].height
      BY <1>1, <1>2
    <2>3. ClockInv
      BY DEF PoolMessagesInv
    <2>4. QED
      BY <2>1, <2>2, <2>3 DEF ClockInv, clock
  <1>5. RateInv'
    BY DEF PoolMessagesInv, RateInv, clock
  <1>6. BlockOK(work'["blocks"], current, rate)
    BY <1>1, <1>2 DEF PoolMessagesInv
  <1>7. EventOK(work'["pools"], node, current)
    BY <1>1, <1>2 DEF PoolMessagesInv
  <1>8. node' = node /\ current' = current /\ rate' = rate
    BY DEF clock
  <1>9. QED
    BY <1>3, <1>4, <1>5, <1>6, <1>7, <1>8 DEF PoolMessagesInv

LEMMA NewBlockStep == PoolMessagesInv /\ NewBlock => PoolMessagesInv'
  <1>1. SUFFICES ASSUME PoolMessagesInv, NewBlock
                 PROVE  PoolMessagesInv'
    OBVIOUS
  <1>2. node' = node + 1 /\ node < MaxHeight /\ node \in Nat /\ UNCHANGED <<handled, clock, work>>
    BY <1>1, Before1 DEF NewBlock
  <1>3. MessagesInv'
    BY <1>1, <1>2 DEF PoolMessagesInv, MessagesInv
  <1>4. ClockInv'
    <2>1. ClockInv
      BY <1>1 DEF PoolMessagesInv
    <2>2. QED
      BY <1>2, <2>1, Constants DEF ClockInv, clock
  <1>5. RateInv' /\ BlockOK(work["blocks"], current, rate)'
    BY <1>1, <1>2 DEF PoolMessagesInv, RateInv, clock
  <1>6. EventOK(work["pools"], node, current)'
    <2>1. work["pools"] \in Message /\ EventOK(work["pools"], node, current)
      BY <1>1, Before1 DEF PoolMessagesInv, Handlers
    <2>2. QED
      BY <1>2, <2>1 DEF EventOK, Message, clock
  <1>7. QED
    BY <1>3, <1>4, <1>5, <1>6 DEF PoolMessagesInv

\* The message on a block starts without statuses.
LEMMA MonitoredOK ==
  ASSUME NEW height \in Nat, NEW r \in Nat
  PROVE  /\ MessageOK(Monitored(height, r))
         /\ BlockOK(Monitored(height, r), height, r)
         /\ Monitored(height, r).step = "statuses"
  <1>1. Idle \in Message
    BY IdleOK DEF MessageOK
  <1> DEFINE m == Monitored(height, r)
  <1>2. m \in Message
    BY <1>1, Constants, AverageIs DEF Monitored, Message, Steps
  <1>3. m.ids = PoolIds /\ m.step = "statuses" /\ m.height = height /\ m.avg = Average(r)
    BY <1>1 DEF Monitored, Message
  <1> HIDE DEF m
  <1>4. QED
    BY <1>2, <1>3, Constants DEF MessageOK, BlockOK, Filled, m

LEMMA TakeBlockStep ==
  ASSUME PoolMessagesInv, NEW height \in FirstHeight .. MaxHeight, TakeBlock(height)
  PROVE  PoolMessagesInv'
  <1>1. /\ work["blocks"].step = "idle" /\ handled < height /\ height <= node
        /\ handled' = height /\ UNCHANGED <<node, timed, rate, first, elapsed>>
    BY DEF TakeBlock
  <1>2. height \in Nat /\ height # 0 /\ "blocks" \in Handlers /\ "pools" \in Handlers
    BY Constants DEF Handlers
  <1>3. CASE current < height
    <2> DEFINE n == [Idle EXCEPT !.step = "measure", !.height = height]
    <2>1. current' = height /\ told' = told \cup {height} /\ work' = [work EXCEPT !["blocks"] = n]
      BY <1>3 DEF TakeBlock
    <2>2. n \in Message /\ n.step = "measure" /\ n.height = height /\ n.ids = <<>>
      BY <1>2, IdleOK DEF MessageOK, Message, Steps, Idle
    <2> HIDE DEF n
    <2>3. MessageOK(n) /\ BlockOK(n, height, rate)
      BY <2>2, IdleOK DEF MessageOK, BlockOK, Filled, Idle
    <2>4. work'["blocks"] = n /\ work'["pools"] = work["pools"]
          /\ work' \in [Handlers -> Message]
      BY <1>2, <2>1, <2>2, Before1
    <2>5. MessagesInv'
      BY <2>3, <2>4, Before1 DEF MessagesInv, Handlers
    <2>6. ClockInv'
      <3>1. ClockInv /\ timed = current
        BY <1>1 DEF PoolMessagesInv, ClockInv
      <3>2. told \subseteq Nat
        BY <3>1, Constants DEF ClockInv
      <3>3. \A h \in told' : h <= timed' \/ h = current'
        BY <1>1, <2>1, <3>1 DEF ClockInv
      <3>4. /\ node' = node /\ node \in FirstHeight .. MaxHeight
            /\ {current', timed'} \subseteq FirstHeight .. node
            /\ told' \subseteq FirstHeight .. node
        BY <1>1, <1>2, <2>1, <3>1, Constants DEF ClockInv
      <3>5. handled' = current' /\ timed' < current'
            /\ work'["blocks"].step = "measure" /\ work'["blocks"].height = current'
        BY <1>1, <1>3, <2>1, <2>2, <2>4, <3>1
      <3>6. QED
        BY <3>3, <3>4, <3>5 DEF ClockInv
    <2>7. RateInv'
      BY <1>1 DEF PoolMessagesInv, RateInv
    <2>8. EventOK(work["pools"], node, height)
      <3>1. work["pools"] \in Message /\ EventOK(work["pools"], node, current)
            /\ current \in Nat
        BY <1>2, Before1 DEF PoolMessagesInv
      <3>2. QED
        BY <1>2, <1>3, <3>1 DEF EventOK, Message
    <2>9. QED
      BY <1>1, <2>1, <2>3, <2>4, <2>5, <2>6, <2>7, <2>8 DEF PoolMessagesInv
  <1>4. CASE ~(current < height)
    <2>1. current' = current /\ told' = told
          /\ work' = [work EXCEPT !["blocks"] = Monitored(height, rate)]
      BY <1>4 DEF TakeBlock
    <2>2. height = current /\ rate \in Nat
      BY <1>1, <1>2, <1>4, Before1 DEF PoolMessagesInv, ClockInv
    <2>3. QED
      BY <1>1, <1>2, <2>1, <2>2, MonitoredOK, MessageStep DEF clock
  <1>5. QED
    BY <1>3, <1>4

LEMMA MeasureStep ==
  ASSUME PoolMessagesInv, NEW gap \in 1 .. MaxGap, Measure(gap)
  PROVE  PoolMessagesInv'
  <1> DEFINE height == work["blocks"].height
  <1>1. /\ work["blocks"].step = "measure" /\ UNCHANGED <<node, handled, current, told>>
        /\ timed' = height
        /\ first' = (IF first = 0 THEN height ELSE first)
        /\ elapsed' = (IF first = 0 THEN 0 ELSE elapsed + gap)
        /\ rate' = (IF height - first' >= rate
                    THEN ((height - first') * HourTicks) \div elapsed' ELSE rate)
        /\ work' = [work EXCEPT !["blocks"] = Monitored(height, rate')]
    BY DEF Measure, TimeOf, Since
  <1>2. /\ height = current /\ timed < current /\ current \in Nat /\ timed \in Nat
        /\ current # 0
        /\ "blocks" \in Handlers /\ "pools" \in Handlers
    BY <1>1, Before1 DEF PoolMessagesInv, ClockInv, Handlers
  <1> HIDE DEF height
  <1>3. RateInv
    BY DEF PoolMessagesInv
  <1>4. RateInv'
    <2>1. CASE first = 0
      <3>1. first' = height /\ elapsed' = 0 /\ rate' = rate /\ timed' = height
        BY <1>1, <1>2, <1>3, <2>1 DEF RateInv
      <3>2. height \in FirstHeight .. height
        <4>1. FirstHeight <= timed
          BY Constants DEF PoolMessagesInv, ClockInv
        <4>2. QED
          BY <1>2, <4>1, Constants
      <3>3. (height - height) * MaxGap = 0
        BY <1>2, Constants
      <3>4. QED
        BY <1>2, <1>3, <3>1, <3>2, <3>3 DEF RateInv
    <2>2. CASE first # 0
      <3>1. first' = first /\ elapsed' = elapsed + gap /\ timed' = height
        BY <1>1, <2>2
      <3>2. first \in Nat /\ first \in FirstHeight .. timed /\ elapsed \in Nat
            /\ elapsed <= (timed - first) * MaxGap /\ rate \in Nat \ {0}
        BY <1>3, <2>2, Constants DEF RateInv
      <3>3. timed - first \in Nat /\ height - first \in Nat /\ timed - first < height - first
        BY <1>2, <3>2, Constants
      <3>4. elapsed + gap \in Nat \ {0} /\ elapsed + gap <= (height - first) * MaxGap
        BY <3>2, <3>3, OneGapMore
      <3>5. ((height - first) * HourTicks) \div (elapsed + gap) \in Nat \ {0}
        BY <3>3, <3>4, MeasuredRate
      <3>6. rate' \in Nat \ {0}
        BY <1>1, <3>1, <3>2, <3>5
      <3>7. first \in FirstHeight .. height
        BY <1>2, <3>2, Constants
      <3>8. QED
        BY <2>2, <3>1, <3>4, <3>6, <3>7 DEF RateInv
    <2>3. QED
      BY <2>1, <2>2
  <1>5. rate' \in Nat /\ height \in Nat
    BY <1>2, <1>4 DEF RateInv
  <1> DEFINE n == Monitored(height, rate')
  <1>6. MessageOK(n) /\ BlockOK(n, height, rate') /\ n.step = "statuses" /\ n \in Message
    BY <1>5, MonitoredOK DEF MessageOK
  <1>7. work' = [work EXCEPT !["blocks"] = n]
    BY <1>1
  <1> HIDE DEF n
  <1>8. work'["blocks"] = n /\ work'["pools"] = work["pools"]
        /\ work' \in [Handlers -> Message]
    BY <1>2, <1>6, <1>7, Before1
  <1>9. MessagesInv'
    BY <1>6, <1>8, Before1 DEF MessagesInv, Handlers
  <1>10. ClockInv'
    <2>1. ClockInv
      BY DEF PoolMessagesInv
    <2>2. told \subseteq Nat
      BY <2>1, Constants DEF ClockInv
    <2>3. \A h \in told' : h <= timed' \/ h = current'
      BY <1>1, <1>2, <2>1, <2>2 DEF ClockInv
    <2>4. QED
      BY <1>1, <1>2, <1>6, <1>8, <2>1, <2>3, Constants DEF ClockInv
  <1>11. EventOK(work["pools"], node, current)
    BY DEF PoolMessagesInv
  <1>12. QED
    BY <1>1, <1>2, <1>4, <1>6, <1>8, <1>9, <1>10, <1>11 DEF PoolMessagesInv

LEMMA TakeEventStep ==
  ASSUME PoolMessagesInv, NEW ids \in EventIds, TakeEvent(ids)
  PROVE  PoolMessagesInv'
  <1>1. PICK fetched \in {0, node} :
           work' = [work EXCEPT !["pools"] =
                       [Idle EXCEPT !.step = "statuses", !.ids = ids, !.pools = fetched]]
    BY DEF TakeEvent
  <1> DEFINE n == [Idle EXCEPT !.step = "statuses", !.ids = ids, !.pools = fetched]
  <1>2. "pools" \in Handlers /\ node \in Nat /\ current \in Nat
        /\ UNCHANGED <<node, handled, clock>>
    BY Before1 DEF Handlers, TakeEvent
  <1>3. n \in Message
    BY <1>2, IdleOK, Constants DEF MessageOK, Message, Steps, Idle
  <1>4. n.step = "statuses" /\ n.ids = ids /\ n.pools <= node /\ n.height = 0 /\ n.now = 0
    BY <1>2 DEF Idle
  <1>5. work' = [work EXCEPT !["pools"] = n]
    BY <1>1
  <1> HIDE DEF n
  <1>6. MessageOK(n) /\ EventOK(n, node, current)
    BY <1>2, <1>3, <1>4, Constants DEF MessageOK, EventOK, Filled
  <1>7. QED
    BY <1>2, <1>5, <1>6, MessageStep

\* What is known of a message that has its statuses.
LEMMA FilledOK ==
  ASSUME NEW m \in Message
  PROVE  /\ m.step \in Filled => (MessageOK(m) <=> StatusesOf(m.statuses, m.ids, m.height))
         /\ m.step \notin Filled => MessageOK(m)
  <1>1. m.ids \in Seq(Pools \cup {NoPool}) /\ m.statuses \in Seq(Status)
    BY DEF Message
  <1>2. QED
    BY <1>1 DEF MessageOK, StatusesOf

LEMMA AskStatusesStep ==
  ASSUME PoolMessagesInv, NEW w \in Handlers, AskStatuses(w)
  PROVE  PoolMessagesInv'
  <1> DEFINE m == work[w]
             height == HeightOf(m.height)
  <1>1. m.step = "statuses" /\ UNCHANGED <<node, handled, clock>>
    BY DEF AskStatuses
  <1>2. PICK answer \in PoolStatusesAt(height, m.ids) :
           work' = [work EXCEPT ![w] = [@ EXCEPT !.step = "lookback", !.height = height,
                                                 !.statuses = answer]]
    BY Zenon DEF AskStatuses
  <1> DEFINE n == [m EXCEPT !.step = "lookback", !.height = height, !.statuses = answer]
  <1>3. work' = [work EXCEPT ![w] = n]
    BY <1>2, Before1
  <1>4. m \in Message /\ MessageOK(m) /\ m.height \in Nat /\ m.ids \in Seq(Pools \cup {NoPool})
    BY Before1 DEF Message
  <1>5. height \in Nat /\ current \in Nat
    BY <1>4, Before1 DEF HeightOf
  <1> HIDE DEF m, height
  <1>6. /\ answer \in Seq(Status) /\ DOMAIN answer = DOMAIN m.ids
        /\ \A i \in DOMAIN m.ids : IsStatusOf(answer[i], m.ids[i], height)
                                   /\ answer[i].heights \subseteq {height}
        /\ Shared(answer, height)
    <2>1. height \in Int
      BY <1>5
    <2>2. answer \in Seq(Status) /\ DOMAIN answer = DOMAIN m.ids
      BY <1>4, <2>1, AnswersAre, Zenon
    <2>3. /\ \A i \in DOMAIN m.ids : IsStatusOf(answer[i], m.ids[i], height)
                                      /\ answer[i].heights \subseteq {height}
          /\ Shared(answer, height)
      BY <1>4, <2>1, AnswerIsStatuses, Zenon
    <2>4. QED
      BY <2>2, <2>3
  <1>7. n \in Message
    BY <1>4, <1>5, <1>6 DEF Message, Steps
  <1>8. /\ n.step = "lookback" /\ n.height = height /\ n.statuses = answer /\ n.ids = m.ids
        /\ n.avg = m.avg /\ n.pools = m.pools /\ n.now = m.now
    BY <1>4 DEF Message
  <1> HIDE DEF n
  <1>9. MessageOK(n)
    BY <1>4, <1>6, <1>7, <1>8 DEF MessageOK
  <1>10. ASSUME w = "blocks"
         PROVE  BlockOK(n, current, rate)
    <2>1. BlockOK(m, current, rate)
      BY <1>10 DEF PoolMessagesInv, m
    <2>2. m.height = current /\ m.avg = Average(rate)
      BY <1>1, <2>1 DEF BlockOK, m
    <2>3. height = current
      BY <2>2, Before1 DEF height, HeightOf
    <2>4. \A i \in DOMAIN n.ids : n.statuses[i].heights \subseteq Lookbacks(n)
      BY <1>6, <1>8 DEF Lookbacks
    <2>5. QED
      BY <1>8, <2>2, <2>3, <2>4 DEF BlockOK
  <1>11. ASSUME w = "pools"
         PROVE  EventOK(n, node, current)
    <2>1. EventOK(m, node, current)
      BY <1>11 DEF PoolMessagesInv, m
    <2>2. height <= node
      BY <2>1, Before1 DEF height, HeightOf, EventOK
    <2>3. QED
      BY <1>8, <2>1, <2>2 DEF EventOK
  <1>12. work[w].step # "measure" /\ n.step # "measure"
    BY <1>1, <1>8 DEF m
  <1>13. QED
    BY <1>1, <1>3, <1>9, <1>10, <1>11, <1>12, MessageStep

LEMMA LookBackStep ==
  ASSUME PoolMessagesInv, NEW w \in Handlers, LookBack(w)
  PROVE  PoolMessagesInv'
  <1> DEFINE m == work[w]
             h == HeightOf(Before(m))
  <1>1. m.step = "lookback" /\ UNCHANGED <<node, handled, clock>>
    BY DEF LookBack
  <1>2. PICK answer \in PoolStatusesAt(h, IdsOf(m.statuses)) :
           work' = [work EXCEPT ![w].statuses = Gathered(m.statuses, answer),
                                ![w].turn = IF @ < Len(Hours) THEN @ + 1 ELSE @,
                                ![w].step = IF m.turn < Len(Hours) THEN @ ELSE "volumes"]
    BY Zenon DEF LookBack, IdsOf
  <1> DEFINE new == Gathered(m.statuses, answer)
             turn == IF m.turn < Len(Hours) THEN m.turn + 1 ELSE m.turn
             step == IF m.turn < Len(Hours) THEN m.step ELSE "volumes"
             n == [m EXCEPT !.statuses = new, !.turn = turn, !.step = step]
  <1>3. work' = [work EXCEPT ![w] = n]
    BY <1>2, Before1
  <1>4. m \in Message /\ MessageOK(m) /\ m.height \in Nat /\ m.turn \in 1 .. Len(Hours)
        /\ Len(Hours) \in Nat
    BY Before1, Constants DEF Message
  <1>5. Hours[m.turn] \in Nat /\ Average(rate) \in Nat
    <2>1. Hours[m.turn] \in Nat \ {0}
      BY <1>4, Constants, ElementOfSeq
    <2>2. QED
      BY <2>1, Before1, AverageIs
  <1>6. Before(m) \in Int /\ h \in Int
    BY <1>4, <1>5, Before1 DEF Before, HeightOf
  <1> HIDE DEF m, h
  <1>7. StatusesOf(m.statuses, m.ids, m.height)
    BY <1>1, <1>4, FilledOK DEF Filled, MessageOK
  <1>8. /\ StatusesOf(new, m.ids, m.height)
        /\ \A i \in DOMAIN m.ids : new[i].heights \subseteq m.statuses[i].heights \cup {h}
    BY <1>6, <1>7, GatheredIs
  <1> HIDE DEF new
  <1>9. new \in Seq(Status)
    BY <1>8 DEF StatusesOf
  <1>10. n \in Message /\ n.step \in {"lookback", "volumes"}
    <2>1. turn \in DOMAIN Hours
      BY <1>4, Constants
    <2>2. step \in {"lookback", "volumes"}
      BY <1>1
    <2> HIDE DEF turn, step
    <2>3. QED
      BY <1>4, <1>9, <2>1, <2>2 DEF Message, Steps
  <1>11. /\ n.step \in {"lookback", "volumes"} /\ n.height = m.height /\ n.statuses = new
         /\ n.ids = m.ids /\ n.avg = m.avg /\ n.pools = m.pools /\ n.now = m.now
    BY <1>4, <1>10 DEF Message
  <1> HIDE DEF n
  <1>12. MessageOK(n)
    BY <1>4, <1>8, <1>10, <1>11 DEF MessageOK, StatusesOf
  <1>13. ASSUME w = "blocks"
         PROVE  BlockOK(n, current, rate)
    <2>1. BlockOK(m, current, rate)
      BY <1>13 DEF PoolMessagesInv, m
    <2>2. /\ m.height = current /\ m.avg = Average(rate)
          /\ \A i \in DOMAIN m.ids : m.statuses[i].heights \subseteq Lookbacks(m)
      BY <1>1, <2>1 DEF BlockOK, Filled
    <2>3. h \in Lookbacks(m)
      BY <1>4, <2>2, Constants DEF h, HeightOf, Before, Lookbacks
    <2>4. Lookbacks(n) = Lookbacks(m)
      BY <1>11 DEF Lookbacks
    <2>5. \A i \in DOMAIN n.ids : n.statuses[i].heights \subseteq Lookbacks(n)
      BY <1>8, <1>11, <2>2, <2>3, <2>4
    <2>6. QED
      BY <1>11, <2>2, <2>5 DEF BlockOK
  <1>14. ASSUME w = "pools"
         PROVE  EventOK(n, node, current)
    <2>1. EventOK(m, node, current)
      BY <1>14 DEF PoolMessagesInv, m
    <2>2. QED
      BY <1>11, <2>1 DEF EventOK
  <1>15. work[w].step # "measure" /\ n.step # "measure"
    BY <1>1, <1>11 DEF m
  <1>16. QED
    BY <1>1, <1>3, <1>12, <1>13, <1>14, <1>15, MessageStep

\* The later steps of a message leave its ids, height, statuses and pools as they are.
SameStatuses(n, m) ==
    /\ n \in Message
    /\ n.ids = m.ids /\ n.height = m.height /\ n.statuses = m.statuses
    /\ n.pools = m.pools /\ n.step \in Filled

LEMMA SameIsOK ==
  ASSUME NEW m, NEW n, MessageOK(m), m.step \in Filled, SameStatuses(n, m)
  PROVE  /\ MessageOK(n)
         /\ \A height, r : /\ BlockOK(m, height, r)
                           /\ n.avg = m.avg /\ n.step # "block"
                           /\ n.step = "time" => n.now = height
                           => BlockOK(n, height, r)
  <1>1. MessageOK(n)
    BY DEF MessageOK, SameStatuses
  <1>2. n.avg = m.avg => Lookbacks(n) = Lookbacks(m)
    BY DEF Lookbacks, SameStatuses
  <1>3. m.step \notin {"idle", "measure"}
    BY DEF Filled
  <1>4. QED
    BY <1>1, <1>2, <1>3 DEF BlockOK, SameStatuses

LEMMA ReadHeightStep ==
  ASSUME PoolMessagesInv, NEW w \in Handlers, ReadHeight(w)
  PROVE  PoolMessagesInv'
  <1> DEFINE m == work[w]
             n == [m EXCEPT !.step = "time", !.now = current]
  <1>1. m.step = "volumes" /\ UNCHANGED <<node, handled, clock>> /\ current \in Nat
        /\ work' = [work EXCEPT ![w] = n]
    BY Before1 DEF ReadHeight
  <1>2. m \in Message /\ MessageOK(m)
    BY Before1
  <1>3. n \in Message /\ n.step = "time" /\ n.now = current /\ n.avg = m.avg
        /\ n.ids = m.ids /\ n.height = m.height /\ n.statuses = m.statuses
        /\ n.pools = m.pools
    BY <1>1, <1>2 DEF Message, Steps
  <1> HIDE DEF m, n
  <1>4. SameStatuses(n, m) /\ m.step \in Filled
    BY <1>1, <1>3 DEF SameStatuses, Filled
  <1>5. w = "blocks" => BlockOK(m, current, rate)
    BY DEF PoolMessagesInv, m
  <1>6. w = "blocks" => BlockOK(n, current, rate)
    BY <1>2, <1>3, <1>4, <1>5, SameIsOK
  <1>7. w = "pools" => EventOK(n, node, current)
    <2>1. w = "pools" => EventOK(m, node, current)
      BY DEF PoolMessagesInv, m
    <2>2. QED
      BY <1>1, <1>3, <2>1 DEF EventOK
  <1>8. MessageOK(n)
    BY <1>2, <1>4, SameIsOK
  <1>9. work[w].step # "measure" /\ n.step # "measure"
    BY <1>1, <1>3 DEF m
  <1>10. QED
    BY <1>1, <1>6, <1>7, <1>8, <1>9, MessageStep

LEMMA CalculateStep ==
  ASSUME PoolMessagesInv, NEW w \in Handlers, Calculate(w)
  PROVE  PoolMessagesInv'
  <1> DEFINE m == work[w]
             o == [m EXCEPT !.now = 0]
             n == Completed(w, o)
  <1>1. m.step = "time" /\ UNCHANGED <<node, handled, clock>>
        /\ work' = [work EXCEPT ![w] = n]
    BY Before1 DEF Calculate
  <1>2. m \in Message /\ MessageOK(m) /\ node \in Nat /\ current \in Nat
    BY Before1
  <1>3. o \in Message /\ o.step = "time" /\ o.now = 0 /\ o.avg = m.avg
        /\ o.ids = m.ids /\ o.height = m.height /\ o.statuses = m.statuses
        /\ o.pools = m.pools
    BY <1>1, <1>2 DEF Message
  <1> HIDE DEF o
  <1>4. CASE n = Idle
    <2>1. MessageOK(n) /\ BlockOK(n, current, rate) /\ EventOK(n, node, current)
          /\ n.step = "idle"
      BY <1>2, <1>4, IdleOK DEF Idle
    <2> HIDE DEF m, n
    <2>2. work[w].step # "measure" /\ n.step # "measure"
      BY <1>1, <2>1 DEF m
    <2>3. QED
      BY <1>1, <2>1, <2>2, MessageStep
  <1>5. ASSUME NEW step \in {"publish", "block"}, n = [o EXCEPT !.step = step],
               w = "blocks" => step = "publish", w = "pools" => step = "block"
        PROVE  PoolMessagesInv'
    <2>1. n \in Message /\ n.step = step /\ n.now = 0 /\ n.avg = m.avg
          /\ n.ids = m.ids /\ n.height = m.height /\ n.statuses = m.statuses
          /\ n.pools = m.pools
      BY <1>3, <1>5 DEF Message, Steps
    <2> HIDE DEF m, n
    <2>2. SameStatuses(n, m) /\ m.step \in Filled
      BY <1>1, <2>1 DEF SameStatuses, Filled
    <2>3. w = "blocks" => BlockOK(m, current, rate)
      BY DEF PoolMessagesInv, m
    <2>4. w = "blocks" => BlockOK(n, current, rate)
      BY <1>2, <1>5, <2>1, <2>2, <2>3, SameIsOK
    <2>5. w = "pools" => EventOK(n, node, current)
      <3>1. w = "pools" => EventOK(m, node, current)
        BY DEF PoolMessagesInv, m
      <3>2. QED
        BY <1>2, <1>5, <2>1, <3>1 DEF EventOK
    <2>6. MessageOK(n)
      BY <1>2, <2>2, SameIsOK
    <2>7. work[w].step # "measure" /\ n.step # "measure"
      BY <1>1, <2>1 DEF m
    <2>8. QED
      BY <1>1, <2>4, <2>5, <2>6, <2>7, MessageStep
  <1>6. CASE w = "blocks"
    <2>1. n = [o EXCEPT !.step = "publish"]
      BY <1>6 DEF Completed, GoesOut
    <2>2. QED
      BY <1>5, <1>6, <2>1
  <1>7. CASE w = "pools" /\ m.pools # 0
    <2>1. n = [o EXCEPT !.step = "block"]
      BY <1>3, <1>7 DEF Completed
    <2>2. QED
      BY <1>5, <1>7, <2>1
  <1>8. CASE w = "pools" /\ m.pools = 0
    <2>1. n = Idle
      BY <1>3, <1>8 DEF Completed
    <2>2. QED
      BY <1>4, <2>1
  <1>9. QED
    BY <1>6, <1>7, <1>8 DEF Handlers

LEMMA FetchBlockStep ==
  ASSUME PoolMessagesInv, FetchBlock
  PROVE  PoolMessagesInv'
  <1> DEFINE m == work["pools"]
  <1>1. m.step = "block" /\ UNCHANGED <<node, handled, clock>>
    BY DEF FetchBlock
  <1>2. PICK hash \in {0, node} :
           work' = [work EXCEPT !["pools"] =
                       [@ EXCEPT !.step = "publish", !.avg = Average(rate),
                                 !.blockHeight = NamedHeight(m, hash), !.hash = hash]]
    BY DEF FetchBlock
  <1> DEFINE n == [m EXCEPT !.step = "publish", !.avg = Average(rate),
                            !.blockHeight = NamedHeight(m, hash), !.hash = hash]
  <1>3. "pools" \in Handlers /\ work' = [work EXCEPT !["pools"] = n]
    BY <1>2, Before1 DEF Handlers
  <1>4. m \in Message /\ MessageOK(m) /\ node \in Nat /\ node # 0 /\ Average(rate) \in Nat
        /\ EventOK(m, node, current) /\ m.height \in Nat
    <2>1. m \in Message /\ MessageOK(m) /\ m.height \in Nat
      BY <1>3, Before1 DEF Message
    <2>2. QED
      BY <2>1, Before1, AverageIs DEF PoolMessagesInv
  <1>5. NamedHeight(m, hash) \in Nat /\ hash \in Nat
    BY <1>4 DEF NamedHeight
  <1>6. /\ n \in Message /\ n.step = "publish" /\ n.hash = hash
        /\ n.blockHeight = NamedHeight(m, hash)
        /\ n.ids = m.ids /\ n.height = m.height /\ n.statuses = m.statuses
        /\ n.pools = m.pools /\ n.now = m.now
    BY <1>4, <1>5 DEF Message, Steps
  <1> HIDE DEF m, n
  <1>7. SameStatuses(n, m) /\ m.step \in Filled
    BY <1>1, <1>6 DEF SameStatuses, Filled
  <1>8. MessageOK(n)
    BY <1>4, <1>7, SameIsOK
  <1>9. EventOK(n, node, current)
    BY <1>4, <1>6 DEF EventOK, NamedHeight
  <1>10. QED
    BY <1>1, <1>3, <1>8, <1>9, MessageStep

LEMMA PublishStep ==
  ASSUME PoolMessagesInv, NEW w \in Handlers, Publish(w)
  PROVE  PoolMessagesInv'
  <1>1. work[w].step = "publish" /\ work' = [work EXCEPT ![w] = Idle]
        /\ UNCHANGED <<node, handled, clock>> /\ node \in Nat /\ current \in Nat
    BY Before1 DEF Publish
  <1>2. MessageOK(Idle) /\ BlockOK(Idle, current, rate) /\ EventOK(Idle, node, current)
        /\ Idle.step = "idle"
    BY <1>1, IdleOK DEF Idle
  <1>3. QED
    BY <1>1, <1>2, MessageStep

LEMMA NextHolds == PoolMessagesInv /\ [Next]_vars => PoolMessagesInv'
  <1>1. SUFFICES ASSUME PoolMessagesInv, [Next]_vars
                 PROVE  PoolMessagesInv'
    OBVIOUS
  <1>2. CASE NewBlock
    BY <1>1, <1>2, NewBlockStep
  <1>3. CASE \E height \in FirstHeight .. MaxHeight : TakeBlock(height)
    BY <1>1, <1>3, TakeBlockStep
  <1>4. CASE \E ids \in EventIds : TakeEvent(ids)
    BY <1>1, <1>4, TakeEventStep
  <1>5. ASSUME NEW w \in Handlers, Continue(w)
        PROVE  PoolMessagesInv'
    BY <1>1, <1>5, AskStatusesStep, LookBackStep, ReadHeightStep, CalculateStep,
       PublishStep, MeasureStep, FetchBlockStep DEF Continue
  <1>6. CASE UNCHANGED vars
    BY <1>1, <1>6 DEF PoolMessagesInv, MessagesInv, ClockInv, RateInv, vars, clock
  <1>7. QED
    BY <1>1, <1>2, <1>3, <1>4, <1>5, <1>6 DEF Next

LEMMA InvHolds == Spec => []PoolMessagesInv
  BY InitHolds, NextHolds, PTL DEF Spec

--------------------------------------------------------------------------------
(* The theorems.                                                           *)

LEMMA InvIsTyped == PoolMessagesInv => TypeOK
  <1>1. SUFFICES ASSUME PoolMessagesInv
                 PROVE  TypeOK
    OBVIOUS
  <1>2. /\ {node, current, timed} \subseteq FirstHeight .. MaxHeight
        /\ told \subseteq FirstHeight .. MaxHeight
        /\ {handled, first} \subseteq {0} \cup FirstHeight .. MaxHeight
        /\ rate \in Nat \ {0} /\ elapsed \in Nat
    <2>1. ClockInv /\ RateInv
      BY <1>1 DEF PoolMessagesInv
    <2>2. node \in FirstHeight .. MaxHeight /\ FirstHeight \in Nat /\ node \in Nat
      BY <2>1, Constants DEF ClockInv
    <2>3. FirstHeight .. node \subseteq FirstHeight .. MaxHeight
      BY <2>2, Constants
    <2>4. {current, timed} \subseteq FirstHeight .. MaxHeight
          /\ told \subseteq FirstHeight .. MaxHeight
      BY <2>1, <2>3 DEF ClockInv
    <2>5. handled \in {0} \cup FirstHeight .. MaxHeight
      BY <2>1, <2>4 DEF ClockInv
    <2>6. first \in {0} \cup FirstHeight .. MaxHeight
      BY <2>1, <2>2, <2>4, Constants DEF RateInv
    <2>7. QED
      BY <2>1, <2>2, <2>4, <2>5, <2>6 DEF RateInv
  <1>3. ASSUME NEW w \in Handlers
        PROVE  /\ work[w].step \in Steps
               /\ work[w].turn \in DOMAIN Hours
               /\ work[w].step \in {"lookback", "volumes", "time", "block", "publish"} =>
                     /\ DOMAIN work[w].statuses = DOMAIN work[w].ids
                     /\ \A i \in DOMAIN work[w].ids : work[w].statuses[i] \in Status
    <2>1. work[w] \in Message /\ MessageOK(work[w])
      BY <1>1, Before1
    <2>2. work[w].step \in Steps /\ work[w].turn \in DOMAIN Hours
      BY <2>1 DEF Message
    <2>3. QED
      BY <2>1, <2>2 DEF MessageOK, Filled, IsStatusOf
  <1>4. QED
    BY <1>2, <1>3 DEF TypeOK

\* What each message that goes out holds.
LEMMA PublishedOK ==
  ASSUME PoolMessagesInv, NEW w \in Handlers, Publishing(w)
  PROVE  /\ \A i \in DOMAIN work[w].ids :
               IsStatusOf(work[w].statuses[i], work[w].ids[i], work[w].height)
         /\ DOMAIN work[w].statuses = DOMAIN work[w].ids
         /\ Shared(work[w].statuses, work[w].height)
  BY Before1 DEF Publishing, MessageOK, Filled

\* For all pools, messages and lookbacks: the variables keep their types, a message has a
\* status for each id asked for, and the blocks per hour that SetLatestBlockHeight
\* measures, by which others divide, are never zero.
THEOREM TypeCorrect == Spec => []TypeOK
  BY InvHolds, InvIsTyped, PTL

\* For all pools and lookbacks, whatever fails in whatever of the calls: a message has a
\* lookback for all its pools or for none, and none at all when a pool is missing in it.
THEOREM LookbacksShared == Spec => []LookbacksForAll
  <1>1. PoolMessagesInv => LookbacksForAll
    <2>1. SUFFICES ASSUME PoolMessagesInv, NEW w \in Handlers, Publishing(w)
                   PROVE  LET m == work[w]
                          IN  /\ IF \E i \in DOMAIN m.ids : m.statuses[i] = Empty
                                 THEN \A i \in DOMAIN m.ids : m.statuses[i].heights \subseteq {m.height}
                                 ELSE \A i, j \in DOMAIN m.ids :
                                         m.statuses[i].heights = m.statuses[j].heights
                              /\ \A i \in DOMAIN m.ids : m.statuses[i].pool \in {NoPool, m.ids[i]}
      BY DEF LookbacksForAll
    <2>2. /\ \A i \in DOMAIN work[w].ids :
                IsStatusOf(work[w].statuses[i], work[w].ids[i], work[w].height)
          /\ DOMAIN work[w].statuses = DOMAIN work[w].ids
          /\ Shared(work[w].statuses, work[w].height)
      BY <2>1, PublishedOK
    <2>3. \A i \in DOMAIN work[w].ids : work[w].statuses[i].pool \in {NoPool, work[w].ids[i]}
      BY <2>2 DEF IsStatusOf, Empty
    <2>4. QED
      BY <2>2, <2>3 DEF Shared
  <1>2. QED
    BY <1>1, InvHolds, PTL

\* For all pools and whatever failures: a status with volumes has the one that its
\* relative volumes are relative to.
THEOREM CurrentVolume == Spec => []CurrentOrNothing
  <1>1. PoolMessagesInv => CurrentOrNothing
    BY PublishedOK DEF CurrentOrNothing, IsStatusOf
  <1>2. QED
    BY <1>1, InvHolds, PTL

\* For all lookbacks and all rates measured: a message on a block states the rate that
\* its lookbacks were counted in.
THEOREM StatedRate == Spec => []LookbacksAtStatedRate
  <1>1. PoolMessagesInv => LookbacksAtStatedRate
    BY DEF PoolMessagesInv, BlockOK, LookbacksAtStatedRate, Publishing, Filled, Lookbacks
  <1>2. QED
    BY <1>1, InvHolds, PTL

\* Whatever blocks come in between: nothing in a message on an event is newer than the
\* block it names (handlePoolSubscriptions).
THEOREM NamesNewest == Spec => []NothingNewer
  <1>1. PoolMessagesInv => NothingNewer
    BY DEF PoolMessagesInv, EventOK, NothingNewer, Publishing
  <1>2. QED
    BY <1>1, InvHolds, PTL

\* However far "pools" is when "blocks" stores a height and later its time: the time that
\* BlockToTimestamp goes by is that of the height it read, of a newer one, or of the one
\* told before it, as is that of a message on a block exactly.
THEOREM ClockIsNear == Spec => []ClockNear
  <1>1. PoolMessagesInv => ClockNear
    <2>1. SUFFICES ASSUME PoolMessagesInv, NEW w \in Handlers, work[w].step = "time"
                   PROVE  /\ {height \in told : timed < height /\ height < work[w].now} = {}
                          /\ w = "blocks" => timed = work[w].now /\ current = work[w].now
      BY DEF ClockNear
    <2>2. work[w].now <= current /\ work[w].now \in Nat
          /\ (w = "blocks" => work[w].now = current)
      <3>1. work[w].now \in Nat /\ current \in Nat
        BY <2>1, Before1 DEF Message
      <3>2. QED
        BY <2>1, <3>1 DEF PoolMessagesInv, BlockOK, EventOK, Handlers
    <2>3. ClockInv /\ timed \in Nat /\ current \in Nat
      BY <2>1, Before1 DEF PoolMessagesInv
    <2>4. told \subseteq Nat
      BY <2>3, Constants DEF ClockInv
    <2>5. w = "blocks" => timed = current
      BY <2>1, <2>3 DEF ClockInv
    <2>6. ASSUME NEW height \in told, timed < height, height < work[w].now
          PROVE  FALSE
      <3>1. height \in Nat /\ (height <= timed \/ height = current)
        BY <2>3, <2>4 DEF ClockInv
      <3>2. QED
        BY <2>2, <2>3, <2>6, <3>1
    <2>7. QED
      BY <2>2, <2>5, <2>6
  <1>2. QED
    BY <1>1, InvHolds, PTL

================================================================================
