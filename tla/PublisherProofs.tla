---------------------------- MODULE PublisherProofs ----------------------------
(***************************************************************************)
(* Proofs about Publisher and the Mempool in it, for any subscriptions,    *)
(* any transactions and any size of an answer: the types with the bound on *)
(* what is remembered of the mempool, that a process which is up serves    *)
(* what it must or stops, and that no transaction is published twice while *)
(* it stays in the mempool.                                                *)
(***************************************************************************)
EXTENDS Publisher, FiniteSetTheorems, SequenceTheorems, TLAPS

\* What this process has published of the mempool is still among what the node returns,
\* for a transaction only moves forward, and is remembered.
AnnouncedKept ==
    \A t \in announced : t \in M!ToSet(mempool) => t \in M!Window /\ t \in mempoolSet

MempoolInv == M!TypeOK /\ AnnouncedKept

--------------------------------------------------------------------------------
(* The mempool                                                             *)

LEMMA LimitType == Limit \in Nat \ {0}
  BY PublisherAssumption

LEMMA Places1 ==
    ASSUME mempool \in Seq(Txs)
    PROVE  /\ Len(mempool) \in Nat /\ DOMAIN mempool = 1 .. Len(mempool)
           /\ \A i \in DOMAIN mempool : mempool[i] \in Txs
           /\ M!ToSet(mempool) = {mempool[i] : i \in DOMAIN mempool}
  BY DEF M!ToSet

\* An answer of the node holds the first transactions of its mempool, at most Limit.
LEMMA WindowIs ==
    ASSUME NEW q \in Seq(Txs), NEW k \in Nat, k <= Len(q)
    PROVE  M!ToSet(SubSeq(q, 1, k)) = {q[i] : i \in 1 .. k}
<1>1. \A i \in 1 .. k : q[i] \in Txs
  <2>1. Len(q) \in Nat
    OBVIOUS
  <2>2. 1 .. k \subseteq 1 .. Len(q)
    BY <2>1
  <2> QED
    BY <2>2, ElementOfSeq
<1>2. /\ SubSeq(q, 1, k) \in Seq(Txs)
      /\ Len(SubSeq(q, 1, k)) = (IF 1 <= k THEN k - 1 + 1 ELSE 0)
      /\ \A i \in 1 .. k - 1 + 1 : SubSeq(q, 1, k)[i] = q[1 + i - 1]
  BY <1>1, SubSeqProperties
<1>3. Len(SubSeq(q, 1, k)) = k
  BY <1>2
<1>4. DOMAIN SubSeq(q, 1, k) = 1 .. k
  BY <1>2, <1>3, LenProperties
<1>5. \A i \in 1 .. k : SubSeq(q, 1, k)[i] = q[i]
  <2>1. k - 1 + 1 = k /\ \A i \in 1 .. k : 1 + i - 1 = i
    OBVIOUS
  <2> QED
    BY <1>2, <2>1
<1> QED
  BY <1>4, <1>5 DEF M!ToSet

LEMMA WindowFacts ==
    ASSUME NEW q \in Seq(Txs)
    PROVE  LET W == M!ToSet(SubSeq(q, 1, IF Len(q) < Limit THEN Len(q) ELSE Limit))
           IN  /\ W = {q[i] : i \in {j \in DOMAIN q : j <= Limit}}
               /\ W \subseteq Txs /\ IsFiniteSet(W) /\ Cardinality(W) <= Limit
<1> DEFINE k == IF Len(q) < Limit THEN Len(q) ELSE Limit
           W == M!ToSet(SubSeq(q, 1, k))
<1>1. Len(q) \in Nat /\ Limit \in Nat /\ DOMAIN q = 1 .. Len(q)
  BY LimitType, LenProperties
<1>2. k \in Nat /\ k <= Len(q) /\ k <= Limit
  BY <1>1
<1>3. W = {q[i] : i \in 1 .. k}
  BY <1>2, WindowIs
<1>4. 1 .. k = {j \in DOMAIN q : j <= Limit}
  BY <1>1
<1> HIDE DEF k, W
<1>5. IsFiniteSet(1 .. k) /\ Cardinality(1 .. k) = k
  <2>1. 1 \in Int /\ k \in Int /\ k >= 0
    BY <1>2
  <2>2. IsFiniteSet(1 .. k) /\ Cardinality(1 .. k) = (IF 1 > k THEN 0 ELSE k - 1 + 1)
    BY <2>1, FS_Interval
  <2> QED
    BY <1>2, <2>2
<1>6. IsFiniteSet(W) /\ Cardinality(W) <= k /\ Cardinality(W) \in Nat
  <2> DEFINE f == [i \in 1 .. k |-> q[i]]
  <2>1. f \in Surjection(1 .. k, W)
    BY <1>3 DEF Surjection
  <2>2. IsFiniteSet(W) /\ Cardinality(W) <= Cardinality(1 .. k)
    BY <1>5, <2>1, FS_Surjection
  <2>3. Cardinality(W) \in Nat
    BY <2>2, FS_CardinalityType
  <2> QED
    BY <1>5, <2>2, <2>3
<1>7. W \subseteq Txs
  <2>1. \A i \in DOMAIN q : q[i] \in Txs
    BY <1>1, ElementOfSeq
  <2> QED
    BY <1>3, <1>4, <2>1
<1>8. Cardinality(W) <= Limit
  BY <1>1, <1>2, <1>6
<1>9. W = {q[i] : i \in {j \in DOMAIN q : j <= Limit}}
  BY <1>3, <1>4
<1> QED
  BY <1>6, <1>7, <1>8, <1>9 DEF k, W

\* What is left when a transaction leaves: those after it move forward.
LEMMA RemoveFacts ==
    ASSUME NEW q \in Seq(Txs), NEW i \in DOMAIN q
    PROVE  LET r == M!RemoveAt(q, i)
           IN  /\ r \in Seq(Txs) /\ Len(r) = Len(q) - 1
               /\ \A j \in 1 .. Len(q) - 1 : r[j] = IF j < i THEN q[j] ELSE q[j + 1]
<1> DEFINE before == SubSeq(q, 1, i - 1)
           after == SubSeq(q, i + 1, Len(q))
           r == before \o after
<1>1. /\ Len(q) \in Nat /\ DOMAIN q = 1 .. Len(q) /\ i \in Nat /\ 1 <= i /\ i <= Len(q)
      /\ \A j \in 1 .. Len(q) : q[j] \in Txs
  BY LenProperties, ElementOfSeq
<1>2. /\ before \in Seq(Txs) /\ Len(before) = i - 1 /\ \A j \in 1 .. i - 1 : before[j] = q[j]
  <2>1. \A j \in 1 .. i - 1 : q[j] \in Txs
    BY <1>1
  <2>2. i - 1 \in Int /\ 1 \in Int
    BY <1>1
  <2>3. /\ before \in Seq(Txs) /\ Len(before) = (IF 1 <= i - 1 THEN (i - 1) - 1 + 1 ELSE 0)
        /\ \A j \in 1 .. (i - 1) - 1 + 1 : before[j] = q[1 + j - 1]
    BY <2>1, <2>2, SubSeqProperties
  <2>4. (i - 1) - 1 + 1 = i - 1 /\ \A j \in 1 .. i - 1 : 1 + j - 1 = j
    BY <1>1
  <2>5. (IF 1 <= i - 1 THEN (i - 1) - 1 + 1 ELSE 0) = i - 1
    BY <1>1
  <2> HIDE DEF before
  <2> QED
    BY <2>3, <2>4, <2>5
<1>3. /\ after \in Seq(Txs) /\ Len(after) = Len(q) - i
      /\ \A j \in 1 .. Len(q) - i : after[j] = q[i + j]
  <2>1. \A j \in i + 1 .. Len(q) : q[j] \in Txs
    BY <1>1
  <2>2. i + 1 \in Int /\ Len(q) \in Int
    BY <1>1
  <2>3. /\ after \in Seq(Txs)
        /\ Len(after) = (IF i + 1 <= Len(q) THEN Len(q) - (i + 1) + 1 ELSE 0)
        /\ \A j \in 1 .. Len(q) - (i + 1) + 1 : after[j] = q[i + 1 + j - 1]
    BY <2>1, <2>2, SubSeqProperties
  <2>4. Len(q) - (i + 1) + 1 = Len(q) - i /\ \A j \in 1 .. Len(q) - i : i + 1 + j - 1 = i + j
    BY <1>1
  <2>5. (IF i + 1 <= Len(q) THEN Len(q) - (i + 1) + 1 ELSE 0) = Len(q) - i
    BY <1>1
  <2> HIDE DEF after
  <2> QED
    BY <2>3, <2>4, <2>5
<1>4. M!RemoveAt(q, i) = r
  BY DEF M!RemoveAt
<1> HIDE DEF before, after
<1>5. /\ r \in Seq(Txs) /\ Len(r) = Len(before) + Len(after)
      /\ \A j \in 1 .. Len(before) + Len(after) :
            r[j] = IF j <= Len(before) THEN before[j] ELSE after[j - Len(before)]
  BY <1>2, <1>3, ConcatProperties
<1> HIDE DEF r
<1>6. Len(before) + Len(after) = Len(q) - 1
  BY <1>1, <1>2, <1>3
<1>7. ASSUME NEW j \in 1 .. Len(q) - 1
      PROVE  r[j] = IF j < i THEN q[j] ELSE q[j + 1]
  <2>1. j \in Nat /\ j >= 1 /\ j <= Len(q) - 1
    BY <1>1
  <2>2. r[j] = IF j <= i - 1 THEN before[j] ELSE after[j - (i - 1)]
    BY <1>2, <1>3, <1>5, <1>6
  <2>3. CASE j < i
    BY <1>1, <1>2, <2>1, <2>2, <2>3
  <2>4. CASE ~(j < i)
    <3>1. j - (i - 1) \in 1 .. Len(q) - i /\ i + (j - (i - 1)) = j + 1 /\ ~(j <= i - 1)
      BY <1>1, <2>1, <2>4
    <3> QED
      BY <1>3, <2>2, <2>4, <3>1
  <2> QED
    BY <2>3, <2>4
<1> QED
  BY <1>4, <1>5, <1>6, <1>7

LEMMA SameCardinality == \A S : M!Cardinality(S) = Cardinality(S)
  BY DEF M!Cardinality, Cardinality

\* The types of the mempool, one by one.
LEMMA MempoolTypes ==
    M!TypeOK <=> /\ mempool \in Seq(Txs)
                 /\ \A i, j \in DOMAIN mempool : mempool[i] = mempool[j] => i = j
                 /\ mempoolSet \subseteq Txs /\ Cardinality(mempoolSet) <= Limit
                 /\ announced \subseteq published /\ published \subseteq Txs
  BY SameCardinality DEF M!TypeOK, M!IsInjective

LEMMA MempoolInit == M!Init => MempoolInv
<1> SUFFICES ASSUME M!Init PROVE MempoolInv
  OBVIOUS
<1>1. mempool = <<>> /\ mempoolSet = {} /\ announced = {} /\ published = {}
  BY DEF M!Init
<1>2. <<>> \in Seq(Txs) /\ DOMAIN <<>> = {}
  OBVIOUS
<1>3. Cardinality({}) <= Limit
  BY FS_EmptySet, LimitType
<1> QED
  BY <1>1, <1>2, <1>3, MempoolTypes DEF MempoolInv, AnnouncedKept

\* A transaction arrives behind the others, and has not been published since.
LEMMA ArriveStep == ASSUME MempoolInv, NEW t \in Txs, M!Arrive(t) PROVE MempoolInv'
<1> DEFINE q == Append(mempool, t)
<1>1. /\ t \notin M!ToSet(mempool) /\ mempool' = q /\ announced' = announced \ {t}
      /\ mempoolSet' = mempoolSet /\ published' = published
  BY DEF M!Arrive
<1>2. /\ mempool \in Seq(Txs) /\ \A i, j \in DOMAIN mempool : mempool[i] = mempool[j] => i = j
      /\ mempoolSet \subseteq Txs /\ Cardinality(mempoolSet) <= Limit
      /\ announced \subseteq published /\ published \subseteq Txs /\ AnnouncedKept
  BY MempoolTypes DEF MempoolInv
<1>3. /\ q \in Seq(Txs) /\ DOMAIN q = DOMAIN mempool \cup {Len(mempool) + 1}
      /\ \A i \in DOMAIN mempool : q[i] = mempool[i] /\ mempool[i] # t
      /\ q[Len(mempool) + 1] = t
  BY <1>1, <1>2, Places1
<1> HIDE DEF q
<1>4. \A i, j \in DOMAIN q : q[i] = q[j] => i = j
  BY <1>2, <1>3
<1>5. M!TypeOK'
  BY <1>1, <1>2, <1>3, <1>4, SameCardinality DEF M!TypeOK, M!IsInjective
<1>6. AnnouncedKept'
  <2> SUFFICES ASSUME NEW u \in announced', u \in M!ToSet(mempool')
               PROVE  u \in M!Window' /\ u \in mempoolSet'
    BY DEF AnnouncedKept
  <2>1. u # t /\ u \in announced
    BY <1>1
  <2>2. u \in M!ToSet(mempool)
    BY <1>1, <1>3, <2>1 DEF M!ToSet
  <2>3. u \in M!Window /\ u \in mempoolSet
    BY <1>2, <2>1, <2>2 DEF AnnouncedKept
  <2>4. u \in M!Window'
    <3>1. PICK i \in DOMAIN mempool : i <= Limit /\ mempool[i] = u
      BY <1>2, <2>3, WindowFacts DEF M!Window
    <3>2. i \in DOMAIN q /\ q[i] = u
      BY <1>3, <3>1
    <3> QED
      BY <1>1, <1>3, <3>1, <3>2, WindowFacts DEF M!Window
  <2> QED
    BY <1>1, <2>3, <2>4
<1> QED
  BY <1>5, <1>6 DEF MempoolInv

\* When a transaction leaves, those behind it move forward: none leaves the answer.
LEMMA LeaveStep ==
    ASSUME MempoolInv, NEW i \in DOMAIN mempool, M!Leave(i) PROVE MempoolInv'
<1> DEFINE r == M!RemoveAt(mempool, i)
<1>1. /\ mempool' = r /\ announced' = announced
      /\ mempoolSet' = mempoolSet /\ published' = published
  BY DEF M!Leave, M!process
<1>2. /\ mempool \in Seq(Txs) /\ \A j, k \in DOMAIN mempool : mempool[j] = mempool[k] => j = k
      /\ mempoolSet \subseteq Txs /\ Cardinality(mempoolSet) <= Limit
      /\ announced \subseteq published /\ published \subseteq Txs /\ AnnouncedKept
  BY MempoolTypes DEF MempoolInv
<1>3. /\ Len(mempool) \in Nat /\ DOMAIN mempool = 1 .. Len(mempool) /\ i \in 1 .. Len(mempool)
      /\ M!ToSet(mempool) = {mempool[j] : j \in DOMAIN mempool}
  BY <1>2, Places1
<1>4. /\ r \in Seq(Txs) /\ Len(r) = Len(mempool) - 1
      /\ \A j \in 1 .. Len(mempool) - 1 : r[j] = IF j < i THEN mempool[j] ELSE mempool[j + 1]
  BY <1>2, RemoveFacts
<1> HIDE DEF r
<1>5. DOMAIN r = 1 .. Len(mempool) - 1
  BY <1>3, <1>4, LenProperties
<1> DEFINE from(j) == IF j < i THEN j ELSE j + 1
<1>6. \A j \in DOMAIN r : from(j) \in DOMAIN mempool /\ r[j] = mempool[from(j)]
  BY <1>3, <1>4, <1>5
<1>7. \A j, k \in DOMAIN r : from(j) = from(k) => j = k
  BY <1>3, <1>5
<1>8. \A j \in DOMAIN r : from(j) <= Limit => j <= Limit
  BY <1>3, <1>5, LimitType
<1> HIDE DEF from
<1>9. \A j, k \in DOMAIN r : r[j] = r[k] => j = k
  BY <1>2, <1>6, <1>7
<1>10. M!TypeOK'
  BY <1>1, <1>2, <1>4, <1>9, SameCardinality DEF M!TypeOK, M!IsInjective
<1>11. AnnouncedKept'
  <2> SUFFICES ASSUME NEW u \in announced', u \in M!ToSet(mempool')
               PROVE  u \in M!Window' /\ u \in mempoolSet'
    BY DEF AnnouncedKept
  <2>1. PICK j \in DOMAIN r : r[j] = u
    BY <1>1 DEF M!ToSet
  <2>2. from(j) \in DOMAIN mempool /\ mempool[from(j)] = u
    BY <1>6, <2>1
  <2>3. u \in M!Window /\ u \in mempoolSet
    BY <1>1, <1>2, <1>3, <2>2 DEF AnnouncedKept
  <2>0. M!Window = {mempool[k] : k \in {l \in DOMAIN mempool : l <= Limit}}
    BY <1>2, WindowFacts DEF M!Window
  <2>4. PICK k \in DOMAIN mempool : k <= Limit /\ mempool[k] = u
    BY <2>0, <2>3
  <2>5. k = from(j)
    BY <1>2, <2>2, <2>4
  <2>6. j <= Limit
    BY <1>8, <2>4, <2>5
  <2>7. u \in M!Window'
    BY <1>1, <1>4, <2>1, <2>6, WindowFacts DEF M!Window
  <2> QED
    BY <1>1, <2>3, <2>7
<1> QED
  BY <1>10, <1>11 DEF MempoolInv

\* A poll remembers the answer, and publishes what is in it.
LEMMA PollStep == ASSUME MempoolInv, M!Poll PROVE MempoolInv'
<1>1. /\ mempool' = mempool /\ mempoolSet' = M!Window
      /\ announced' = announced \cup (M!Window \ mempoolSet)
      /\ published' = published \cup (M!Window \ mempoolSet)
  BY DEF M!Poll, M!Observed, M!Unseen
<1>2. /\ mempool \in Seq(Txs) /\ \A i, j \in DOMAIN mempool : mempool[i] = mempool[j] => i = j
      /\ announced \subseteq published /\ published \subseteq Txs /\ AnnouncedKept
  BY MempoolTypes DEF MempoolInv
<1>3. M!Window \subseteq Txs /\ Cardinality(M!Window) <= Limit
  BY <1>2, WindowFacts DEF M!Window
<1>4. M!TypeOK'
  BY <1>1, <1>2, <1>3, SameCardinality DEF M!TypeOK, M!IsInjective
<1>5. M!Window' = M!Window
  BY <1>1 DEF M!Window
<1>6. AnnouncedKept'
  <2> SUFFICES ASSUME NEW u \in announced', u \in M!ToSet(mempool') PROVE u \in M!Window
    BY <1>1, <1>5 DEF AnnouncedKept
  <2>1. CASE u \in announced
    BY <1>1, <1>2, <2>1 DEF AnnouncedKept
  <2> QED
    BY <1>1, <2>1
<1> QED
  BY <1>4, <1>6 DEF MempoolInv

LEMMA ForgetStep == ASSUME MempoolInv, M!Restart PROVE MempoolInv'
<1>1. mempool' = mempool /\ mempoolSet' = {} /\ announced' = {} /\ published' = {}
  BY DEF M!Restart
<1>2. mempool \in Seq(Txs) /\ \A i, j \in DOMAIN mempool : mempool[i] = mempool[j] => i = j
  BY MempoolTypes DEF MempoolInv
<1>3. Cardinality({}) <= Limit
  BY FS_EmptySet, LimitType
<1> QED
  BY <1>1, <1>2, <1>3, SameCardinality DEF MempoolInv, M!TypeOK, M!IsInjective, AnnouncedKept

LEMMA MempoolRests == ASSUME MempoolInv, UNCHANGED mempoolVars PROVE MempoolInv'
<1>1. /\ mempool' = mempool /\ mempoolSet' = mempoolSet
      /\ announced' = announced /\ published' = published
  BY DEF mempoolVars
<1> QED
  BY <1>1, SameCardinality
  DEF MempoolInv, M!TypeOK, M!IsInjective, AnnouncedKept, M!Window, M!ToSet

--------------------------------------------------------------------------------
(* The process                                                             *)

\* The types of what is not the mempool's.
Types ==
    /\ main \in Places
    /\ turn \in DOMAIN Subscriptions
    /\ interrupted \in BOOLEAN /\ failed \in BOOLEAN /\ captured \in BOOLEAN /\ feed \in BOOLEAN
    /\ workers \subseteq {"syncer", "monitor", "mempool", "metrics"}
    /\ pumps \subseteq Streams /\ handlers \subseteq Streams
    /\ sentinels \subseteq Guarded
    /\ stalled \subseteq handlers \cap ToSocket
    /\ feed => main \in {"subscribe", "serve", "up", "close"}

\* The streams before the one in turn are subscribed to; as long as the context is not
\* done, the guarded ones among them keep their sentinel, for it ends in no other way than
\* by a failure.
Guards ==
    /\ main \in {"connect", "index", "identify", "feed"} => turn = 1
    /\ ~Done /\ main = "subscribe" =>
          \A i \in 1 .. turn - 1 : Subscriptions[i] \in Guarded => Subscriptions[i] \in sentinels
    /\ ~Done /\ main \in {"serve", "up"} => Guarded \subseteq sentinels

\* What was started runs as long as the context is not done.
Runs ==
    ~Done =>
        /\ main \in {"identify", "feed", "subscribe", "serve", "up"} =>
              "syncer" \in workers /\ "monitor" \in workers
        /\ main \in {"subscribe", "serve", "up"} => feed
        /\ main = "up" => "mempool" \in workers

ProcessInv == Types /\ Guards /\ Runs

PublisherInv == ProcessInv /\ MempoolInv

\* The streams are those of a non-empty sequence.
LEMMA Streams1 ==
    /\ Len(Subscriptions) \in Nat /\ DOMAIN Subscriptions = 1 .. Len(Subscriptions)
    /\ Len(Subscriptions) >= 1
    /\ \A i \in DOMAIN Subscriptions : Subscriptions[i] \in Streams
    /\ \A s \in Guarded : \E i \in DOMAIN Subscriptions : Subscriptions[i] = s
<1>1. Subscriptions \in Seq(Streams) /\ Subscriptions # <<>> /\ Guarded \subseteq Streams
  BY PublisherAssumption
<1>2. Len(Subscriptions) \in Nat /\ DOMAIN Subscriptions = 1 .. Len(Subscriptions)
  BY <1>1, LenProperties
<1>3. Len(Subscriptions) # 0
  BY <1>1, EmptySeq
<1> QED
  BY <1>1, <1>2, <1>3 DEF Streams

\* The process ends, whatever it did.
LEMMA EndStep ==
    ASSUME ProcessInv, NEW how \in {"exited", "killed"}, End(how), failed' \in BOOLEAN
    PROVE  ProcessInv'
<1>1. /\ main' = how /\ feed' = FALSE /\ turn' = turn /\ captured' = captured
      /\ interrupted' = interrupted /\ workers' = {} /\ pumps' = {} /\ handlers' = {}
      /\ sentinels' = {} /\ stalled' = {}
  BY DEF End
<1>2. /\ main' \in Places
      /\ main' \notin {"connect", "index", "identify", "feed", "subscribe", "serve", "up"}
  BY <1>1 DEF Places
<1>3. Types'
  BY <1>1, <1>2 DEF ProcessInv, Types
<1>4. Guards' /\ Runs'
  BY <1>2 DEF Guards, Runs
<1> QED
  BY <1>3, <1>4 DEF ProcessInv

\* The main goroutine subscribes to the next stream.
LEMMA SubscribeStep == ASSUME ProcessInv, Subscribe PROVE ProcessInv'
<1> DEFINE s == Subscriptions[turn]
<1>1. Types /\ Guards /\ Runs /\ ~Done
  BY DEF ProcessInv, Subscribe
<1>2. /\ main = "subscribe" /\ handlers' = handlers \cup {s} /\ pumps' = pumps \cup {s}
      /\ sentinels' = sentinels \cup ({s} \cap Guarded)
      /\ feed' = feed /\ interrupted' = interrupted /\ failed' = failed
      /\ captured' = captured /\ workers' = workers /\ stalled' = stalled
  BY DEF Subscribe, SentinelsOf, context
<1>3. \/ turn < Len(Subscriptions) /\ turn' = turn + 1 /\ main' = main
      \/ ~(turn < Len(Subscriptions)) /\ main' = "serve" /\ turn' = turn
  BY DEF Subscribe
<1>4. turn \in 1 .. Len(Subscriptions) /\ s \in Streams
  BY <1>1, Streams1 DEF Types
<1> HIDE DEF s
<1>5. turn' \in DOMAIN Subscriptions
  BY <1>3, <1>4, Streams1
<1>6. main' \in {"subscribe", "serve"}
  BY <1>2, <1>3
<1>7. Types'
  <2>1. feed' => feed
    BY <1>2
  <2>2. main' \in Places
    BY <1>6 DEF Places
  <2> QED
    BY <1>1, <1>2, <1>4, <1>5, <1>6, <2>2 DEF Types
<1>8. \A i \in 1 .. turn : Subscriptions[i] \in Guarded => Subscriptions[i] \in sentinels'
  <2> SUFFICES ASSUME NEW i \in 1 .. turn, Subscriptions[i] \in Guarded
               PROVE  Subscriptions[i] \in sentinels'
    OBVIOUS
  <2>1. CASE i = turn
    BY <1>2, <2>1 DEF s
  <2>2. CASE i # turn
    <3>1. i \in 1 .. turn - 1
      BY <1>4, <2>2
    <3> QED
      BY <1>1, <1>2, <3>1 DEF Guards
  <2> QED
    BY <2>1, <2>2
<1>9. Guards'
  <2>1. main' = "subscribe" => turn' - 1 = turn
    BY <1>2, <1>3, <1>4
  <2>2. main' = "serve" => Guarded \subseteq sentinels'
    <3> SUFFICES ASSUME main' = "serve", NEW g \in Guarded PROVE g \in sentinels'
      OBVIOUS
    <3>1. turn = Len(Subscriptions)
      BY <1>2, <1>3, <1>4
    <3>2. PICK i \in DOMAIN Subscriptions : Subscriptions[i] = g
      BY Streams1
    <3>3. i \in 1 .. turn
      BY <3>1, Streams1
    <3> QED
      BY <1>8, <3>2, <3>3
  <2> QED
    BY <1>6, <1>8, <2>1, <2>2 DEF Guards
<1>10. Runs'
  BY <1>1, <1>2, <1>6 DEF Runs, Done
<1> QED
  BY <1>7, <1>9, <1>10 DEF ProcessInv

\* The other steps of the main goroutine.
LEMMA MainKeeps == ASSUME ProcessInv, MainStep PROVE ProcessInv'
<1>0. /\ Types /\ Guards /\ Runs
      /\ 1 \in DOMAIN Subscriptions
  BY Streams1 DEF ProcessInv
<1>1. CASE Connect
  BY <1>0, <1>1 DEF Connect, Goto, context, goroutines, ProcessInv, Types, Guards, Runs, Places, Done
<1>2. CASE NewIndexer
  BY <1>0, <1>2 DEF NewIndexer, Goto, context, ProcessInv, Types, Guards, Runs, Places, Done
<1>3. CASE ChainID
  BY <1>0, <1>3 DEF ChainID, Goto, context, goroutines, ProcessInv, Types, Guards, Runs, Places, Done
<1>4. CASE NewFails
  <2>1. End("exited") /\ failed' \in BOOLEAN
    BY <1>4 DEF NewFails
  <2> QED
    BY <2>1, EndStep
<1>5. CASE SubscribePriceFeed
  <2>1. turn = 1 /\ 1 .. turn - 1 = {}
    BY <1>0, <1>5 DEF SubscribePriceFeed, Goto, Guards
  <2>2. /\ main = "feed" /\ main' = "subscribe" /\ feed' = TRUE /\ turn' = turn
        /\ interrupted' = interrupted /\ failed' = failed /\ captured' = captured
        /\ workers' = workers /\ pumps' = pumps /\ handlers' = handlers
        /\ sentinels' = sentinels /\ stalled' = stalled
    BY <1>5 DEF SubscribePriceFeed, Goto, context, goroutines
  <2>3. Types'
    BY <1>0, <2>2 DEF Types, Places
  <2>4. Guards'
    BY <1>0, <2>1, <2>2 DEF Guards
  <2>5. Runs'
    BY <1>0, <2>2 DEF Runs, Done
  <2> QED
    BY <2>3, <2>4, <2>5 DEF ProcessInv
<1>6. CASE Subscribe
  BY <1>6, SubscribeStep
<1>7. CASE SubscribeFails
  BY <1>0, <1>7
  DEF SubscribeFails, goroutines, ProcessInv, Types, Guards, Runs, Places, Done
<1>8. CASE \E metricsUrl \in BOOLEAN : Start(metricsUrl)
  BY <1>0, <1>8 DEF Start, Goto, context, ProcessInv, Types, Guards, Runs, Places, Done
<1>9. CASE Shutdown
  BY <1>0, <1>9 DEF Shutdown, Goto, context, goroutines, ProcessInv, Types, Guards, Runs, Places, Done
<1>10. CASE Stopped
  BY <1>0, <1>10 DEF Stopped, Goto, goroutines, ProcessInv, Types, Guards, Runs, Places, Done
<1>11. CASE Close
  BY <1>0, <1>11 DEF Close, Goto, context, goroutines, ProcessInv, Types, Guards, Runs, Places, Done
<1>12. CASE Wait
  <2>1. End("exited") /\ failed' \in BOOLEAN
    BY <1>0, <1>12 DEF Wait, Types
  <2> QED
    BY <2>1, EndStep
<1> QED
  BY <1>1, <1>2, <1>3, <1>4, <1>5, <1>6, <1>7, <1>8, <1>9, <1>10, <1>11, <1>12 DEF MainStep

\* A goroutine of a stream ends or fails, or its handler waits for the reader.
LEMMA StreamKeeps ==
    ASSUME ProcessInv, NEW s \in Streams, StreamStep(s) PROVE ProcessInv'
<1>0. Types /\ Guards /\ Runs
  BY DEF ProcessInv
<1>1. CASE PumpEnds(s)
  BY <1>0, <1>1 DEF PumpEnds, Rest, context, ProcessInv, Types, Guards, Runs, Done
<1>2. CASE HandlerEnds(s)
  BY <1>0, <1>2 DEF HandlerEnds, Rest, context, ProcessInv, Types, Guards, Runs, Done
<1>3. CASE HandlerFails(s)
  BY <1>0, <1>3 DEF HandlerFails, Failure, Rest, ProcessInv, Types, Guards, Runs, Done
<1>4. CASE Stall(s)
  BY <1>0, <1>4 DEF Stall, Rest, context, ProcessInv, Types, Guards, Runs, Done
<1>5. CASE SentinelEnds(s)
  BY <1>0, <1>5 DEF SentinelEnds, Rest, context, ProcessInv, Types, Guards, Runs, Done
<1>6. CASE SentinelFires(s)
  BY <1>0, <1>6 DEF SentinelFires, Failure, Rest, ProcessInv, Types, Guards, Runs, Done
<1> QED
  BY <1>1, <1>2, <1>3, <1>4, <1>5, <1>6 DEF StreamStep

\* The goroutines that are no stream's.
LEMMA WorkerKeeps ==
    ASSUME ProcessInv, (\E g \in workers : WorkerEnds(g)) \/ MetricsEnds PROVE ProcessInv'
<1>0. Types /\ Guards /\ Runs
  BY DEF ProcessInv
<1>1. CASE \E g \in workers : WorkerEnds(g)
  <2>1. PICK g \in workers : WorkerEnds(g)
    BY <1>1
  <2> QED
    BY <1>0, <2>1 DEF WorkerEnds, Rest, context, ProcessInv, Types, Guards, Runs, Done
<1>2. CASE MetricsEnds
  <2>1. /\ workers' = workers \ {"metrics"}
        /\ \A g \in {"syncer", "monitor", "mempool"} : g \in workers => g \in workers'
    BY <1>2 DEF MetricsEnds
  <2> QED
    BY <1>0, <1>2, <2>1 DEF MetricsEnds, Rest, context, ProcessInv, Types, Guards, Runs, Done
<1> QED
  BY <1>1, <1>2

LEMMA ProcessRests ==
    ASSUME ProcessInv, UNCHANGED <<main, turn, feed, context, goroutines>> PROVE ProcessInv'
  BY DEF context, goroutines, ProcessInv, Types, Guards, Runs, Done

LEMMA InterruptKeeps == ASSUME ProcessInv, Interrupt PROVE ProcessInv'
<1>0. Types /\ Guards /\ Runs
  BY DEF ProcessInv
<1>1. CASE captured
  BY <1>0, <1>1 DEF Interrupt, goroutines, Rest, ProcessInv, Types, Guards, Runs, Done
<1>2. CASE ~captured
  <2>1. End("killed") /\ failed' \in BOOLEAN
    BY <1>0, <1>2 DEF Interrupt, Types
  <2> QED
    BY <2>1, EndStep
<1> QED
  BY <1>1, <1>2

LEMMA RestartKeeps == ASSUME ProcessInv, Restart PROVE ProcessInv'
<1>0. Types /\ 1 \in DOMAIN Subscriptions
  BY Streams1 DEF ProcessInv
<1>1. /\ main \in {"exited", "killed"} /\ main' = "connect" /\ turn' = 1
      /\ interrupted' = FALSE /\ failed' = FALSE /\ captured' = TRUE
      /\ feed' = feed /\ workers' = workers /\ pumps' = pumps /\ handlers' = handlers
      /\ sentinels' = sentinels /\ stalled' = stalled
  BY DEF Restart, goroutines
<1> QED
  BY <1>0, <1>1 DEF ProcessInv, Types, Guards, Runs, Places

\* The steps that leave the mempool and what is remembered of it alone.
LEMMA MempoolAlone ==
    ASSUME \/ MainStep
           \/ \E g \in workers : WorkerEnds(g)
           \/ MetricsEnds
           \/ \E s \in Streams : StreamStep(s)
           \/ Interrupt
    PROVE  UNCHANGED mempoolVars
<1>1. CASE MainStep
  BY <1>1 DEF MainStep, Connect, NewIndexer, ChainID, NewFails, SubscribePriceFeed, Subscribe,
    SubscribeFails, Start, Shutdown, Stopped, Close, Wait, End
<1>2. CASE \E g \in workers : WorkerEnds(g)
  BY <1>2 DEF WorkerEnds, Rest
<1>3. CASE MetricsEnds
  BY <1>3 DEF MetricsEnds, Rest
<1>4. CASE \E s \in Streams : StreamStep(s)
  BY <1>4 DEF StreamStep, PumpEnds, HandlerEnds, HandlerFails, Stall, SentinelEnds,
    SentinelFires, Rest
<1>5. CASE Interrupt
  BY <1>5 DEF Interrupt, End, Rest
<1> QED
  BY <1>1, <1>2, <1>3, <1>4, <1>5

\* The mempool changes, or the ticker polls it.
LEMMA MempoolKeeps ==
    ASSUME MempoolInv, Polls(Answered) \/ Polls(M!PollFails) \/ Node PROVE MempoolInv'
<1>1. CASE Polls(Answered)
  <2>1. M!PollEmpty \/ M!Poll
    BY <1>1 DEF Polls, Answered
  <2>2. CASE M!PollEmpty
    BY <2>2, MempoolRests DEF M!PollEmpty, M!vars, M!process, mempoolVars
  <2> QED
    BY <2>1, <2>2, PollStep
<1>2. CASE Polls(M!PollFails)
  BY <1>2, MempoolRests DEF Polls, M!PollFails, M!vars, M!process, mempoolVars
<1>3. CASE Node
  BY <1>3, ArriveStep, LeaveStep DEF Node, M!NodeStep
<1> QED
  BY <1>1, <1>2, <1>3

LEMMA PublisherInvInit == Init => PublisherInv
<1> SUFFICES ASSUME Init PROVE PublisherInv
  OBVIOUS
<1>1. MempoolInv
  BY MempoolInit DEF Init
<1>2. 1 \in DOMAIN Subscriptions
  BY Streams1
<1>3. ProcessInv
  BY <1>2 DEF Init, Fresh, NoGoroutine, ProcessInv, Types, Guards, Runs, Places
<1> QED
  BY <1>1, <1>3 DEF PublisherInv

LEMMA PublisherInvNext == PublisherInv /\ [Next]_vars => PublisherInv'
<1> SUFFICES ASSUME PublisherInv, [Next]_vars PROVE PublisherInv'
  OBVIOUS
<1>0. ProcessInv /\ MempoolInv
  BY DEF PublisherInv
<1>1. CASE MainStep
  BY <1>0, <1>1, MainKeeps, MempoolAlone, MempoolRests DEF PublisherInv
<1>2. CASE (\E g \in workers : WorkerEnds(g)) \/ MetricsEnds
  BY <1>0, <1>2, WorkerKeeps, MempoolAlone, MempoolRests DEF PublisherInv
<1>3. CASE \E s \in Streams : StreamStep(s)
  BY <1>0, <1>3, StreamKeeps, MempoolAlone, MempoolRests DEF PublisherInv
<1>4. CASE Polls(Answered) \/ Polls(M!PollFails) \/ Node
  <2>1. UNCHANGED <<main, turn, feed, context, goroutines>>
    BY <1>4 DEF Polls, Node
  <2> QED
    BY <1>0, <1>4, <2>1, ProcessRests, MempoolKeeps DEF PublisherInv
<1>5. CASE Interrupt
  BY <1>0, <1>5, InterruptKeeps, MempoolAlone, MempoolRests DEF PublisherInv
<1>6. CASE Restart
  <2>1. M!Restart
    BY <1>6 DEF Restart
  <2> QED
    BY <1>0, <1>6, <2>1, RestartKeeps, ForgetStep DEF PublisherInv
<1>7. CASE UNCHANGED vars
  <2>1. UNCHANGED <<main, turn, feed, context, goroutines>> /\ UNCHANGED mempoolVars
    BY <1>7 DEF vars
  <2> QED
    BY <1>0, <2>1, ProcessRests, MempoolRests DEF PublisherInv
<1> QED
  BY <1>1, <1>2, <1>3, <1>4, <1>5, <1>6, <1>7 DEF Next

LEMMA PublisherInvariant == Spec => []PublisherInv
  BY PublisherInvInit, PublisherInvNext, PTL DEF Spec

\* The variables keep their types whatever starts, ends, fails or waits, a stalled handler
\* runs, prices come only to a process that has an indexer, and what is remembered of the
\* mempool never grows beyond an answer of the node (Publisher.New, Start, rpc.Mempool).
THEOREM TypeCorrect == Spec => []TypeOK
<1>1. PublisherInv => TypeOK
  BY DEF PublisherInv, ProcessInv, Types, TypeOK, MempoolInv
<1> QED
  BY <1>1, PublisherInvariant, PTL

\* A process that is up with its context alive has all it must: a goroutine that could be
\* missing would have ended the context (Publisher.Start, SubscribeAll).
THEOREM AlwaysServesOrStops == Spec => []ServesOrStops
<1>1. PublisherInv => ServesOrStops
  BY DEF PublisherInv, ProcessInv, Guards, Runs, ServesOrStops
<1> QED
  BY <1>1, PublisherInvariant, PTL

\* What the next poll would publish, this process has not published since it entered the
\* mempool, whatever left, failed or was empty in between (rpc.Mempool).
THEOREM PublishesOnce == Spec => []PublishedOnce
<1>1. PublisherInv => PublishedOnce
  <2> SUFFICES ASSUME PublisherInv, NEW t \in M!Window, t \notin mempoolSet, t \in announced
               PROVE  FALSE
    BY DEF PublishedOnce, M!PublishedOnce, M!Unseen
  <2>1. mempool \in Seq(Txs) /\ AnnouncedKept
    BY MempoolTypes DEF PublisherInv, MempoolInv
  <2>2. t \in M!ToSet(mempool)
    <3>1. M!Window = {mempool[i] : i \in {j \in DOMAIN mempool : j <= Limit}}
      BY <2>1, WindowFacts DEF M!Window
    <3> QED
      BY <3>1 DEF M!ToSet
  <2> QED
    BY <2>1, <2>2 DEF AnnouncedKept
<1> QED
  BY <1>1, PublisherInvariant, PTL

\* The main goroutine has nothing left to start, and the context is done.
Stopping == Done /\ main \in {"up", "close", "wait"}

Fewer ==
    /\ workers' \subseteq workers /\ pumps' \subseteq pumps
    /\ handlers' \subseteq handlers /\ sentinels' \subseteq sentinels

\* Nothing takes back the end of a process: once its context is done and Start has returned,
\* it stops until it has ended, and no goroutine joins those that Group.Wait waits for.  That
\* is what StopsInTheEnd needs besides fairness (startCmd.Run, Publisher.Close).
THEOREM EndIsFinal ==
    Spec => [][Stopping => Fewer /\ (Stopping' \/ main' \in {"exited", "killed"})]_vars
<1> DEFINE Final == Fewer /\ (Stopping' \/ main' \in {"exited", "killed"})
<1>1. ASSUME Stopping, UNCHANGED <<main, context, goroutines>> PROVE Final
  BY <1>1 DEF Stopping, Fewer, Done, context, goroutines
<1>2. ASSUME NEW how \in {"exited", "killed"}, End(how) PROVE Final
  BY <1>2 DEF End, Fewer
<1>3. ASSUME Stopping, MainStep PROVE Final
  <2>1. main \in {"up", "close", "wait"} /\ Done
    BY <1>3 DEF Stopping
  <2>2. ~(Connect \/ NewIndexer \/ ChainID \/ NewFails \/ SubscribePriceFeed
            \/ Subscribe \/ SubscribeFails \/ \E metricsUrl \in BOOLEAN : Start(metricsUrl))
    BY <2>1 DEF Connect, NewIndexer, ChainID, NewFails, SubscribePriceFeed, Subscribe,
      SubscribeFails, Start, Goto
  <2>3. CASE Shutdown \/ Stopped \/ Close
    BY <2>1, <2>3 DEF Shutdown, Stopped, Close, Goto, Fewer, Stopping, Done, context, goroutines
  <2>4. CASE Wait
    BY <1>2, <2>4 DEF Wait
  <2> QED
    BY <1>3, <2>2, <2>3, <2>4 DEF MainStep
<1>4. ASSUME Stopping, NEW g \in workers, WorkerEnds(g) PROVE Final
  BY <1>4 DEF WorkerEnds, Rest, context, Fewer, Stopping, Done
<1>5. ASSUME Stopping, MetricsEnds PROVE Final
  BY <1>5 DEF MetricsEnds, Rest, context, Fewer, Stopping, Done
<1>6. ASSUME Stopping, NEW s \in Streams, StreamStep(s) PROVE Final
  <2>1. CASE PumpEnds(s) \/ HandlerEnds(s) \/ Stall(s) \/ SentinelEnds(s)
    BY <1>6, <2>1 DEF PumpEnds, HandlerEnds, Stall, SentinelEnds, Rest, context, Fewer, Stopping, Done
  <2>2. CASE HandlerFails(s) \/ SentinelFires(s)
    BY <1>6, <2>2 DEF HandlerFails, SentinelFires, Failure, Rest, Fewer, Stopping, Done
  <2> QED
    BY <1>6, <2>1, <2>2 DEF StreamStep
<1>7. ASSUME Stopping, Polls(Answered) \/ Polls(M!PollFails) \/ Node PROVE Final
  BY <1>1, <1>7 DEF Polls, Node
<1>8. ASSUME Stopping, Interrupt PROVE Final
  <2>1. CASE captured
    BY <1>8, <2>1 DEF Interrupt, goroutines, Rest, Fewer, Stopping, Done
  <2>2. CASE ~captured
    BY <1>2, <1>8, <2>2 DEF Interrupt
  <2> QED
    BY <2>1, <2>2
<1>9. ~(Stopping /\ Restart)
  BY DEF Stopping, Restart
<1> HIDE DEF Final
<1>10. Next => (Stopping => Final)
  BY <1>3, <1>4, <1>5, <1>6, <1>7, <1>8, <1>9 DEF Next
<1>11. [Next]_vars => [Stopping => Final]_vars
  BY <1>10
<1> QED
  BY <1>11, PTL DEF Spec, Final

================================================================================
