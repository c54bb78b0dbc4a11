--------------------------- MODULE DenomTracesProofs ---------------------------
(***************************************************************************)
(* Proofs about DenomTraces, for any number of goroutines, denoms, pages,  *)
(* failures and stops: the types with the filling of the cache, that what  *)
(* is saved is cached, and that no goroutine asks twice or for what the    *)
(* cache was filled with, both as long as no two accesses to the map       *)
(* overlapped.                                                             *)
(***************************************************************************)
EXTENDS DenomTraces, TLAPS

CallerType == [step : Steps, todo : SUBSET Denoms, denom : SUBSET Denoms]

\* A goroutine that has the answer of the node has asked for it, and for something.
AnswersAsked ==
    \A c \in Callers : caller[c].step \in {"write", "writing", "save"} =>
        caller[c].denom # {} /\ {c} \X caller[c].denom \subseteq asked

\* A goroutine that accesses the map or asks the node does it for some denom.
DenomInHand ==
    \A c \in Callers : caller[c].step # "idle" => caller[c].denom # {}

\* Before the cache is filled nothing is cached and nothing was asked.
BeforeUp == process # "up" => cache = {} /\ asked = {} /\ filled = {} /\ ~raced

\* Nothing is fetched from the node, unless the database is empty or cannot be read.
FetchedIfEmpty == process = "fetch" /\ ~unread => db = {}

\* Two accesses that overlap are known.
OverlapsRaced ==
    ~raced => \A c \in Callers : caller[c].step = "writing" =>
        \A d \in Callers \ {c} : caller[d].step \notin {"reading", "writing"}

\* What a goroutine is about to save is cached.
SavesCached ==
    ~raced => \A c \in Callers : caller[c].step = "save" => caller[c].denom \subseteq cache

\* What was asked is cached, or about to be by the goroutine that asked; it asks for
\* nothing it has asked for.
AskedCached ==
    ~raced => \A c \in Callers, d \in Denoms :
        <<c, d>> \in asked =>
            /\ d \in cache \/ (caller[c].step \in {"write", "writing"} /\ d \in caller[c].denom)
            /\ caller[c].step = "query" => d \notin caller[c].denom

\* What the cache was filled with is in it, and is not asked for.
FilledCached ==
    /\ filled \subseteq cache
    /\ ~raced => \A c \in Callers : caller[c].step = "query" => caller[c].denom \cap filled = {}

DenomInv ==
    /\ TypeOK
    /\ AnswersAsked /\ DenomInHand /\ BeforeUp /\ FetchedIfEmpty
    /\ OverlapsRaced /\ SavesCached /\ AskedCached /\ SavedIsCached /\ FilledCached

--------------------------------------------------------------------------------
(* The parts of the state                                                  *)

\* The pages hold denoms, and the last of them completes the list.
LEMMA PageFacts ==
    /\ Len(Pages) \in Nat \ {0} /\ DOMAIN Pages = 1 .. Len(Pages)
    /\ Listed \subseteq Denoms \/ page \notin DOMAIN Pages
    /\ page = Len(Pages) => Listed = AllTraces
    /\ AllTraces \subseteq Denoms
<1>1. Pages \in Seq(SUBSET Denoms) /\ Pages # <<>>
  BY DenomTracesAssumption
<1>2. Len(Pages) \in Nat \ {0} /\ DOMAIN Pages = 1 .. Len(Pages)
  BY <1>1
<1>3. \A i \in DOMAIN Pages : Pages[i] \subseteq Denoms
  BY <1>1
<1>4. page \in DOMAIN Pages => 1 .. page \subseteq DOMAIN Pages
  BY <1>2
<1> QED
  BY <1>2, <1>3, <1>4 DEF Listed, AllTraces

\* A goroutine that goes to another step, or is done with its denom.
LEMMA CallerTypes ==
    ASSUME TypeOK, NEW c \in Callers, NEW step \in Steps
    PROVE  /\ caller \in [Callers -> CallerType] /\ caller[c] \in CallerType
           /\ [caller EXCEPT ![c].step = step] \in [Callers -> CallerType]
           /\ [caller EXCEPT ![c].step = step][c].step = step
           /\ [caller EXCEPT ![c].step = step][c].denom = caller[c].denom
           /\ [caller EXCEPT ![c].step = "idle", ![c].denom = {}] \in [Callers -> CallerType]
           /\ [caller EXCEPT ![c].step = "idle", ![c].denom = {}][c].step = "idle"
           /\ [caller EXCEPT ![c].step = "idle", ![c].denom = {}][c].denom = {}
<1>1. caller \in [Callers -> CallerType] /\ caller[c] \in CallerType
  BY DEF TypeOK, CallerType
<1>2. [caller[c] EXCEPT !.step = step] \in CallerType
  BY <1>1 DEF CallerType
<1>3. [caller[c] EXCEPT !.step = "idle", !.denom = {}] \in CallerType
  BY <1>1 DEF CallerType, Steps
<1>4. /\ [caller[c] EXCEPT !.step = step].step = step
      /\ [caller[c] EXCEPT !.step = step].denom = caller[c].denom
      /\ [caller[c] EXCEPT !.step = "idle", !.denom = {}].step = "idle"
      /\ [caller[c] EXCEPT !.step = "idle", !.denom = {}].denom = {}
  BY <1>1 DEF CallerType
<1>5. [caller EXCEPT ![c].step = "idle", ![c].denom = {}]
        = [caller EXCEPT ![c] = [@ EXCEPT !.step = "idle", !.denom = {}]]
  BY <1>1
<1> QED
  BY <1>1, <1>2, <1>3, <1>4, <1>5

LEMMA DenomInit == Init => DenomInv
<1> SUFFICES ASSUME Init PROVE DenomInv
  OBVIOUS
<1>1. Idle \in CallerType
  BY DEF Idle, CallerType, Steps
<1>2. caller \in [Callers -> CallerType] /\ \A c \in Callers : caller[c].step = "idle"
  BY <1>1 DEF Init, Idle
<1>3. page \in DOMAIN Pages /\ 0 \in 0 .. MaxFailures /\ 0 \in 0 .. MaxStops
  BY PageFacts, DenomTracesAssumption DEF Init
<1>4. TypeOK
  BY <1>2, <1>3 DEF Init, TypeOK, CallerType, FilledWhole
<1> QED
  BY <1>2, <1>4 DEF Init, DenomInv, Idle, AnswersAsked, DenomInHand, BeforeUp, FetchedIfEmpty,
              OverlapsRaced, SavesCached, AskedCached, SavedIsCached, FilledCached

\* The cache is filled, or what precedes it is repeated.
LEMMA PreheatStep ==
    ASSUME DenomInv, Load \/ LoadFails \/ FetchPage \/ FetchPageFails \/ Start
    PROVE  DenomInv'
<1> USE DEF DenomInv
<1>1. /\ process # "up" /\ cache = {} /\ asked = {} /\ caller = [c \in Callers |-> Idle]
      /\ UNCHANGED <<db, caller, asked, raced, aborted>>
      /\ \A c \in Callers : caller[c].step = "idle"
  BY DEF Load, LoadFails, FetchPage, FetchPageFails, Start, TypeOK, BeforeUp, Idle, history, bounds
<1>2. TypeOK'
  <2>0. page \in DOMAIN Pages /\ db \subseteq Denoms /\ AllTraces \subseteq Denoms
    BY PageFacts DEF TypeOK
  <2>1. process' \in {"off", "load", "fetch", "up"} /\ page' \in DOMAIN Pages
    BY <2>0, PageFacts DEF Load, LoadFails, FetchPage, FetchPageFails, Start
  <2>7. filled' \subseteq Denoms
    BY <1>1, <2>0 DEF Load, LoadFails, FetchPage, FetchPageFails, Start, TypeOK, history
  <2>3. cache' \in {{}, db, AllTraces}
    BY <1>1, PageFacts DEF Load, LoadFails, FetchPage, FetchPageFails, Start, Loaded
  <2>2. /\ failures' = failures \/ (failures < MaxFailures /\ failures' = failures + 1)
        /\ stops' = stops /\ (unread' = unread \/ unread' = TRUE)
    <3>1. CASE Load
      BY <3>1 DEF Load, history, bounds
    <3>2. CASE LoadFails
      BY <3>2 DEF LoadFails, MayFail
    <3>3. CASE FetchPage
      BY <3>3 DEF FetchPage, history, bounds
    <3>4. CASE FetchPageFails
      BY <3>4 DEF FetchPageFails, MayFail, history
    <3>5. CASE Start
      BY <3>5 DEF Start, history, bounds
    <3> QED
      BY <3>1, <3>2, <3>3, <3>4, <3>5
  <2>5. /\ failures \in 0 .. MaxFailures /\ stops \in 0 .. MaxStops /\ unread \in BOOLEAN
        /\ MaxFailures \in Nat
    BY DenomTracesAssumption DEF TypeOK
  <2>6. unread' \in BOOLEAN
    BY <2>2, <2>5
  <2>4. failures' \in 0 .. MaxFailures /\ stops' \in 0 .. MaxStops
    BY <2>2, <2>5
  <2> QED
    BY <1>1, <2>0, <2>1, <2>3, <2>4, <2>6, <2>7 DEF TypeOK, FilledWhole
<1>3. BeforeUp' /\ FetchedIfEmpty'
  BY <1>1 DEF BeforeUp, FetchedIfEmpty, Load, LoadFails, FetchPage, FetchPageFails, Start,
              history, bounds
<1>4. SavedIsCached'
  BY <1>1 DEF BeforeUp, FetchedIfEmpty, SavedIsCached, Load, LoadFails, FetchPage,
              FetchPageFails, Start, Loaded, history, bounds
<1>5. FilledCached'
  BY <1>1, PageFacts DEF BeforeUp, FilledCached, Load, LoadFails, FetchPage, FetchPageFails,
                         Start, Loaded, history
<1> QED
  BY <1>1, <1>2, <1>3, <1>4, <1>5
  DEF AnswersAsked, DenomInHand, OverlapsRaced, SavesCached, AskedCached

\* The process ends.
LEMMA EndStep == ASSUME DenomInv, Abort \/ Stop PROVE DenomInv'
<1> USE DEF DenomInv
<1>0. stops \in 0 .. MaxStops /\ aborted \in BOOLEAN /\ MaxStops \in Nat
  BY DenomTracesAssumption DEF TypeOK
<1>1. /\ process' = "off" /\ cache' = {} /\ asked' = {} /\ filled' = {} /\ raced' = FALSE
      /\ caller' = [c \in Callers |-> Idle] /\ page' = 1 /\ unread' = FALSE
      /\ UNCHANGED <<db, failures>> /\ stops' = stops + 1 /\ stops < MaxStops
      /\ (aborted' = aborted \/ aborted' = TRUE)
  BY DEF Abort, Stop, Off
<1>2. Idle \in CallerType /\ Idle.step = "idle"
  BY DEF Idle, CallerType, Steps
<1>3. /\ caller' \in [Callers -> CallerType] /\ 1 \in DOMAIN Pages
      /\ \A c \in Callers : caller'[c].step = "idle"
  BY <1>1, <1>2, PageFacts
<1>5. stops' \in 0 .. MaxStops
  BY <1>0, <1>1
<1>6. aborted' \in BOOLEAN
  BY <1>0, <1>1
<1>4. TypeOK'
  BY <1>1, <1>3, <1>5, <1>6 DEF TypeOK, CallerType, FilledWhole
<1> QED
  BY <1>1, <1>3, <1>4
  DEF AnswersAsked, DenomInHand, BeforeUp, FetchedIfEmpty, OverlapsRaced, SavesCached,
      AskedCached, SavedIsCached, FilledCached

\* A goroutine takes a step in a process that is up.
LEMMA LookupTypes ==
    ASSUME DenomInv, NEW c \in Callers, process = "up", UNCHANGED <<process, page>>,
           caller' \in [Callers -> CallerType], cache' \subseteq Denoms, db' \subseteq Denoms,
           asked' \subseteq Callers \X Denoms, raced' \in BOOLEAN,
           failures' \in 0 .. MaxFailures, UNCHANGED <<filled, unread, aborted, stops>>,
           asked' = {} => asked = {} /\ UNCHANGED <<cache, db>>
    PROVE  TypeOK'
  BY DEF DenomInv, TypeOK, CallerType, FilledWhole

LEMMA AskStep == ASSUME DenomInv, NEW c \in Callers, NEW S \in Messages, Ask(c, S) PROVE DenomInv'
<1>1. /\ process = "up" /\ caller[c].step = "idle" /\ caller' = [caller EXCEPT ![c].todo = S]
      /\ UNCHANGED <<process, page, cache, db, history, bounds>>
      /\ caller \in [Callers -> CallerType] /\ caller[c] \in CallerType
  BY DEF Ask, At, DenomInv, TypeOK, CallerType
<1>2. [caller[c] EXCEPT !.todo = S] \in CallerType
  BY <1>1, DenomTracesAssumption DEF CallerType
<1>3. /\ caller' \in [Callers -> CallerType]
      /\ \A d \in Callers : caller'[d].step = caller[d].step /\ caller'[d].denom = caller[d].denom
  BY <1>1, <1>2 DEF CallerType
<1>4. TypeOK'
  BY <1>1, <1>3, LookupTypes DEF DenomInv, TypeOK, history, bounds
<1> QED
  BY <1>1, <1>3, <1>4
  DEF DenomInv, AnswersAsked, DenomInHand, BeforeUp, FetchedIfEmpty, OverlapsRaced, SavesCached,
      AskedCached, SavedIsCached, FilledCached, history

LEMMA BeginReadStep ==
    ASSUME DenomInv, NEW c \in Callers, NEW d \in Denoms, BeginRead(c, d) PROVE DenomInv'
<1> DEFINE new == [step |-> "reading", todo |-> caller[c].todo \ {d}, denom |-> {d}]
<1>1. /\ process = "up" /\ caller[c].step = "idle"
      /\ caller' = [caller EXCEPT ![c] = new]
      /\ raced' = (raced \/ Overlaps(c, "reading") # {})
      /\ UNCHANGED <<process, page, cache, db, asked, filled, unread, aborted, failures, stops>>
  BY DEF BeginRead, At, bounds
<1>2. caller \in [Callers -> CallerType] /\ caller[c] \in CallerType
  BY DEF DenomInv, TypeOK, CallerType
<1>3. new \in CallerType
  BY <1>2 DEF CallerType, Steps
<1> HIDE DEF new
<1>4. /\ caller' \in [Callers -> CallerType] /\ caller'[c] = new
      /\ \A e \in Callers \ {c} : caller'[e] = caller[e]
  BY <1>1, <1>2, <1>3
<1>5. caller'[c].step = "reading" /\ caller'[c].denom = {d}
  BY <1>4 DEF new
<1>6. TypeOK'
  <2>1. /\ cache \subseteq Denoms /\ db \subseteq Denoms /\ asked \subseteq Callers \X Denoms
        /\ failures \in 0 .. MaxFailures /\ raced \in BOOLEAN
    BY DEF DenomInv, TypeOK
  <2>2. raced' \in BOOLEAN
    BY <1>1
  <2> QED
    BY <1>1, <1>4, <2>1, <2>2, LookupTypes
<1>7. OverlapsRaced'
  BY <1>1, <1>4, <1>5 DEF DenomInv, OverlapsRaced, Overlaps
<1>8. AskedCached'
  BY <1>1, <1>4, <1>5 DEF DenomInv, AskedCached
<1> QED
  BY <1>1, <1>4, <1>5, <1>6, <1>7, <1>8
  DEF DenomInv, AnswersAsked, DenomInHand, BeforeUp, FetchedIfEmpty, SavesCached, SavedIsCached,
      FilledCached

\* A goroutine goes on to another step, or is done with its denom.
LEMMA GoesOn ==
    ASSUME DenomInv, NEW c \in Callers, NEW step \in Steps, Goes(c, step)
    PROVE  /\ caller' \in [Callers -> CallerType]
           /\ caller'[c].step = step /\ caller'[c].denom = caller[c].denom
           /\ caller[c].denom \subseteq Denoms
           /\ \A e \in Callers \ {c} : caller'[e] = caller[e]
<1>1. TypeOK
  BY DEF DenomInv
<1> QED
  BY <1>1, CallerTypes DEF Goes, CallerType

LEMMA IsDone ==
    ASSUME DenomInv, NEW c \in Callers,
           caller' = [caller EXCEPT ![c].step = "idle", ![c].denom = {}]
    PROVE  /\ caller' \in [Callers -> CallerType]
           /\ caller'[c].step = "idle" /\ caller'[c].denom = {}
           /\ caller[c].denom \subseteq Denoms
           /\ \A e \in Callers \ {c} : caller'[e] = caller[e]
<1>1. TypeOK /\ "idle" \in Steps
  BY DEF DenomInv, Steps
<1>2. /\ caller \in [Callers -> CallerType] /\ caller[c] \in CallerType
      /\ caller' \in [Callers -> CallerType]
      /\ caller'[c].step = "idle" /\ caller'[c].denom = {}
  BY <1>1, CallerTypes
<1>3. caller' = [caller EXCEPT ![c] = [@ EXCEPT !.step = "idle", !.denom = {}]]
  BY <1>2
<1> QED
  BY <1>2, <1>3 DEF CallerType

\* Everything TypeOK says of a process that is up, as far as a lookup can change it.
LEMMA UpTypes ==
    ASSUME DenomInv
    PROVE  /\ cache \subseteq Denoms /\ db \subseteq Denoms /\ asked \subseteq Callers \X Denoms
           /\ failures \in 0 .. MaxFailures /\ raced \in BOOLEAN /\ MaxFailures \in Nat
  BY DenomTracesAssumption DEF DenomInv, TypeOK

LEMMA HoldsAnswer ==
    ASSUME DenomInv, NEW c \in Callers, caller[c].step \in {"write", "writing", "save"}
    PROVE  asked # {}
<1>1. PICK d \in caller[c].denom : TRUE
  BY DEF DenomInv, AnswersAsked
<1>2. <<c, d>> \in asked
  BY <1>1 DEF DenomInv, AnswersAsked
<1> QED
  BY <1>2

LEMMA EndReadStep == ASSUME DenomInv, NEW c \in Callers, EndRead(c) PROVE DenomInv'
<1>1. /\ process = "up" /\ caller[c].step = "reading"
      /\ UNCHANGED <<process, page, cache, db, history, failures, stops>>
  BY DEF EndRead, At, bounds
<1>2. UNCHANGED <<asked, filled, raced, unread, aborted>>
  BY <1>1 DEF history
<1>3. /\ caller' \in [Callers -> CallerType] /\ caller'[c].step \in {"idle", "query"}
      /\ \A e \in Callers \ {c} : caller'[e] = caller[e]
      /\ caller'[c].step = "query" => /\ caller'[c].denom = caller[c].denom
                                      /\ ~raced => caller[c].denom \cap cache = {}
  <2>1. CASE caller' = [caller EXCEPT ![c].step = "idle", ![c].denom = {}]
    BY <2>1, IsDone
  <2>2. CASE /\ caller[c].denom \cap cache = {} \/ Overlaps(c, "reading") # {}
             /\ Goes(c, "query")
    <3>1. "query" \in Steps
      BY DEF Steps
    <3>2. ~raced => Overlaps(c, "reading") = {}
      BY <1>1 DEF DenomInv, OverlapsRaced, Overlaps
    <3> QED
      BY <2>2, <3>1, <3>2, GoesOn
  <2> QED
    BY <2>1, <2>2 DEF EndRead
<1>4. TypeOK'
  BY <1>1, <1>2, <1>3, UpTypes, LookupTypes
<1>5. AskedCached'
  BY <1>1, <1>2, <1>3 DEF DenomInv, AskedCached
<1>6. AnswersAsked' /\ DenomInHand' /\ OverlapsRaced' /\ SavesCached'
  BY <1>1, <1>2, <1>3 DEF DenomInv, AnswersAsked, DenomInHand, OverlapsRaced, SavesCached
<1>7. FilledCached'
  BY <1>1, <1>2, <1>3 DEF DenomInv, FilledCached
<1> QED
  BY <1>1, <1>2, <1>4, <1>5, <1>6, <1>7 DEF DenomInv, BeforeUp, FetchedIfEmpty, SavedIsCached

LEMMA QueryStep == ASSUME DenomInv, NEW c \in Callers, Query(c) PROVE DenomInv'
<1>1. /\ process = "up" /\ caller[c].step = "query" /\ Goes(c, "write") /\ "write" \in Steps
      /\ asked' = asked \cup ({c} \X caller[c].denom)
      /\ UNCHANGED <<process, page, cache, db, filled, raced, unread, aborted, failures, stops>>
  BY DEF Query, At, bounds, Steps
<1>2. /\ caller' \in [Callers -> CallerType]
      /\ caller'[c].step = "write" /\ caller'[c].denom = caller[c].denom
      /\ caller[c].denom \subseteq Denoms
      /\ \A e \in Callers \ {c} : caller'[e] = caller[e]
  BY <1>1, GoesOn
<1>3. asked' \subseteq Callers \X Denoms
  BY <1>1, <1>2, UpTypes
<1>4. TypeOK'
  BY <1>1, <1>2, <1>3, UpTypes, LookupTypes
<1>5. AskedCached'
  BY <1>1, <1>2 DEF DenomInv, AskedCached
<1>6. AnswersAsked' /\ DenomInHand' /\ OverlapsRaced' /\ SavesCached'
  BY <1>1, <1>2 DEF DenomInv, AnswersAsked, DenomInHand, OverlapsRaced, SavesCached
<1> QED
  BY <1>1, <1>2, <1>4, <1>5, <1>6 DEF DenomInv, BeforeUp, FetchedIfEmpty, SavedIsCached, FilledCached

LEMMA QueryFailsStep == ASSUME DenomInv, NEW c \in Callers, QueryFails(c) PROVE DenomInv'
<1>1. /\ process = "up" /\ caller[c].step = "query"
      /\ failures < MaxFailures /\ failures' = failures + 1
      /\ caller' = [caller EXCEPT ![c].step = "idle", ![c].denom = {}]
      /\ UNCHANGED <<process, page, cache, db, asked, filled, raced, unread, aborted, stops>>
  BY DEF QueryFails, MayFail, At, history
<1>2. /\ caller' \in [Callers -> CallerType] /\ caller'[c].step = "idle"
      /\ \A e \in Callers \ {c} : caller'[e] = caller[e]
  BY <1>1, IsDone
<1>3. failures' \in 0 .. MaxFailures
  BY <1>1, UpTypes
<1>4. TypeOK'
  BY <1>1, <1>2, <1>3, UpTypes, LookupTypes
<1>5. AskedCached'
  BY <1>1, <1>2 DEF DenomInv, AskedCached
<1>6. AnswersAsked' /\ DenomInHand' /\ OverlapsRaced' /\ SavesCached'
  BY <1>1, <1>2 DEF DenomInv, AnswersAsked, DenomInHand, OverlapsRaced, SavesCached
<1> QED
  BY <1>1, <1>2, <1>4, <1>5, <1>6 DEF DenomInv, BeforeUp, FetchedIfEmpty, SavedIsCached, FilledCached

LEMMA BeginWriteStep == ASSUME DenomInv, NEW c \in Callers, BeginWrite(c) PROVE DenomInv'
<1>1. /\ process = "up" /\ caller[c].step = "write" /\ Goes(c, "writing") /\ "writing" \in Steps
      /\ raced' = (raced \/ Overlaps(c, "writing") # {})
      /\ UNCHANGED <<process, page, cache, db, asked, filled, unread, aborted, failures, stops>>
  BY DEF BeginWrite, At, bounds, Steps
<1>2. /\ caller' \in [Callers -> CallerType]
      /\ caller'[c].step = "writing" /\ caller'[c].denom = caller[c].denom
      /\ \A e \in Callers \ {c} : caller'[e] = caller[e]
  BY <1>1, GoesOn
<1>3. raced' \in BOOLEAN
  BY <1>1
<1>4. TypeOK'
  BY <1>1, <1>2, <1>3, UpTypes, LookupTypes
<1>5. AskedCached'
  BY <1>1, <1>2 DEF DenomInv, AskedCached
<1>6. OverlapsRaced'
  <2> SUFFICES ASSUME ~raced', NEW x \in Callers, caller'[x].step = "writing",
                      NEW y \in Callers \ {x}
               PROVE  caller'[y].step \notin {"reading", "writing"}
    BY DEF OverlapsRaced
  <2>1. ~raced /\ \A d \in Callers \ {c} : caller[d].step \notin {"reading", "writing"}
    BY <1>1 DEF Overlaps
  <2>2. CASE x = c
    BY <1>2, <2>1, <2>2
  <2>3. CASE x # c
    BY <1>2, <2>1, <2>3
  <2> QED
    BY <2>2, <2>3
<1>7. AnswersAsked' /\ DenomInHand' /\ SavesCached'
  BY <1>1, <1>2 DEF DenomInv, AnswersAsked, DenomInHand, SavesCached
<1> QED
  BY <1>1, <1>2, <1>4, <1>5, <1>6, <1>7 DEF DenomInv, BeforeUp, FetchedIfEmpty, SavedIsCached, FilledCached

LEMMA EndWriteStep == ASSUME DenomInv, NEW c \in Callers, EndWrite(c) PROVE DenomInv'
<1>1. /\ process = "up" /\ caller[c].step = "writing" /\ Goes(c, "save") /\ "save" \in Steps
      /\ cache' = Written(c) \/ (Overlaps(c, "writing") # {} /\ cache' = cache)
      /\ UNCHANGED <<process, page, db, asked, filled, raced, unread, aborted, failures, stops>>
  BY DEF EndWrite, At, history, bounds, Steps
<1>2. /\ caller' \in [Callers -> CallerType]
      /\ caller'[c].step = "save" /\ caller'[c].denom = caller[c].denom
      /\ caller[c].denom \subseteq Denoms
      /\ \A e \in Callers \ {c} : caller'[e] = caller[e]
  BY <1>1, GoesOn
<1>3. ~raced => cache' = cache \cup caller[c].denom
  BY <1>1 DEF DenomInv, OverlapsRaced, Overlaps, Written
<1>4. cache' \subseteq Denoms
  BY <1>1, <1>2, UpTypes DEF Written
<1>9. FilledCached'
  BY <1>1, <1>2 DEF DenomInv, FilledCached, Written
<1>8. asked # {}
  BY <1>1, HoldsAnswer
<1>5. TypeOK'
  BY <1>1, <1>2, <1>4, <1>8, UpTypes, LookupTypes
<1>6. AskedCached'
  BY <1>1, <1>2, <1>3 DEF DenomInv, AskedCached
<1>7. AnswersAsked' /\ DenomInHand' /\ OverlapsRaced' /\ SavesCached'
  BY <1>1, <1>2, <1>3 DEF DenomInv, AnswersAsked, DenomInHand, OverlapsRaced, SavesCached
<1> QED
  BY <1>1, <1>2, <1>3, <1>5, <1>6, <1>7, <1>9 DEF DenomInv, BeforeUp, FetchedIfEmpty, SavedIsCached

LEMMA SaveStep == ASSUME DenomInv, NEW c \in Callers, Save(c) PROVE DenomInv'
<1>1. /\ process = "up" /\ caller[c].step = "save"
      /\ db' = db \cup caller[c].denom \/ db' = db
      /\ caller' = [caller EXCEPT ![c].step = "idle", ![c].denom = {}]
      /\ failures' = failures \/ (failures < MaxFailures /\ failures' = failures + 1)
      /\ UNCHANGED <<process, page, cache, asked, filled, raced, unread, aborted, stops>>
  BY DEF Save, MayFail, At, history, bounds
<1>2. /\ caller' \in [Callers -> CallerType] /\ caller'[c].step = "idle"
      /\ caller[c].denom \subseteq Denoms
      /\ \A e \in Callers \ {c} : caller'[e] = caller[e]
  BY <1>1, IsDone
<1>3. failures' \in 0 .. MaxFailures
  BY <1>1, UpTypes
<1>4. db' \subseteq Denoms
  BY <1>1, <1>2, UpTypes
<1>8. asked # {}
  BY <1>1, HoldsAnswer
<1>5. TypeOK'
  BY <1>1, <1>2, <1>3, <1>4, <1>8, UpTypes, LookupTypes
<1>6. AskedCached' /\ SavedIsCached'
  BY <1>1, <1>2 DEF DenomInv, AskedCached, SavedIsCached, SavesCached
<1>7. AnswersAsked' /\ DenomInHand' /\ OverlapsRaced' /\ SavesCached'
  BY <1>1, <1>2 DEF DenomInv, AnswersAsked, DenomInHand, OverlapsRaced, SavesCached
<1> QED
  BY <1>1, <1>2, <1>5, <1>6, <1>7 DEF DenomInv, BeforeUp, FetchedIfEmpty, FilledCached

--------------------------------------------------------------------------------
(* The theorems                                                            *)

LEMMA DenomStep == ASSUME DenomInv, [Next]_vars PROVE DenomInv'
<1>1. CASE Load \/ LoadFails \/ FetchPage \/ FetchPageFails \/ Start
  BY <1>1, PreheatStep
<1>2. ASSUME NEW c \in Callers,
             \/ \E S \in Messages : Ask(c, S)
             \/ \E d \in Denoms : BeginRead(c, d)
             \/ EndRead(c) \/ Query(c) \/ QueryFails(c)
             \/ BeginWrite(c) \/ EndWrite(c) \/ Save(c)
      PROVE  DenomInv'
  BY <1>2, AskStep, BeginReadStep, EndReadStep, QueryStep, QueryFailsStep, BeginWriteStep,
     EndWriteStep, SaveStep
<1>3. CASE Abort \/ Stop
  BY <1>3, EndStep
<1>4. CASE UNCHANGED vars
  BY <1>4
  DEF vars, DenomInv, TypeOK, FilledWhole, AnswersAsked, DenomInHand, BeforeUp, FetchedIfEmpty,
      OverlapsRaced, Overlaps, SavesCached, AskedCached, SavedIsCached, FilledCached
<1> QED
  BY <1>1, <1>2, <1>3, <1>4 DEF Next

LEMMA AlwaysDenomInv == Spec => []DenomInv
  BY DenomInit, DenomStep, PTL DEF Spec

\* The variables have their types, no goroutine asks before the cache is filled, and
\* preHeatDenomTraceCache fills it with all or with nothing.
THEOREM TypeCorrect == Spec => []TypeOK
<1>1. DenomInv => TypeOK
  BY DEF DenomInv
<1> QED
  BY <1>1, AlwaysDenomInv, PTL

\* As long as no two accesses overlapped, and the database could be read, what
\* DenomTrace and the starts before it saved is cached.
THEOREM SavedDenomsCached == Spec => []SavedIsCached
<1>1. DenomInv => SavedIsCached
  BY DEF DenomInv
<1> QED
  BY <1>1, AlwaysDenomInv, PTL

\* As long as no two accesses overlapped, a goroutine asks the node at most once for
\* a denom, and none for what the start of the process was given, by the database or by
\* the node (preHeatDenomTraceCache, DenomTrace).
THEOREM NodeAskedOnce == Spec => AskedOnce
<1>1. ASSUME DenomInv, NEW c \in Callers, ~raced, caller[c].step = "query"
      PROVE  /\ ({c} \X caller[c].denom) \cap asked = {}
             /\ caller[c].denom \cap filled = {}
  <2>1. ({c} \X caller[c].denom) \cap asked = {}
    BY <1>1, UpTypes DEF DenomInv, AskedCached
  <2>2. caller[c].denom \cap filled = {}
    BY <1>1 DEF DenomInv, FilledCached
  <2> QED
    BY <2>1, <2>2
<1>2. DenomInv /\ [Next]_vars =>
        [\A c \in Callers :
            ~raced /\ caller[c].step = "query" /\ caller'[c].step = "write"
               => /\ ({c} \X caller[c].denom) \cap asked = {}
                  /\ caller[c].denom \cap filled = {}]_vars
  BY <1>1
<1> QED
  BY <1>2, AlwaysDenomInv, PTL DEF Spec, AskedOnce

================================================================================
