------------------------------ MODULE DenomTraces ------------------------------
(***************************************************************************)
(* The cache of IBC denom traces of the indexer.  New fills it before any  *)
(* other goroutine runs: from the database, or, when that holds nothing,   *)
(* page by page from the full node.  Then the handlers of transactions,    *)
(* mempool polls and pools ask for the denoms of their messages: a miss is *)
(* asked of the node, cached and saved.                                    *)
(*                                                                         *)
(* The cache is a plain Go map without a lock, so an access takes time, and *)
(* two that overlap, one of them writing, may stop the process ("fatal     *)
(* error: concurrent map read and map write"), or go on with a read that   *)
(* misses or a write that is lost.  The trace of a denom never changes, so *)
(* a cached trace is its denom.                                            *)
(***************************************************************************)
EXTENDS Naturals, FiniteSets, Sequences

CONSTANTS
    Denoms,     \* the denoms there are traces of
    Messages,   \* the sets of denoms that messages mention
    Callers,    \* the goroutines that translate messages
    Pages,      \* the sequence of pages in which the node lists all its traces
    MaxFailures,\* bound on failing calls to the node and the database
    MaxStops    \* bound on the times the process stops

ASSUME DenomTracesAssumption ==
    /\ Messages \subseteq SUBSET Denoms
    /\ Pages \in Seq(SUBSET Denoms) /\ Pages # <<>>
    /\ MaxFailures \in Nat
    /\ MaxStops \in Nat

VARIABLES
    process,    \* "off", "load", "fetch" (preHeatDenomTraceCache), "up"
    page,       \* the page to fetch next
    cache,      \* ibcTraceCache
    db,         \* the denoms in the table of IBCDenom
    caller,     \* per goroutine: its step, the denoms left and the one it asks for
    asked,      \* history: pairs of a caller and a denom the node answered for
    filled,     \* history: what this process was given to fill the cache with
    raced,      \* history: two accesses of this process have overlapped
    unread,     \* history: this process could not read the database
    aborted,    \* history: the runtime stopped the process for it
    failures,   \* failing calls so far
    stops       \* stops of the process so far

vars == <<process, page, cache, db, caller, asked, filled, raced, unread, aborted,
          failures, stops>>
bounds == <<failures, stops>>
history == <<asked, filled, raced, unread, aborted>>

AllTraces == UNION {Pages[i] : i \in DOMAIN Pages}
Idle == [step |-> "idle", todo |-> {}, denom |-> {}]

Init ==
    /\ process = "load"
    /\ page = 1
    /\ cache = {}
    /\ db = {}
    /\ caller = [c \in Callers |-> Idle]
    /\ asked = {}
    /\ filled = {}
    /\ raced = FALSE
    /\ unread = FALSE
    /\ aborted = FALSE
    /\ failures = 0
    /\ stops = 0

\* A call to the node or the database that fails.
MayFail == failures < MaxFailures /\ failures' = failures + 1 /\ UNCHANGED stops

--------------------------------------------------------------------------------
(* preHeatDenomTraceCache                                                  *)

\* Mutant: what the database holds is counted only.
MutLoaded == {}

\* The cache made of what the database holds.
Loaded == db

Load ==
    /\ process = "load"
    /\ IF db # {}
       THEN process' = "up" /\ cache' = Loaded /\ filled' = db
       ELSE process' = "fetch" /\ UNCHANGED <<cache, filled>>
    /\ UNCHANGED <<page, db, caller, asked, raced, unread, aborted, bounds>>

\* A database that cannot be read is taken for an empty one.
LoadFails ==
    /\ process = "load"
    /\ MayFail
    /\ process' = "fetch"
    /\ unread' = TRUE
    /\ UNCHANGED <<page, cache, db, caller, asked, filled, raced, aborted>>

\* Mutant: the loop is left before the page is appended.
MutListed == UNION {Pages[i] : i \in 1 .. page - 1}

\* The pages so far.
Listed == UNION {Pages[i] : i \in 1 .. page}

\* The pages are cached together after the last one, and not saved.
FetchPage ==
    /\ process = "fetch"
    /\ IF page = Len(Pages)
       THEN process' = "up" /\ page' = 1 /\ cache' = Listed /\ filled' = AllTraces
       ELSE page' = page + 1 /\ UNCHANGED <<process, cache, filled>>
    /\ UNCHANGED <<db, caller, asked, raced, unread, aborted, bounds>>

\* The pages fetched before the one that fails are thrown away.
FetchPageFails ==
    /\ process = "fetch"
    /\ MayFail
    /\ process' = "up"
    /\ page' = 1
    /\ UNCHANGED <<cache, db, caller, history>>

--------------------------------------------------------------------------------
(* getDenoms and DenomTrace                                                *)

At(c, step) == process = "up" /\ caller[c].step = step
Goes(c, step) == caller' = [caller EXCEPT ![c].step = step]

\* The goroutines c's access overlaps with, if c is at the given step.
Overlaps(c, step) ==
    {d \in Callers \ {c} : \/ caller[d].step = "writing"
                           \/ caller[d].step = "reading" /\ step = "writing"}

\* A message mentions denoms, asked for one after the other in any order.
Ask(c, S) ==
    /\ At(c, "idle")
    /\ caller[c].todo = {}
    /\ caller' = [caller EXCEPT ![c].todo = S]
    /\ UNCHANGED <<process, page, cache, db, history, bounds>>

BeginRead(c, d) ==
    /\ At(c, "idle")
    /\ d \in caller[c].todo
    /\ caller' = [caller EXCEPT ![c] = [step |-> "reading", todo |-> @.todo \ {d},
                                        denom |-> {d}]]
    /\ raced' = (raced \/ Overlaps(c, "reading") # {})
    /\ UNCHANGED <<process, page, cache, db, asked, filled, unread, aborted, bounds>>

EndRead(c) ==
    /\ At(c, "reading")
    /\ \/ /\ caller[c].denom \subseteq cache
          /\ caller' = [caller EXCEPT ![c].step = "idle", ![c].denom = {}]
       \/ /\ caller[c].denom \cap cache = {} \/ Overlaps(c, "reading") # {}
          /\ Goes(c, "query")
    /\ UNCHANGED <<process, page, cache, db, history, bounds>>

Query(c) ==
    /\ At(c, "query")
    /\ Goes(c, "write")
    /\ asked' = asked \cup ({c} \X caller[c].denom)
    /\ UNCHANGED <<process, page, cache, db, filled, raced, unread, aborted, bounds>>

\* getDenoms leaves the denom without a trace and goes on with the next.
QueryFails(c) ==
    /\ At(c, "query")
    /\ MayFail
    /\ caller' = [caller EXCEPT ![c].step = "idle", ![c].denom = {}]
    /\ UNCHANGED <<process, page, cache, db, history>>

BeginWrite(c) ==
    /\ At(c, "write")
    /\ Goes(c, "writing")
    /\ raced' = (raced \/ Overlaps(c, "writing") # {})
    /\ UNCHANGED <<process, page, cache, db, asked, filled, unread, aborted, bounds>>

\* Mutant: the trace is only saved.
MutWritten(c) == cache

Written(c) == cache \cup caller[c].denom

EndWrite(c) ==
    /\ At(c, "writing")
    /\ \/ cache' = Written(c)
       \/ Overlaps(c, "writing") # {} /\ UNCHANGED cache
    /\ Goes(c, "save")
    /\ UNCHANGED <<process, page, db, history, bounds>>

\* The error of SaveIBCDenom is not looked at.
Save(c) ==
    /\ At(c, "save")
    /\ \/ db' = db \cup caller[c].denom /\ UNCHANGED bounds
       \/ MayFail /\ UNCHANGED db
    /\ caller' = [caller EXCEPT ![c].step = "idle", ![c].denom = {}]
    /\ UNCHANGED <<process, page, cache, history>>

--------------------------------------------------------------------------------
(* The process                                                             *)

Off ==
    /\ process' = "off"
    /\ page' = 1
    /\ cache' = {}
    /\ caller' = [c \in Callers |-> Idle]
    /\ asked' = {}
    /\ filled' = {}
    /\ raced' = FALSE
    /\ unread' = FALSE

\* The runtime finds two accesses that overlap.
Abort ==
    /\ \E c \in Callers : /\ caller[c].step = "writing"
                          /\ Overlaps(c, "writing") # {}
    /\ stops < MaxStops
    /\ stops' = stops + 1
    /\ aborted' = TRUE
    /\ Off
    /\ UNCHANGED <<db, failures>>

Stop ==
    /\ process # "off"
    /\ stops < MaxStops
    /\ stops' = stops + 1
    /\ Off
    /\ UNCHANGED <<db, aborted, failures>>

Start ==
    /\ process = "off"
    /\ process' = "load"
    /\ UNCHANGED <<page, cache, db, caller, history, bounds>>

--------------------------------------------------------------------------------

Next ==
    \/ Load \/ LoadFails \/ FetchPage \/ FetchPageFails
    \/ \E c \in Callers :
          \/ \E S \in Messages : Ask(c, S)
          \/ \E d \in Denoms : BeginRead(c, d)
          \/ EndRead(c) \/ Query(c) \/ QueryFails(c)
          \/ BeginWrite(c) \/ EndWrite(c) \/ Save(c)
    \/ Abort \/ Stop \/ Start

Spec == Init /\ [][Next]_vars

--------------------------------------------------------------------------------
(* Properties                                                              *)

Steps == {"idle", "reading", "query", "write", "writing", "save"}

\* The cache is filled with all the database holds or all the node lists, and never
\* with part of it: a failing page leaves it empty (preHeatDenomTraceCache).
FilledWhole == process = "up" /\ asked = {} => cache \in {{}, db, AllTraces}

\* The types of the variables; no goroutine asks before the cache is filled, and it is
\* filled as a whole.
TypeOK ==
    /\ process \in {"off", "load", "fetch", "up"}
    /\ page \in DOMAIN Pages
    /\ cache \subseteq Denoms
    /\ db \subseteq Denoms
    /\ caller \in [Callers -> [step : Steps, todo : SUBSET Denoms, denom : SUBSET Denoms]]
    /\ asked \subseteq Callers \X Denoms
    /\ filled \subseteq Denoms
    /\ raced \in BOOLEAN /\ unread \in BOOLEAN /\ aborted \in BOOLEAN
    /\ failures \in 0 .. MaxFailures
    /\ stops \in 0 .. MaxStops
    /\ process # "up" => caller = [c \in Callers |-> Idle]
    /\ FilledWhole

\* As long as no two accesses overlapped: the node is not asked by any goroutine for
\* what it listed, or the database held, when the process started, nor by the same one
\* for what it has answered for since, whatever calls fail and whatever the others are
\* doing (preHeatDenomTraceCache, DenomTrace).
AskedOnce ==
    [][\A c \in Callers :
          ~raced /\ caller[c].step = "query" /\ caller'[c].step = "write"
             => /\ ({c} \X caller[c].denom) \cap asked = {}
                /\ caller[c].denom \cap filled = {}]_vars

\* What the database is given is in the cache, unless a write was lost to a race or
\* the database could not be read when the process started.
SavedIsCached ==
    process = "up" /\ ~raced /\ ~unread => db \subseteq cache

\* What the interface promises of DenomTrace, that it "returns IBC Denom trace when
\* IBC denom is provided": no call of it ends the process.
NeverAborts == ~aborted

================================================================================
