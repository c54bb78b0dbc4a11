------------------------------ MODULE PoolWindow -------------------------------
(***************************************************************************)
(* What the indexer promises of its pool records, whatever goroutines and  *)
(* calls it takes: a record it holds is exact, a running process forgets   *)
(* only what is behind the window, and a new process knows either the      *)
(* saved part of the window or nothing.                                    *)
(***************************************************************************)
EXTENDS Integers

CONSTANTS Pools, Heights, Blocks

VARIABLES up, current, cache, db

wvars == <<up, current, cache, db>>

Exact(h, p) == [height |-> h, pool |-> p, liquidity |-> h, volume |-> h]

\* Only records behind the window are missing from what is kept.
Keeps(kept, store) ==
    /\ kept \subseteq store
    /\ \A r \in store \ kept : r.height + Blocks < current

Init == up = FALSE /\ current = 0 /\ cache = {} /\ db = {}

Advance == up /\ current' > current /\ UNCHANGED <<up, cache, db>>

Learn(h, p) == up /\ cache' = cache \cup {Exact(h, p)} /\ UNCHANGED <<up, current, db>>

Save(h, p) == up /\ db' = db \cup {Exact(h, p)} /\ UNCHANGED <<up, current, cache>>

Forget == up /\ Keeps(cache', cache) /\ UNCHANGED <<up, current, db>>

ForgetSaved == up /\ Keeps(db', db) /\ UNCHANGED <<up, current, cache>>

Stop == up /\ up' = FALSE /\ current' = 0 /\ cache' = {} /\ UNCHANGED db

Start ==
    /\ ~up
    /\ up' = TRUE
    /\ current' \in Heights
    /\ \/ cache' = {}
       \/ cache' = {r \in db : r.height + Blocks >= current' /\ r.height <= current'}
    /\ UNCHANGED db

Next ==
    \/ Advance \/ Forget \/ ForgetSaved \/ Stop \/ Start
    \/ \E h \in Heights, p \in Pools : Learn(h, p) \/ Save(h, p)

Spec == Init /\ [][Next]_wvars

================================================================================
