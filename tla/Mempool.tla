-------------------------------- MODULE Mempool --------------------------------
(***************************************************************************)
(* The mempool messages: a ticker of the publisher polls the node for its  *)
(* unconfirmed transactions (rpc.Mempool) and publishes those it has not   *)
(* seen in an earlier poll.  mempoolSet remembers what was seen; it lives  *)
(* in the process and is touched by one goroutine only.  Module Publisher  *)
(* says when that goroutine runs.                                          *)
(*                                                                         *)
(* The node keeps its mempool in the order of arrival and returns the      *)
(* first Limit transactions of it.                                         *)
(***************************************************************************)
EXTENDS Naturals, FiniteSets, SequencesExt

CONSTANTS
    Txs,        \* transactions
    Limit       \* how many of them an answer of the node holds at most, not 0

VARIABLES
    mempool,    \* the mempool of the node
    mempoolSet, \* transactions the last polls observed
    announced,  \* history: those this process published since they entered
    published   \* history: those this process published

process == <<mempoolSet, announced, published>>
vars == <<mempool, process>>

Init ==
    /\ mempool = <<>>
    /\ mempoolSet = {}
    /\ announced = {}
    /\ published = {}

\* The transactions an answer of the node holds.
Window == ToSet(SubSeq(mempool, 1, IF Len(mempool) < Limit THEN Len(mempool) ELSE Limit))

--------------------------------------------------------------------------------
(* The node: transactions arrive, and leave in a block, by eviction or expiry, those   *)
(* of a block one after the other.                                                    *)

Arrive(t) ==
    /\ t \notin ToSet(mempool)
    /\ mempool' = Append(mempool, t)
    /\ announced' = announced \ {t}
    /\ UNCHANGED <<mempoolSet, published>>

Leave(i) ==
    /\ i \in DOMAIN mempool
    /\ mempool' = RemoveAt(mempool, i)
    /\ UNCHANGED process

--------------------------------------------------------------------------------
(* A tick of the publisher's mempool ticker                                *)

PollFails == UNCHANGED vars

\* An empty answer returns before mempoolSet is looked at.
PollEmpty ==
    /\ Window = {}
    /\ UNCHANGED vars

\* Mutant: the answer is remembered before it is compared.
MutUnseen == {}

\* The transactions of the answer that were not observed before.
Unseen == Window \ mempoolSet

\* Mutants: those no longer observed stay in the set; only the unseen ones do.
MutObservedEver == mempoolSet \cup Window
MutObservedUnseen == Unseen

\* What is remembered of the answer.
Observed == Window

\* Those not in mempoolSet are published, and the set becomes what was observed.
Poll ==
    /\ Window # {}
    /\ mempoolSet' = Observed
    /\ announced' = announced \cup Unseen
    /\ published' = published \cup Unseen
    /\ UNCHANGED mempool

\* The process starts again, with an empty set.
Restart ==
    /\ mempoolSet' = {}
    /\ announced' = {}
    /\ published' = {}
    /\ UNCHANGED mempool

NodeStep == (\E t \in Txs : Arrive(t)) \/ (\E i \in DOMAIN mempool : Leave(i))

--------------------------------------------------------------------------------
(* Properties                                                              *)

\* The types of the variables, and that the set does not grow with the transactions
\* that pass: it never holds more than an answer of the node does.
TypeOK ==
    /\ mempool \in Seq(Txs) /\ IsInjective(mempool)
    /\ mempoolSet \subseteq Txs /\ Cardinality(mempoolSet) <= Limit
    /\ announced \subseteq published
    /\ published \subseteq Txs

\* A transaction is published once while it stays in the mempool: what a poll would
\* publish next has not been published since it entered, whatever failed and empty
\* answers there were and whatever left before it (rpc.Mempool, "continue").
PublishedOnce == Unseen \cap announced = {}

================================================================================
