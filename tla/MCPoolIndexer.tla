----------------------------- MODULE MCPoolIndexer -----------------------------
(* PoolIndexer on a small instance: two pools, of which the lists of the      *)
(* callers name one or both.                                                  *)
EXTENDS PoolIndexer

CONSTANTS p1, p2

const_Pools == {p1, p2}
const_PoolIds == <<p1, p2>>
const_OnePoolIds == <<p1>>
const_IdLists == {<<p2>>, <<p2, p1>>}
const_OneIdLists == {<<p1>>}
================================================================================
