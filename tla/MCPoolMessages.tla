----------------------------- MODULE MCPoolMessages -----------------------------
(* PoolMessages on a small instance: two pools are monitored, and an event names   *)
(* them in another order; lookbacks of one and two hours.                          *)
EXTENDS PoolMessages

CONSTANTS p1, p2, none

const_Pools == {p1, p2}
const_PoolIds == <<p1, p2>>
const_EventIds == {<<p2, p1>>}
const_Hours == <<1, 2>>
================================================================================
