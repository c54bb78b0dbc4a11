---------------------------- MODULE MCEventStream ----------------------------
(* EventStream on a small instance: the blocks, guarded by a sentinel, and the *)
(* messages of the pools, which are not.                                       *)
EXTENDS EventStream

CONSTANTS blocks, pools

const_Streams == {blocks, pools}
const_Guarded == {blocks}
const_Events == blocks :> 2 @@ pools :> 3
================================================================================
