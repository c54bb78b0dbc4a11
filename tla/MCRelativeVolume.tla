--------------------------- MODULE MCRelativeVolume ---------------------------
(* RelativeVolume over all caches and messages of a few heights.             *)
EXTENDS RelativeVolume

const_Heights == 1 .. 4
const_Volumes == 0 .. 2
const_Prices == {1, 3}
================================================================================
