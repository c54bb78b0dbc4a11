---------------------------- MODULE MCDenomTraces ----------------------------
(* DenomTraces on a small instance: two goroutines, three denoms of which the *)
(* node lists two, one on each page.                                          *)
EXTENDS DenomTraces

CONSTANTS listed1, listed2, unlisted, transactions, mempool

const_Denoms == {listed1, listed2, unlisted}
const_Callers == {transactions, mempool}
const_Messages == {{unlisted, listed1}}
const_Pages == <<{listed1}, {listed2}>>
================================================================================
