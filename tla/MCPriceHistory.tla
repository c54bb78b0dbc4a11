---------------------------- MODULE MCPriceHistory ----------------------------
(* PriceHistory on a small instance.                                          *)
EXTENDS PriceHistory

const_Values == {1, 4}
================================================================================
