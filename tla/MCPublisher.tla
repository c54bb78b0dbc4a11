----------------------------- MODULE MCPublisher -----------------------------
(* Publisher on a small instance: the stream of transactions, guarded and     *)
(* written to the socket, and that of pool events; two transactions in the    *)
(* mempool, one in an answer.                                                 *)
EXTENDS Publisher

CONSTANTS t1, t2

const_Subscriptions == <<"txs", "pools">>
const_Guarded == {"txs"}
const_Txs == {t1, t2}
================================================================================
