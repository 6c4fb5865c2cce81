--------------------------- MODULE MCEvmBroadcast ---------------------------
(* Two transactions, one mempool goroutine beside the worker, a queue of   *)
(* one batch.                                                              *)
EXTENDS EvmBroadcast
=============================================================================
