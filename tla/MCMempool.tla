----------------------------- MODULE MCMempool ------------------------------
(***************************************************************************)
(* Instances of Mempool for TLC.                                           *)
(***************************************************************************)
EXTENDS Mempool, TLC

CONSTANTS t1, t2, h1, h2, h3
=============================================================================
