---------------------------- MODULE MCCheckerPool ----------------------------
(***************************************************************************)
(* A pool of two slots shared by three requests: with one more request     *)
(* than slots a request waits, with two canceled ones every slot can be    *)
(* disposed under a waiter.                                                *)
(***************************************************************************)
EXTENDS CheckerPool
=============================================================================
