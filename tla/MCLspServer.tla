----------------------------- MODULE MCLspServer -----------------------------
(***************************************************************************)
(* One notification and one request beside initialize, shutdown and exit.  *)
(* The channels hold one message: each is full as soon as something is     *)
(* before the message that waits for it.                                   *)
(***************************************************************************)
EXTENDS LspServer, TLC

=============================================================================
