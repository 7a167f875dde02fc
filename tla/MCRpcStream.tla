---------------------------- MODULE MCRpcStream ----------------------------
(* RpcStream for TLC: channels of two slots, fewer than the messages sent, so
   that both fill up. *)
EXTENDS RpcStream
=============================================================================
