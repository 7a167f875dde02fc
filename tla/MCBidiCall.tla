----------------------------- MODULE MCBidiCall -----------------------------
(* BidiCall for TLC, with the client stream it composes. *)
EXTENDS BidiCall
=============================================================================
