----------------------------- MODULE MCServer -----------------------------
(* Model-checking instance of Server. *)
EXTENDS Server
=============================================================================
