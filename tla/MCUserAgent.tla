---------------------------- MODULE MCUserAgent ----------------------------
(* An instance of UserAgent for TLC. *)
EXTENDS UserAgent
=============================================================================
