--------------------------- MODULE MCConference ---------------------------
(* Model-checking instance of Conference. *)
EXTENDS Conference
=============================================================================
