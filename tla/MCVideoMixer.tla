--------------------------- MODULE MCVideoMixer ---------------------------
(* Model-checking instance of VideoMixer. *)
EXTENDS VideoMixer, TLC

Perms == Permutations(Streams)
=============================================================================
