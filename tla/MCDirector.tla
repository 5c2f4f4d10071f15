----------------------------- MODULE MCDirector -----------------------------
(* Instances of Director for TLC. *)
EXTENDS Director, TLC

Perms == Permutations(Audio) \cup Permutations(Video)
=============================================================================
