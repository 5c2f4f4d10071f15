--------------------------- MODULE ConferenceLife ---------------------------
(***************************************************************************)
(* What Server and Conference rely on of each other: the life of one       *)
(* conference, as its creation, the commands that add and remove its       *)
(* sources and streams, the two halves of the loop of Server::run and its  *)
(* destruction change it.  Module Conference implements this with the      *)
(* objects it holds and their timeouts, and module Server for each of its  *)
(* conferences: what Server leaves out of a conference is what Conference  *)
(* has, and neither expects of the other what it does not do.              *)
(***************************************************************************)
EXTENDS Naturals

VARIABLES
  state,    \* "none", "up", "gone", or "aborted" with its process
  sources, streams,  \* how many there are
  idle,     \* idle_ is set
  srv       \* what Server::run does next: "run_once" or "reap"

vars == <<state, sources, streams, idle, srv>>

Init == state = "none" /\ sources = 0 /\ streams = 0 /\ idle = FALSE /\ srv = "run_once"

Create == state = "none" /\ state' = "up" /\ UNCHANGED <<sources, streams, idle, srv>>

(* A command: one source or stream more or less. *)
Change(n) == n' = n + 1 \/ (n > 0 /\ n' = n - 1)

Members ==
  /\ state = "up"
  /\ \/ Change(sources) /\ UNCHANGED streams
     \/ Change(streams) /\ UNCHANGED sources
  /\ UNCHANGED <<state, idle, srv>>

Delete == state' = "gone" /\ sources' = 0 /\ streams' = 0 /\ idle' = FALSE

Destroy == state = "up" /\ Delete /\ UNCHANGED srv

(* A command on its objects fails an assertion: the process ends. *)
Abort == state = "up" /\ state' = "aborted" /\ UNCHANGED <<sources, streams, idle, srv>>

(* Those found dead go; idle_ is set only when there were none. *)
RunOnce ==
  /\ srv = "run_once" /\ srv' = "reap" /\ state # "aborted"
  /\ sources' <= sources /\ streams' <= streams
  /\ \/ idle' = idle
     \/ idle' = TRUE /\ state = "up" /\ sources = 0 /\ streams = 0
  /\ UNCHANGED state

(* A conference goes if its idle_ is set, whatever was added since. *)
Reap ==
  /\ srv = "reap" /\ srv' = "run_once" /\ state # "aborted"
  /\ IF idle THEN state = "up" /\ Delete ELSE UNCHANGED <<state, sources, streams, idle>>

Next == Create \/ Members \/ Destroy \/ Abort \/ RunOnce \/ Reap

Spec == Init /\ [][Next]_vars
=============================================================================
