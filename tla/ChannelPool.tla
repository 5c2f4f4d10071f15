---------------------------- MODULE ChannelPool ----------------------------
(***************************************************************************)
(* What the numbered places of a mixer promise the conference that hands   *)
(* them out: a stream that comes gets the first place that nobody has, has *)
(* no other, and keeps it until it goes.  The channels of the video mixer, *)
(* as its three threads employ and free them (module VideoMixer), and the  *)
(* channels and outputs that DirectorConference hands out in one command   *)
(* (module Director) implement this.                                       *)
(***************************************************************************)
EXTENDS Naturals

CONSTANTS
  Places,    \* the numbers of the places, from 0
  Users,     \* streams
  Nobody

VARIABLE owner   \* owner[c]: the stream that has place c

Init == owner = [c \in Places |-> Nobody]

Claim(c, u) ==
  /\ owner[c] = Nobody /\ \A d \in 0 .. c - 1 : owner[d] # Nobody
  /\ \A d \in Places : owner[d] # u
  /\ owner' = [owner EXCEPT ![c] = u]

Release(c) ==
  /\ owner[c] # Nobody
  /\ owner' = [owner EXCEPT ![c] = Nobody]

Next == \E c \in Places : Release(c) \/ \E u \in Users : Claim(c, u)

Spec == Init /\ [][Next]_owner
=============================================================================
