---------------------------- MODULE DrawingOrder ----------------------------
(***************************************************************************)
(* What the z-order of the video mixer promises: the windows are drawn in  *)
(* some order, each once.  A new window is on top; a window that closes    *)
(* leaves the others in their order; v.zorder moves the window it names    *)
(* one place up or down, to the top or to the bottom, and no other.        *)
(* Module VideoMixer implements this with the array zorder_, except for    *)
(* "bottom".                                                               *)
(***************************************************************************)
EXTENDS Naturals, Sequences

CONSTANT Channels

VARIABLE order   \* the windows from the bottom to the top

(* The places of window c: at most one. *)
Place(c) == {i \in DOMAIN order : order[i] = c}

(* The windows but the one in place i. *)
Without(i) == [k \in 1 .. Len(order) - 1 |-> IF k < i THEN order[k] ELSE order[k + 1]]

Init == order = <<>>

Open(c) == Place(c) = {} /\ order' = Append(order, c)

Close(c) == \E i \in Place(c) : order' = Without(i)

Exchange(i, j) == order' = [order EXCEPT ![i] = order[j], ![j] = order[i]]

Up(c)     == \E i \in Place(c) : i < Len(order) /\ Exchange(i, i + 1)
Down(c)   == \E i \in Place(c) : i > 1 /\ Exchange(i, i - 1)
Top(c)    == \E i \in Place(c) : order' = Append(Without(i), c)
Bottom(c) == \E i \in Place(c) : order' = <<c>> \o Without(i)

Next == \E c \in Channels :
          Open(c) \/ Close(c) \/ Up(c) \/ Down(c) \/ Top(c) \/ Bottom(c)

Spec == Init /\ [][Next]_order
=============================================================================
