---------------------------- MODULE TokenService ----------------------------
(***************************************************************************)
(* What the MCU server promises the XMPP library that hands it commands:   *)
(* every token is responded to at most once, and only while the server     *)
(* owes the response.  One step may respond to several tokens, for a       *)
(* conference that goes responds to all that wait on it.  Module Server    *)
(* implements this.                                                        *)
(***************************************************************************)
EXTENDS Naturals

CONSTANT Requests   \* commands with their tokens

VARIABLES
  owed,     \* the tokens handed to the server and not responded to
  answers   \* answers[r]: responses to r

Init == owed = {} /\ answers = [r \in Requests |-> 0]

(* The library hands over a token it has not handed over before. *)
Receive(r) ==
  /\ r \notin owed /\ answers[r] = 0
  /\ owed' = owed \cup {r}
  /\ UNCHANGED answers

(* The server responds to the tokens T. *)
Respond(T) ==
  /\ owed' = owed \ T
  /\ answers' = [r \in Requests |-> IF r \in T THEN answers[r] + 1 ELSE answers[r]]

Next ==
  \/ \E r \in Requests : Receive(r)
  \/ \E T \in SUBSET owed : Respond(T)

Spec == Init /\ [][Next]_<<owed, answers>>
=============================================================================
