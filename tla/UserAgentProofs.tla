-------------------------- MODULE UserAgentProofs --------------------------
(***************************************************************************)
(* Proofs about UserAgent, for any connections, requests and number of     *)
(* replies.  Every action is shown to preserve Inductive; the part about   *)
(* connections holds until a login overtakes the handling of a disconnect. *)
(***************************************************************************)
EXTENDS UserAgent, TLAPS

(* Inductive holds for a new agent. *)
LEMMA InductiveInit == Init => Inductive
  <1> SUFFICES ASSUME Init PROVE Inductive
    OBVIOUS
  <1>1. TypeOK
    <2>1. net \in [at : {"idle", "found", "erased", "crashed"}, c : Conns \cup {NoConn},
                   ev : Events \cup {"none"}]
      BY DEF Init, Idle
    <2>2. replies \in [Requests -> 0 .. MaxReplies] /\ calls \in [Requests -> Nat]
      BY RepliesAssumption DEF Init
    <2> QED
      BY <2>1, <2>2 DEF Init, TypeOK
  <1>2. RequestsInv /\ NetInv /\ SessionInv
    BY DEF Init, RequestsInv, NetInv, SessionInv, Busy, Idle, Disconnecting, Requests
  <1> QED
    BY <1>1, <1>2 DEF Inductive

LEMMA LoginStep ==
  ASSUME Inductive, NEW c \in Conns, login(c)
  PROVE  Inductive'
  <1> USE DEF Inductive
  <1>1. TypeOK'
    BY DEF login, TypeOK, Idle, Events, agent, strophe, cbs, traffic, history
  <1>2. RequestsInv'
    BY EventsAssumption, KindsAssumption
    DEF login, TypeOK, RequestsInv, NetInv, Busy, Requests, agent, strophe, cbs, traffic,
       history
  <1>3. NetInv'
    BY DEF login, TypeOK, RequestsInv, NetInv, Busy, Idle, agent, strophe, cbs, traffic, history
  <1>4. (overtaken \/ SessionInv)'
    BY NoConnAssumption, EventsAssumption
    DEF login, TypeOK, NetInv, SessionInv, Busy, Idle, Disconnecting, agent, strophe, cbs,
       traffic, history
  <1> QED
    BY <1>1, <1>2, <1>3, <1>4

LEMMA RegisterStep ==
  ASSUME Inductive, register_conn
  PROVE  Inductive'
  <1> USE DEF Inductive
  <1>1. TypeOK'
    BY DEF register_conn, TypeOK, Idle, Events, agent, strophe, cbs, traffic, history
  <1>2. RequestsInv'
    BY EventsAssumption, KindsAssumption
    DEF register_conn, TypeOK, RequestsInv, NetInv, Busy, Requests, agent, strophe, cbs,
       traffic, history
  <1>3. NetInv'
    BY DEF register_conn, TypeOK, RequestsInv, NetInv, Busy, Idle, agent, strophe, cbs,
       traffic, history
  <1>4. (overtaken \/ SessionInv)'
    BY NoConnAssumption, EventsAssumption
    DEF register_conn, TypeOK, NetInv, SessionInv, Busy, Idle, Disconnecting, agent,
       strophe, cbs, traffic, history
  <1> QED
    BY <1>1, <1>2, <1>3, <1>4

LEMMA LogoutStep ==
  ASSUME Inductive, logout
  PROVE  Inductive'
  <1> USE DEF Inductive
  <1>1. TypeOK'
    BY DEF logout, Crash, LogoutLeaves, TypeOK, Idle, Events, agent, strophe, cbs, traffic,
       history
  <1>2. RequestsInv'
    BY EventsAssumption, KindsAssumption
    DEF logout, Crash, LogoutLeaves, TypeOK, RequestsInv, NetInv, Busy, Requests, agent,
       strophe, cbs, traffic, history
  <1>3. NetInv'
    BY DEF logout, Crash, LogoutLeaves, TypeOK, RequestsInv, NetInv, Busy, Idle, agent,
       strophe, cbs, traffic, history
  <1>4. (overtaken \/ SessionInv)'
    BY NoConnAssumption, EventsAssumption
    DEF logout, Crash, LogoutLeaves, TypeOK, NetInv, SessionInv, Busy, Idle, Disconnecting,
       agent, strophe, cbs, traffic, history
  <1> QED
    BY <1>1, <1>2, <1>3, <1>4

LEMMA ClearStep ==
  ASSUME Inductive, clear_conn
  PROVE  Inductive'
  <1> USE DEF Inductive
  <1>1. TypeOK'
    BY DEF clear_conn, TypeOK, Idle, Events, agent, strophe, cbs, traffic, history
  <1>2. RequestsInv'
    BY EventsAssumption, KindsAssumption
    DEF clear_conn, TypeOK, RequestsInv, NetInv, Busy, Requests, agent, strophe, cbs,
       traffic, history
  <1>3. NetInv'
    BY DEF clear_conn, TypeOK, RequestsInv, NetInv, Busy, Idle, agent, strophe, cbs,
       traffic, history
  <1>4. (overtaken \/ SessionInv)'
    BY NoConnAssumption, EventsAssumption
    DEF clear_conn, TypeOK, NetInv, SessionInv, Busy, Idle, Disconnecting, agent, strophe,
       cbs, traffic, history
  <1> QED
    BY <1>1, <1>2, <1>3, <1>4

LEMMA DeleteStep ==
  ASSUME Inductive, delete
  PROVE  Inductive'
  <1> USE DEF Inductive
  <1>1. TypeOK'
    BY DEF delete, TypeOK, Idle, Events, agent, strophe, cbs, traffic, history
  <1>2. RequestsInv'
    BY EventsAssumption, KindsAssumption
    DEF delete, TypeOK, RequestsInv, NetInv, Busy, Requests, agent, strophe, cbs, traffic,
       history
  <1>3. NetInv'
    BY DEF delete, TypeOK, RequestsInv, NetInv, Busy, Idle, agent, strophe, cbs, traffic, history
  <1>4. (overtaken \/ SessionInv)'
    BY NoConnAssumption, EventsAssumption
    DEF delete, TypeOK, NetInv, SessionInv, Busy, Idle, Disconnecting, agent, strophe, cbs,
       traffic, history
  <1> QED
    BY <1>1, <1>2, <1>3, <1>4

LEMMA HandlerAddStep ==
  ASSUME Inductive, NEW r \in Requests, handler_add(r)
  PROVE  Inductive'
  <1> USE DEF Inductive, handler_add, registers, Crash
  <1>1. TypeOK'
    BY DEF TypeOK, Idle, Events, agent, strophe, cbs, traffic, history
  <1>2. RequestsInv'
    BY EventsAssumption, KindsAssumption
    DEF TypeOK, RequestsInv, NetInv, Busy, Requests, agent, strophe, cbs, traffic, history
  <1>3. NetInv'
    BY DEF TypeOK, RequestsInv, NetInv, Busy, Idle, agent, strophe, cbs, traffic, history
  <1>4. (overtaken \/ SessionInv)'
    BY NoConnAssumption, EventsAssumption
    DEF TypeOK, NetInv, SessionInv, Busy, Idle, Disconnecting, agent, strophe, cbs,
       traffic, history
  <1> QED
    BY <1>1, <1>2, <1>3, <1>4

LEMMA SendStep ==
  ASSUME Inductive, NEW r \in Requests, send(r)
  PROVE  Inductive'
  <1> USE DEF Inductive
  <1>1. TypeOK'
    <2>1. replies' \in [Requests -> 0 .. MaxReplies] /\ wire' \in [Requests -> Conns \cup {NoConn}]
      BY RepliesAssumption DEF send, TypeOK
    <2> QED
      BY <2>1 DEF send, TypeOK, agent, strophe, cbs, history
  <1>2. RequestsInv'
    BY EventsAssumption, KindsAssumption
    DEF send, TypeOK, RequestsInv, NetInv, Busy, Requests, agent, strophe, cbs, traffic,
       history
  <1>3. NetInv'
    BY DEF send, TypeOK, RequestsInv, NetInv, Busy, Idle, agent, strophe, cbs, traffic, history
  <1>4. (overtaken \/ SessionInv)'
    BY NoConnAssumption, EventsAssumption
    DEF send, TypeOK, NetInv, SessionInv, Busy, Idle, Disconnecting, agent, strophe, cbs,
       traffic, history
  <1> QED
    BY <1>1, <1>2, <1>3, <1>4

LEMMA OnConnectStep ==
  ASSUME Inductive, on_connect
  PROVE  Inductive'
  <1> USE DEF Inductive
  <1>1. TypeOK'
    <2>1. net.c \in Conns
      BY DEF on_connect, NetInv, Busy
    <2>2. net' \in [at : {"idle", "found", "erased", "crashed"}, c : Conns \cup {NoConn},
                    ev : Events \cup {"none"}]
      BY DEF on_connect, UsesAgent, Crash, TypeOK, Idle
    <2>3. app' \in {"out", "login", "in", "logout", "gone", "crashed", "failed"}
      BY DEF on_connect, UsesAgent, Crash, TypeOK
    <2> QED
      BY <2>1, <2>2, <2>3 DEF on_connect, TypeOK, agent, cbs, traffic
  <1>2. RequestsInv'
    BY EventsAssumption, KindsAssumption
    DEF on_connect, UsesAgent, Crash, TypeOK, RequestsInv, NetInv, Busy, Requests, agent,
       strophe, cbs, traffic, history
  <1>3. NetInv'
    BY DEF on_connect, UsesAgent, Crash, TypeOK, RequestsInv, NetInv, Busy, Idle, agent,
       strophe, cbs, traffic, history
  <1>4. (overtaken \/ SessionInv)'
    BY NoConnAssumption, EventsAssumption
    DEF on_connect, UsesAgent, Crash, TypeOK, NetInv, SessionInv, Busy, Idle, Disconnecting,
       agent, strophe, cbs, traffic, history
  <1> QED
    BY <1>1, <1>2, <1>3, <1>4

LEMMA EraseStep ==
  ASSUME Inductive, erase_iter
  PROVE  Inductive'
  <1> USE DEF Inductive
  <1>1. TypeOK'
    BY DEF erase_iter, Crash, TypeOK, Idle, Events, agent, strophe, cbs, traffic, history
  <1>2. RequestsInv'
    BY EventsAssumption, KindsAssumption
    DEF erase_iter, Crash, TypeOK, RequestsInv, NetInv, Busy, Requests, agent, strophe, cbs,
       traffic, history
  <1>3. NetInv'
    BY DEF erase_iter, Crash, TypeOK, RequestsInv, NetInv, Busy, Idle, agent, strophe, cbs,
       traffic, history
  <1>4. (overtaken \/ SessionInv)'
    BY NoConnAssumption, EventsAssumption
    DEF erase_iter, Crash, TypeOK, NetInv, SessionInv, Busy, Idle, Disconnecting, agent,
       strophe, cbs, traffic, history
  <1> QED
    BY <1>1, <1>2, <1>3, <1>4

LEMMA OnDisconnectStep ==
  ASSUME Inductive, on_disconnect
  PROVE  Inductive'
  <1> USE DEF Inductive
  <1>1. TypeOK'
    BY DEF on_disconnect, UsesAgent, Crash, TypeOK, Idle, Events, agent, strophe, cbs,
       traffic, history
  <1>2. RequestsInv'
    BY EventsAssumption, KindsAssumption
    DEF on_disconnect, UsesAgent, Crash, TypeOK, RequestsInv, NetInv, Busy, Requests, agent,
       strophe, cbs, traffic, history
  <1>3. NetInv'
    BY DEF on_disconnect, UsesAgent, Crash, TypeOK, RequestsInv, NetInv, Busy, Idle, agent,
       strophe, cbs, traffic, history
  <1>4. (overtaken \/ SessionInv)'
    BY NoConnAssumption, EventsAssumption
    DEF on_disconnect, UsesAgent, Crash, TypeOK, NetInv, SessionInv, Busy, Idle,
       Disconnecting, agent, strophe, cbs, traffic, history
  <1> QED
    BY <1>1, <1>2, <1>3, <1>4

LEMMA StanzaStep ==
  ASSUME Inductive, cb_stanza
  PROVE  Inductive'
  <1> USE DEF Inductive
  <1>1. TypeOK'
    BY DEF cb_stanza, UsesAgent, Crash, HandledOnce, TypeOK, Idle, Events, agent, strophe,
       cbs, traffic, history
  <1>2. RequestsInv'
    BY EventsAssumption, KindsAssumption
    DEF cb_stanza, UsesAgent, Crash, HandledOnce, TypeOK, RequestsInv, NetInv, Busy,
       Requests, agent, strophe, cbs, traffic, history
  <1>3. NetInv'
    BY DEF cb_stanza, UsesAgent, Crash, HandledOnce, TypeOK, RequestsInv, NetInv, Busy,
       Idle, agent, strophe, cbs, traffic, history
  <1>4. (overtaken \/ SessionInv)'
    BY NoConnAssumption, EventsAssumption
    DEF cb_stanza, UsesAgent, Crash, HandledOnce, TypeOK, NetInv, SessionInv, Busy, Idle,
       Disconnecting, agent, strophe, cbs, traffic, history
  <1> QED
    BY <1>1, <1>2, <1>3, <1>4

LEMMA ConnectedStep ==
  ASSUME Inductive, NEW c \in Conns, connected(c)
  PROVE  Inductive'
  <1> USE DEF Inductive
  <1>1. TypeOK'
    BY DEF connected, lookup, TypeOK, Idle, Events, agent, strophe, cbs, traffic, history
  <1>2. RequestsInv'
    BY EventsAssumption, KindsAssumption
    DEF connected, lookup, TypeOK, RequestsInv, NetInv, Busy, Requests, agent, strophe, cbs,
       traffic, history
  <1>3. NetInv'
    BY DEF connected, lookup, TypeOK, RequestsInv, NetInv, Busy, Idle, agent, strophe, cbs,
       traffic, history
  <1>4. (overtaken \/ SessionInv)'
    BY NoConnAssumption, EventsAssumption
    DEF connected, lookup, TypeOK, NetInv, SessionInv, Busy, Idle, Disconnecting, agent,
       strophe, cbs, traffic, history
  <1> QED
    BY <1>1, <1>2, <1>3, <1>4

LEMMA DisconnectedStep ==
  ASSUME Inductive, NEW c \in Conns, disconnected(c)
  PROVE  Inductive'
  <1> USE DEF Inductive
  <1>1. TypeOK'
    BY DEF disconnected, lookup, TypeOK, Idle, Events, agent, strophe, cbs, traffic, history
  <1>2. RequestsInv'
    BY EventsAssumption, KindsAssumption
    DEF disconnected, lookup, TypeOK, RequestsInv, NetInv, Busy, Requests, agent, strophe,
       cbs, traffic, history
  <1>3. NetInv'
    BY DEF disconnected, lookup, TypeOK, RequestsInv, NetInv, Busy, Idle, agent, strophe,
       cbs, traffic, history
  <1>4. (overtaken \/ SessionInv)'
    BY NoConnAssumption, EventsAssumption
    DEF disconnected, lookup, TypeOK, NetInv, SessionInv, Busy, Idle, Disconnecting, agent,
       strophe, cbs, traffic, history
  <1> QED
    BY <1>1, <1>2, <1>3, <1>4

LEMMA ReceiveStep ==
  ASSUME Inductive, NEW r \in Requests, receive(r)
  PROVE  Inductive'
  <1> USE DEF Inductive
  <1>1. TypeOK'
    <2>1. replies' \in [Requests -> 0 .. MaxReplies]
      BY RepliesAssumption DEF receive, TypeOK
    <2>2. net' \in [at : {"idle", "found", "erased", "crashed"}, c : Conns \cup {NoConn},
                    ev : Events \cup {"none"}]
      BY DEF receive, lookup, TypeOK, Idle, Events
    <2> QED
      BY <2>1, <2>2 DEF receive, TypeOK, agent, strophe, cbs, history
  <1>2. RequestsInv'
    BY EventsAssumption, KindsAssumption
    DEF receive, lookup, TypeOK, RequestsInv, NetInv, Busy, Requests, agent, strophe, cbs,
       traffic, history
  <1>3. NetInv'
    BY DEF receive, lookup, TypeOK, RequestsInv, NetInv, Busy, Idle, agent, strophe, cbs,
       traffic, history
  <1>4. (overtaken \/ SessionInv)'
    <2> SUFFICES ASSUME SessionInv PROVE SessionInv'
      BY DEF receive, history
    <2>1. net = Idle /\ ~Busy /\ ~Disconnecting /\ app # "crashed"
      BY DEF receive, Idle, Busy, Disconnecting, NetInv
    <2>2. r # "disconnect" /\ ~Disconnecting'
      BY EventsAssumption DEF receive, lookup, Idle, Disconnecting, Requests
    <2>3. Busy' => app = "in" /\ net'.c = session /\ net'.ev # "disconnect"
      BY <2>1, <2>2 DEF receive, lookup, Idle, Busy, SessionInv
    <2> QED
      BY <2>1, <2>2, <2>3 DEF receive, SessionInv, agent, strophe, history
  <1> QED
    BY <1>1, <1>2, <1>3, <1>4

LEMMA StutterStep == Inductive /\ UNCHANGED vars => Inductive'
  BY DEF Inductive, TypeOK, RequestsInv, NetInv, SessionInv, Busy, Idle, Disconnecting,
     vars, agent, strophe, cbs, traffic, history

(* Inductive is an invariant of the user agent. *)
THEOREM InductiveHolds == Spec => []Inductive
  <1>1. Inductive /\ [Next]_vars => Inductive'
    BY LoginStep, RegisterStep, LogoutStep, ClearStep, DeleteStep, HandlerAddStep, SendStep,
       OnConnectStep, EraseStep, OnDisconnectStep, StanzaStep, ConnectedStep,
       DisconnectedStep, ReceiveStep, StutterStep
    DEF Next, Application, Callback, Network, Stopped
  <1> QED
    BY <1>1, InductiveInit, PTL DEF Spec

(* zkxmpp_ua.h:37, zkxmpp_ua.cpp:101: however often the server replies,    *)
(* the handler of a query is called once, and no reply is too early.       *)
THEOREM AnsweredOnceHolds == Spec => []AnsweredOnce
  <1>1. Inductive => AnsweredOnce
    BY DEF Inductive, TypeOK, RequestsInv, AnsweredOnce, Requests
  <1> QED
    BY <1>1, InductiveHolds, PTL

(* zkxmpp_ua.cpp:94, 238, 264, 333: a callback meets a deleted agent, an   *)
(* erased entry or no connection only when a logout or a login fell into   *)
(* its gap; the application meets no connection only when it was lost.     *)
THEOREM CrashOnlyRacedHolds == Spec => []CrashOnlyRaced
  <1>1. Inductive => CrashOnlyRaced
    BY DEF Inductive, SessionInv, CrashOnlyRaced
  <1> QED
    BY <1>1, InductiveHolds, PTL

(* zkxmpp_ua.cpp:506, 344: _conn_map and conn agree on the connection of   *)
(* the session until it is lost or a login overtakes a disconnect.         *)
THEOREM SessionAgreesHolds == Spec => []SessionAgrees
  <1>1. Inductive => SessionAgrees
    BY DEF Inductive, SessionInv, SessionAgrees, Disconnecting, Idle
  <1> QED
    BY <1>1, InductiveHolds, PTL
=============================================================================
