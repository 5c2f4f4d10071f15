----------------------------- MODULE UserAgent -----------------------------
(***************************************************************************)
(* The XMPP user agent of the clients (xmpp/zkxmpp_ua.cpp): login, logout, *)
(* queries with one-shot id handlers and MSE commands, from the thread of  *)
(* the application, against the callbacks of the libstrophe thread.        *)
(*                                                                         *)
(* Two mutexes: _mutex_4_conn for _conn_map and mutex_4_ua for the agent.  *)
(* Neither is held from one critical section to the next, so a critical    *)
(* section, with the callbacks it makes, is one step; what another thread  *)
(* may do in between is where the hazards are.  libstrophe itself is       *)
(* external: a connection is made, comes up or not, and goes down.         *)
(*                                                                         *)
(* The application logs in once at a time, deletes the agent after a       *)
(* logout or a lost connection, and never calls login, logout or delete    *)
(* from a callback.                                                        *)
(***************************************************************************)
EXTENDS Naturals

CONSTANTS
  Conns,      \* connections, a new one for every login
  NoConn,
  Queries,    \* iq stanzas with an id handler, each with an id of its own
  Commands,   \* MSE commands, each with an id of its own
  MaxReplies  \* bound on the replies a server sends to one request

ASSUME NoConnAssumption == NoConn \notin Conns
ASSUME KindsAssumption == Queries \cap Commands = {}
ASSUME EventsAssumption ==
  {"connect", "disconnect", "none"} \cap (Queries \cup Commands) = {}
ASSUME RepliesAssumption == MaxReplies \in Nat

Requests == Queries \cup Commands
Events   == {"connect", "disconnect"} \cup Requests

VARIABLES
  conn,       \* ua->conn
  conn_map,   \* the connections in _conn_map
  phase,      \* phase[c]: "none", "connecting", "up" or "down"
  handlers,   \* the connections that have the three stanza handlers
  id_cb_map, mse_map,  \* the ids in them
  app,        \* the application: "out", "login", "in", "logout", "gone" (it has
              \* deleted the agent); "crashed" by a callback, "failed" by itself
  asking,     \* the request it has registered and not yet sent, at most one
  asked,      \* ids that have been given out
  replies,    \* replies[r]: how many are still to come, on wire[r]
  wire,
  net,        \* the libstrophe thread: where it is, with which connection and event
  session,    \* history: the connection of the last login
  told,       \* history: connections whose handlers have been told of the connect
  raced,      \* history: connections logged out while one of their callbacks ran
  overtaken,  \* history: a login began while a disconnect was being handled
  calls,      \* history: calls[r]: calls of the handler of r
  unhandled   \* history: requests whose reply found no handler before any call

agent   == <<conn, conn_map>>
strophe == <<phase, handlers>>
cbs     == <<id_cb_map, mse_map, calls, unhandled>>
traffic == <<asking, asked, replies, wire>>
history == <<session, told, raced, overtaken>>
vars == <<agent, strophe, cbs, traffic, app, net, history>>

Idle == [at |-> "idle", c |-> NoConn, ev |-> "none"]

TypeOK ==
  /\ conn \in Conns \cup {NoConn}
  /\ conn_map \in SUBSET (Conns \cup {NoConn})
  /\ phase \in [Conns -> {"none", "connecting", "up", "down"}]
  /\ handlers \in SUBSET Conns
  /\ id_cb_map \in SUBSET Queries /\ mse_map \in SUBSET Commands
  /\ app \in {"out", "login", "in", "logout", "gone", "crashed", "failed"}
  /\ asking \in SUBSET Requests /\ asked \in SUBSET Requests
  /\ replies \in [Requests -> 0 .. MaxReplies]
  /\ wire \in [Requests -> Conns \cup {NoConn}]
  /\ net \in [at : {"idle", "found", "erased", "crashed"}, c : Conns \cup {NoConn},
              ev : Events \cup {"none"}]
  /\ overtaken \in BOOLEAN
  /\ session \in Conns \cup {NoConn}
  /\ told \in SUBSET Conns /\ raced \in SUBSET Conns
  /\ calls \in [Requests -> Nat]
  /\ unhandled \in SUBSET Requests

Init ==
  /\ conn = NoConn /\ conn_map = {}
  /\ phase = [c \in Conns |-> "none"] /\ handlers = {}
  /\ id_cb_map = {} /\ mse_map = {}
  /\ app = "out"
  /\ asking = {} /\ asked = {}
  /\ replies = [r \in Requests |-> 0] /\ wire = [r \in Requests |-> NoConn]
  /\ net = Idle
  /\ session = NoConn /\ told = {} /\ raced = {} /\ overtaken = FALSE
  /\ calls = [r \in Requests |-> 0] /\ unhandled = {}

-----------------------------------------------------------------------------
(* The application. *)

Disconnecting == net.at # "idle" /\ net.ev = "disconnect"

(* xmpp_ua_login: under mutex_4_ua the connection is made.  When that      *)
(* fails it is released, but conn keeps it.                                *)
login(c) ==
  /\ app = "out" /\ phase[c] = "none"
  /\ conn' = c
  /\ \/ phase' = [phase EXCEPT ![c] = "connecting"] /\ app' = "login" /\ session' = c
     \/ phase' = [phase EXCEPT ![c] = "down"] /\ UNCHANGED <<app, session>>
  /\ overtaken' = (overtaken \/ Disconnecting)
  /\ UNCHANGED <<conn_map, handlers, cbs, traffic, net, told, raced>>

(* The entry is left to the connect event. *)
register_conn_later ==
  /\ app = "login"
  /\ app' = "in"
  /\ UNCHANGED <<agent, strophe, cbs, traffic, net, history>>

(* Then, under _mutex_4_conn, what conn is by now is entered in _conn_map. *)
register_conn ==
  /\ app = "login"
  /\ conn_map' = conn_map \cup {conn}
  /\ app' = "in"
  /\ UNCHANGED <<conn, strophe, cbs, traffic, net, history>>

(* The process ends, in the thread that a names. *)
Crash(a) == app' = a /\ net' = [net EXCEPT !.at = "crashed"]

LogoutLeaves == <<conn, strophe, cbs, traffic, session, told, overtaken>>

(* xmpp_ua_logout that leaves the entry to the disconnect event. *)
logout_no_erase ==
  /\ app = "in" /\ asking = {}
  /\ app' = (IF conn \in conn_map THEN "logout" ELSE "out") /\ UNCHANGED net
  /\ raced' = raced \cup ({net.c} \ {NoConn})
  /\ UNCHANGED <<conn_map, LogoutLeaves>>

(* xmpp_ua_logout, under _mutex_4_conn: xmpp_disconnect begins to close    *)
(* the connection (there must be one); one that is not in _conn_map is     *)
(* left alone.                                                             *)
logout ==
  /\ app = "in" /\ asking = {}
  /\ IF conn \notin conn_map THEN app' = "out" /\ UNCHANGED net
     ELSE IF conn # NoConn THEN app' = "logout" /\ UNCHANGED net
     ELSE Crash("failed")
  /\ conn_map' = conn_map \ {conn}
  /\ raced' = raced \cup ({net.c} \ {NoConn})
  /\ UNCHANGED LogoutLeaves

(* Then, under mutex_4_ua, conn is cleared. *)
clear_conn ==
  /\ app = "logout"
  /\ conn' = NoConn
  /\ app' = "out"
  /\ UNCHANGED <<conn_map, strophe, cbs, traffic, net, history>>

(* xmpp_ua_delete, which takes no mutex. *)
delete ==
  /\ app = "out"
  /\ app' = "gone"
  /\ UNCHANGED <<agent, strophe, cbs, traffic, net, history>>

(* A request with a new id is entered: in id_cb_map, by                    *)
(* xmpp_ua_id_handler_add, or in mse_map, by xmpp_ua_mse_send_cmd.         *)
registers(r) ==
  /\ asking' = {r} /\ asked' = asked \cup {r}
  /\ id_cb_map' = id_cb_map \cup ({r} \cap Queries)
  /\ mse_map' = mse_map \cup ({r} \cap Commands)
  /\ UNCHANGED <<app, net>>

(* The first half of a request.  The id of a query is made of the jid of   *)
(* conn, which xmpp_ua_get_unique_string reads with no mutex and no check; *)
(* the id of an MSE command is a number.                                   *)
handler_add(r) ==
  /\ app = "in" /\ asking = {} /\ r \notin asked
  /\ IF r \in Queries /\ conn = NoConn
     THEN Crash("failed") /\ UNCHANGED <<asking, asked, id_cb_map, mse_map>>
     ELSE registers(r)
  /\ UNCHANGED <<agent, strophe, calls, unhandled, replies, wire, history>>

(* xmpp_ua_send; it fails without a connection, and the entry stays. *)
send(r) ==
  /\ r \in asking
  /\ asking' = {}
  /\ IF conn = NoConn THEN UNCHANGED <<replies, wire>>
     ELSE /\ replies' = [replies EXCEPT ![r] = MaxReplies]
          /\ wire' = [wire EXCEPT ![r] = conn]
  /\ UNCHANGED <<agent, strophe, cbs, asked, app, net, history>>

-----------------------------------------------------------------------------
(* The libstrophe thread. *)

(* Every callback first looks its connection up, under _mutex_4_conn, and  *)
(* returns if it is not there.                                             *)
lookup(c, ev) ==
  net' = IF c \in conn_map THEN [at |-> "found", c |-> c, ev |-> ev] ELSE Idle

(* libstrophe's part of a connection's life. *)
connected(c) ==
  /\ net = Idle
  /\ phase[c] = "connecting"
  /\ phase' = [phase EXCEPT ![c] = "up"]
  /\ lookup(c, "connect")
  /\ UNCHANGED <<agent, handlers, cbs, traffic, app, history>>

disconnected(c) ==
  /\ net = Idle
  /\ phase[c] \in {"connecting", "up"}
  /\ phase' = [phase EXCEPT ![c] = "down"]
  /\ lookup(c, "disconnect")
  /\ UNCHANGED <<agent, handlers, cbs, traffic, app, history>>

(* A reply to r arrives; no handler of the connection, nobody to call. *)
receive(r) ==
  LET c == wire[r] IN
  /\ net = Idle
  /\ replies[r] > 0 /\ phase[c] = "up" /\ c \in handlers
  /\ replies' = [replies EXCEPT ![r] = @ - 1]
  /\ lookup(c, r)
  /\ UNCHANGED <<agent, strophe, cbs, asking, asked, wire, app, history>>

(* The rest of a callback uses the agent, which may have been deleted, and *)
(* leaves the application in state a.                                      *)
UsesAgent(a) == IF app = "gone" THEN Crash("crashed") ELSE app' = a /\ net' = Idle

(* _on_xmpp_conn, connect, without the loop over the handlers. *)
on_connect_silent ==
  /\ net.at = "found" /\ net.ev = "connect"
  /\ handlers' = handlers \cup {net.c}
  /\ UsesAgent(app)
  /\ UNCHANGED <<agent, phase, cbs, traffic, history>>

(* _on_xmpp_conn, connect: the stanza handlers are added and, under        *)
(* mutex_4_ua, the connection handlers told.                               *)
on_connect ==
  /\ net.at = "found" /\ net.ev = "connect"
  /\ handlers' = handlers \cup {net.c}
  /\ told' = told \cup {net.c}
  /\ UsesAgent(app)
  /\ UNCHANGED <<agent, phase, cbs, traffic, session, raced, overtaken>>

(* _on_xmpp_conn, disconnect: under _mutex_4_conn again, the iterator of   *)
(* the lookup is erased, which is undefined if logout has erased it.       *)
erase_iter ==
  /\ net.at = "found" /\ net.ev = "disconnect"
  /\ conn_map' = conn_map \ {net.c}
  /\ \/ net' = [net EXCEPT !.at = "erased"] /\ UNCHANGED app
     \/ net.c \notin conn_map /\ Crash("crashed")
  /\ UNCHANGED <<conn, strophe, cbs, traffic, history>>

(* Then, under mutex_4_ua, the handlers are told and conn is cleared,      *)
(* whichever connection it is by now.  An application that is logged in    *)
(* hears of it and may log in again, or has not taken it in yet.           *)
on_disconnect ==
  /\ net.at = "erased"
  /\ conn' = NoConn
  /\ \/ UsesAgent(app)
     \/ app = "in" /\ session = net.c /\ asking = {} /\ UsesAgent("out")
  /\ UNCHANGED <<conn_map, strophe, cbs, traffic, history>>

(* An id handler that stays after its call. *)
HandledOnce_kept(r) == UNCHANGED id_cb_map

(* An id handler is erased after its call; an MSE command stays. *)
HandledOnce(r) == id_cb_map' = id_cb_map \ {r}

(* _cb_iq, _cb_mesage and _cb_presence, under mutex_4_ua: the handler of   *)
(* the id; for an AckCmd the first handler of messages,                    *)
(* _zkmse_receive_rsp.  An iq whose id is no longer known is for the iq    *)
(* handlers of the application, or else refused with an error that _cb_iq  *)
(* sends through conn, with no check.                                      *)
cb_stanza ==
  LET r == net.ev IN
  /\ net.at = "found" /\ r \in Requests
  /\ IF r \in id_cb_map \cup mse_map
     THEN /\ calls' = [calls EXCEPT ![r] = @ + 1]
          /\ HandledOnce(r)
          /\ UNCHANGED unhandled
     ELSE /\ unhandled' = IF calls[r] = 0 THEN unhandled \cup {r} ELSE unhandled
          /\ UNCHANGED <<calls, id_cb_map>>
  /\ \/ UsesAgent(app)
     \/ r \in Queries \ id_cb_map /\ conn = NoConn /\ Crash("crashed")
  /\ UNCHANGED <<agent, strophe, mse_map, traffic, history>>

-----------------------------------------------------------------------------
Application ==
  \/ \E c \in Conns : login(c)
  \/ register_conn \/ logout \/ clear_conn \/ delete
  \/ \E r \in Requests : handler_add(r) \/ send(r)

Callback == on_connect \/ erase_iter \/ on_disconnect \/ cb_stanza

Network ==
  \/ \E c \in Conns : connected(c) \/ disconnected(c)
  \/ \E r \in Requests : receive(r)

(* The process has crashed, or the agent is deleted and no callback runs. *)
Stopped == (app \in {"crashed", "failed"} \/ (app = "gone" /\ net = Idle)) /\ UNCHANGED vars

Next == Application \/ Callback \/ Network \/ Stopped

Spec == Init /\ [][Next]_vars

(* libstrophe's thread runs, and every attempt to connect ends; requests   *)
(* and logouts are up to the application.                                  *)
FairSpec ==
  /\ Spec
  /\ WF_vars(Callback)
  /\ \A c \in Conns : WF_vars(phase[c] = "connecting" /\ (connected(c) \/ disconnected(c)))

-----------------------------------------------------------------------------
Busy == net.at \in {"found", "erased"}

(* Requests: one whose id has been given out is in its map, or is a query  *)
(* whose handler has been called, and no reply comes before the request is *)
(* sent.                                                                   *)
RequestsInv ==
  /\ id_cb_map \cup mse_map \cup asking \subseteq asked
  /\ unhandled = {}
  /\ \A r \in Requests \ asked : calls[r] = 0 /\ replies[r] = 0
  /\ \A r \in Commands : r \in asked => r \in mse_map
  /\ \A r \in Queries : r \in asked => calls[r] = (IF r \in id_cb_map THEN 0 ELSE 1)

NetInv ==
  /\ Busy => net.c \in Conns /\ net.ev \in {"connect", "disconnect"} \cup asked
  /\ net.at = "idle" => net = Idle
  /\ net.at = "erased" => net.ev = "disconnect"
  /\ Busy /\ net.ev # "disconnect" => phase[net.c] = "up"
  /\ net.at = "crashed" <=> app \in {"crashed", "failed"}

(* Connections, as long as no login has overtaken the handling of a        *)
(* disconnect: only that of the session is in _conn_map or, unless a       *)
(* logout raced it, in the hands of a callback; it is conn until it is     *)
(* lost, and it leaves _conn_map only by a logout or its disconnect event. *)
SessionInv ==
  /\ conn_map \subseteq {session} /\ conn_map \subseteq Conns
  /\ conn_map # {} => app \in {"in", "crashed"}
  /\ app \in {"login", "in"} => session \in Conns
  /\ app = "login" => conn = session
  /\ app = "in" => conn = session \/ (conn = NoConn /\ conn_map = {})
  /\ app = "in" /\ ~Disconnecting /\ phase[session] # "down" =>
       conn = session /\ session \in conn_map
  /\ Busy => net.c \in raced \/ (app = "in" /\ net.c = session)
  /\ Busy /\ net.ev = "disconnect" =>
       /\ phase[net.c] = "down"
       /\ app \in {"login", "in"} => app = "in" /\ net.c = session
       /\ net.at = "found" => net.c \in raced \cup conn_map
       /\ net.at = "erased" => conn_map = {}
  /\ app = "crashed" => net.c \in raced
  /\ app = "failed" => phase[session] = "down"

(* The inductive invariant. *)
Inductive == TypeOK /\ RequestsInv /\ NetInv /\ (overtaken \/ SessionInv)

(* zkxmpp_ua.h:37, "removed automatically after being handled": however    *)
(* often the server replies, the handler of a query is called once; and a  *)
(* reply never comes before its handler or command is known, however       *)
(* quick.                                                                  *)
AnsweredOnce ==
  /\ \A q \in Queries : calls[q] <= 1
  /\ unhandled = {}

(* A callback uses a deleted agent, erases an entry that is gone or sends  *)
(* through a connection that is gone, only when a logout fell between its  *)
(* lookup and its end, or a login fell into the handling of a disconnect:  *)
(* never otherwise, for a logout takes the connection out of the reach of  *)
(* later callbacks.  The application itself uses a connection that is gone *)
(* only when that of its session has been lost, or by the same overtaking. *)
CrashOnlyRaced ==
  /\ app = "crashed" => net.c \in raced \/ overtaken
  /\ app = "failed" => phase[session] = "down" \/ overtaken

(* While the application is logged in and its connection has not been      *)
(* lost, _conn_map leads from the connection to the agent and conn from    *)
(* the agent to the connection: only a disconnect of an earlier connection *)
(* that is still being handled at login clears the new one.                *)
SessionAgrees ==
  app = "in" /\ net = Idle /\ phase[session] \in {"connecting", "up"} =>
    overtaken \/ (session \in conn_map /\ conn = session)

(* A login has its handlers told of its connection, unless this fails or   *)
(* is lost, is logged out first, or comes up before xmpp_ua_login has      *)
(* registered it (or, overtaken, has registered nothing): the connect      *)
(* event then finds no entry and is dropped for good.                      *)
ConnectTold ==
  \A c \in Conns :
    session = c /\ phase[c] = "connecting" ~>
      \/ c \in told
      \/ phase[c] = "down" \/ session # c \/ app \notin {"login", "in"}
      \/ phase[c] = "up" /\ app = "login"
      \/ overtaken /\ c \notin conn_map
=============================================================================
