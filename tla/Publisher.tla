----------------------------- MODULE Publisher -----------------------------
(***************************************************************************)
(* The ZonekeyPublisher filter (zonekey_publisher/zonekey.publisher.cpp):  *)
(* it copies every packet of its input to the RtpSession of each receiver, *)
(* and receivers are added and removed while the graph keeps running.      *)
(*                                                                         *)
(* Two threads touch a publisher.  The control thread (an XMPP command or  *)
(* Server::run, one at a time under cs_conferences_) calls add_remote and  *)
(* del_remote and destroys the Sink that owns the session.  The ticker     *)
(* thread calls process().  The lists rtp_sessions_ and pendings_ have a   *)
(* mutex each; a step below is one critical section, except that           *)
(* chk_pendings, which keeps cs_pendings_ for a whole pass and takes       *)
(* cs_rtp_sessions_ once per promoted receiver, is several steps.          *)
(*                                                                         *)
(* A session stands for one RtpSession object, created once and destroyed  *)
(* once.  rtp_sessions_ is abstracted to the number of times each session  *)
(* occurs in it: its order never matters.                                  *)
(***************************************************************************)
EXTENDS Naturals

CONSTANTS
  Sessions,   \* the RtpSession objects of the sinks of one publisher
  MaxBurst    \* bound on the packets one tick finds in inputs[0]

ASSUME MaxBurstAssumption == MaxBurst \in Nat \ {0}

VARIABLES
  life,      \* life[rs]: the Sink that owns rs: "new", "live" or "dead" (freed)
  sending,   \* sending[rs]: occurrences of rs in rtp_sessions_
  pendings,  \* the sessions that have a PendingRS in pendings_
  ports,     \* ports[rs]: which of client_rtp_port, client_rtcp_port are known
  arrived,   \* arrived[rs]: sockets of rs that hold a datagram of the client
  tpc,       \* where the ticker is in process()
  todo,      \* PendingRS the for_each of chk_pendings has still to visit
  inq,       \* packets left in inputs[0]
  cpc, cur,  \* where the control thread is in the removal of session cur
  erased,    \* history: sessions del_remote found in rtp_sessions_
  attached   \* the filter exists and its ticker runs it

vars == <<life, sending, pendings, ports, arrived, tpc, todo, inq, cpc, cur,
          erased, attached>>

ctl    == <<life, cpc, cur, erased>>
lists  == <<sending, pendings, ports>>
ticker == <<tpc, todo, inq>>

Port == {"rtp", "rtcp"}

(* op_chk_recved: both client ports are known. *)
op_chk_recved(ps) == ps = Port

(* cs_pendings_ is held by the ticker for the whole of chk_pendings. *)
cs_pendings_free == tpc \notin {"try_recv", "erase"}

TypeOK ==
  /\ life \in [Sessions -> {"new", "live", "dead"}]
  /\ sending \in [Sessions -> Nat]
  /\ pendings \in SUBSET Sessions
  /\ ports \in [Sessions -> SUBSET Port]
  /\ arrived \in [Sessions -> SUBSET Port]
  /\ tpc \in {"idle", "dispatch", "try_recv", "erase"}
  /\ todo \in SUBSET Sessions
  /\ inq \in 0 .. MaxBurst
  /\ cpc \in {"idle", "pending", "free"}
  /\ cur \in Sessions
  /\ erased \in SUBSET Sessions
  /\ attached \in BOOLEAN

Init ==
  /\ life = [rs \in Sessions |-> "new"]
  /\ sending = [rs \in Sessions |-> 0]
  /\ pendings = {}
  /\ ports = [rs \in Sessions |-> {}]
  /\ arrived = [rs \in Sessions |-> {}]
  /\ tpc = "idle"
  /\ todo = {}
  /\ inq = 0
  /\ cpc = "idle"
  /\ cur \in Sessions
  /\ erased = {}
  /\ attached = TRUE

-----------------------------------------------------------------------------
(* The control thread. *)

(* add_remote for a session whose remote address is not set: it waits in   *)
(* pendings_ until the client is heard of.                                 *)
add_remote_pending(rs) ==
  /\ cpc = "idle" /\ attached /\ life[rs] = "new"
  /\ cs_pendings_free
  /\ life' = [life EXCEPT ![rs] = "live"]
  /\ pendings' = pendings \cup {rs}
  /\ ports' = [ports EXCEPT ![rs] = {}]
  /\ UNCHANGED <<sending, arrived, ticker, cpc, cur, erased, attached>>

(* add_remote for a session whose remote address is set already. *)
add_remote_sending(rs) ==
  /\ cpc = "idle" /\ attached /\ life[rs] = "new"
  /\ life' = [life EXCEPT ![rs] = "live"]
  /\ sending' = [sending EXCEPT ![rs] = @ + 1]
  /\ UNCHANGED <<pendings, ports, arrived, ticker, cpc, cur, erased, attached>>

(* The first block erasing from the place it found to the end of the list. *)
del_remote_sending_tail(rs) ==
  /\ cpc = "idle" /\ attached /\ life[rs] = "live"
  /\ cpc' = "pending"
  /\ cur' = rs
  /\ \E S \in SUBSET Sessions :
       sending' = [s \in Sessions |-> IF s \in S \cup {rs} THEN 0 ELSE sending[s]]
  /\ erased' = IF sending[rs] > 0 THEN erased \cup {rs} ELSE erased
  /\ UNCHANGED <<life, pendings, ports, arrived, ticker, attached>>

(* The first block without erasing what it found. *)
del_remote_sending_no_erase(rs) ==
  /\ cpc = "idle" /\ attached /\ life[rs] = "live"
  /\ cpc' = "pending"
  /\ cur' = rs
  /\ erased' = IF sending[rs] > 0 THEN erased \cup {rs} ELSE erased
  /\ UNCHANGED <<life, lists, arrived, ticker, attached>>

(* The first block of del_remote: erase rs from the sending list. *)
del_remote_sending(rs) ==
  /\ cpc = "idle" /\ attached /\ life[rs] = "live"
  /\ cpc' = "pending"
  /\ cur' = rs
  /\ sending' = [sending EXCEPT ![rs] = IF @ > 0 THEN @ - 1 ELSE @]
  /\ erased' = IF sending[rs] > 0 THEN erased \cup {rs} ELSE erased
  /\ UNCHANGED <<life, pendings, ports, arrived, ticker, attached>>

(* The second block without cs_pendings_. *)
del_remote_pending_unlocked ==
  /\ cpc = "pending"
  /\ pendings' = pendings \ {cur}
  /\ cpc' = "free"
  /\ UNCHANGED <<life, sending, ports, arrived, ticker, cur, erased, attached>>

(* The second block of del_remote: erase rs from the pending list. *)
del_remote_pending ==
  /\ cpc = "pending"
  /\ cs_pendings_free
  /\ pendings' = pendings \ {cur}
  /\ cpc' = "free"
  /\ UNCHANGED <<life, sending, ports, arrived, ticker, cur, erased, attached>>

(* delete sink, after del_sink: the Sink destroys its RtpSession. *)
free_sink ==
  /\ cpc = "free"
  /\ life' = [life EXCEPT ![cur] = "dead"]
  /\ cpc' = "idle"
  /\ UNCHANGED <<lists, arrived, ticker, cur, erased, attached>>

(* The Graph (or Stream) that owns the publisher is deleted: the ticker is *)
(* detached, which waits for the end of its pass, and the filter is        *)
(* destroyed with both lists.  The sinks stay.                             *)
uninit ==
  /\ cpc = "idle" /\ attached /\ tpc = "idle"
  /\ attached' = FALSE
  /\ sending' = [rs \in Sessions |-> 0]
  /\ pendings' = {}
  /\ UNCHANGED <<ctl, ports, arrived, ticker>>

(* A sink whose graph is gone: del_sink finds no graph that has it. *)
free_orphan_sink(rs) ==
  /\ cpc = "idle" /\ ~attached /\ life[rs] = "live"
  /\ life' = [life EXCEPT ![rs] = "dead"]
  /\ UNCHANGED <<lists, arrived, ticker, cpc, cur, erased, attached>>

-----------------------------------------------------------------------------
(* The ticker thread.  process() runs only when inputs[0] holds packets.   *)

process_begin ==
  /\ attached /\ tpc = "idle"
  /\ inq' \in 1 .. MaxBurst
  /\ tpc' = "dispatch"
  /\ UNCHANGED <<ctl, lists, arrived, todo, attached>>

(* dispatch_all: one packet to every session of rtp_sessions_. *)
dispatch_all ==
  /\ tpc = "dispatch" /\ inq > 0
  /\ inq' = inq - 1
  /\ UNCHANGED <<ctl, lists, arrived, tpc, todo, attached>>

(* chk_pendings takes cs_pendings_. *)
chk_pendings ==
  /\ tpc = "dispatch" /\ inq = 0
  /\ tpc' = "try_recv"
  /\ todo' = pendings
  /\ UNCHANGED <<ctl, lists, arrived, inq, attached>>

(* TryRecv that promotes as soon as one port is known. *)
TryRecv_any_port(rs) ==
  /\ tpc = "try_recv" /\ rs \in todo
  /\ todo' = todo \ {rs}
  /\ ports' = [ports EXCEPT ![rs] = @ \cup arrived[rs]]
  /\ sending' = [sending EXCEPT ![rs] = IF ports'[rs] # {} THEN @ + 1 ELSE @]
  /\ UNCHANGED <<ctl, pendings, arrived, tpc, inq, attached>>

(* TryRecv on one PendingRS: peek at both sockets, and promote rs to the   *)
(* sending list when both client ports are known.                          *)
TryRecv(rs) ==
  /\ tpc = "try_recv" /\ rs \in todo
  /\ todo' = todo \ {rs}
  /\ ports' = [ports EXCEPT ![rs] = @ \cup arrived[rs]]
  /\ sending' = [sending EXCEPT ![rs] =
                   IF op_chk_recved(ports'[rs]) THEN @ + 1 ELSE @]
  /\ UNCHANGED <<ctl, pendings, arrived, tpc, inq, attached>>

try_recv_end ==
  /\ tpc = "try_recv" /\ todo = {}
  /\ tpc' = "erase"
  /\ UNCHANGED <<ctl, lists, arrived, todo, inq, attached>>

(* The pass ends without erasing the promoted PendingRS. *)
erase_recved_nothing ==
  /\ tpc = "erase"
  /\ tpc' = "idle"
  /\ UNCHANGED <<ctl, lists, arrived, todo, inq, attached>>

(* The pass erases every PendingRS that has only heard of one port. *)
erase_recved_any ==
  /\ tpc = "erase"
  /\ pendings' = {rs \in pendings : ports[rs] = {}}
  /\ tpc' = "idle"
  /\ UNCHANGED <<ctl, sending, ports, arrived, todo, inq, attached>>

(* The remove_if at the end of chk_pendings; cs_pendings_ is released. *)
erase_recved ==
  /\ tpc = "erase"
  /\ pendings' = {rs \in pendings : ~op_chk_recved(ports[rs])}
  /\ tpc' = "idle"
  /\ UNCHANGED <<ctl, sending, ports, arrived, todo, inq, attached>>

-----------------------------------------------------------------------------
(* The client sends a hole-punching datagram to one socket of rs.  It is   *)
(* peeked at with MSG_PEEK, so it stays in the socket.                     *)
client_datagram(rs, p) ==
  /\ life[rs] = "live"
  /\ p \notin arrived[rs]
  /\ arrived' = [arrived EXCEPT ![rs] = @ \cup {p}]
  /\ UNCHANGED <<ctl, lists, ticker, attached>>

Control ==
  \/ \E rs \in Sessions : add_remote_pending(rs)
  \/ \E rs \in Sessions : add_remote_sending(rs)
  \/ \E rs \in Sessions : del_remote_sending(rs)
  \/ del_remote_pending
  \/ free_sink
  \/ uninit
  \/ \E rs \in Sessions : free_orphan_sink(rs)

Process ==
  \/ dispatch_all
  \/ chk_pendings
  \/ \E rs \in Sessions : TryRecv(rs)
  \/ try_recv_end
  \/ erase_recved

Next ==
  \/ Control
  \/ process_begin
  \/ Process
  \/ \E rs \in Sessions, p \in Port : client_datagram(rs, p)

Spec == Init /\ [][Next]_vars

(* A pass that has begun ends: the ticker blocks only on mutexes that are  *)
(* released after a bounded time.  Nothing obliges the source to send, so  *)
(* process_begin is not fair.                                              *)
FairSpec == Spec /\ WF_vars(Process) /\ WF_vars(del_remote_pending \/ free_sink)

-----------------------------------------------------------------------------
(* The sessions whose removal has started and is not finished. *)
Removing == {rs \in Sessions : cpc # "idle" /\ cur = rs}

(* A waiting session the ticker has not visited in the pass under way.     *)
Unvisited(rs) == rs \in pendings /\ (cs_pendings_free \/ rs \in todo)

(* A waiting session the pass under way has visited and not yet erased.    *)
Visited(rs) == rs \in pendings /\ ~cs_pendings_free /\ rs \notin todo

(* What the pass and the control thread know of each other: the ticker     *)
(* visits members of pendings_ only, a removal concerns a live sink of an  *)
(* attached publisher, and a detached publisher holds nothing.             *)
ThreadsInv ==
  /\ todo \subseteq pendings
  /\ tpc # "try_recv" => todo = {}
  /\ cpc # "idle" => attached /\ life[cur] = "live"
  /\ ~attached => tpc = "idle" /\ pendings = {}
                  /\ \A rs \in Sessions : sending[rs] = 0

(* Where a session is, at every point of both threads.                     *)
SessionInv(rs) ==
  /\ rs \in pendings => life[rs] = "live" /\ ~(cpc = "free" /\ cur = rs)
  /\ life[rs] = "new" => sending[rs] = 0
  /\ sending[rs] <= 1
  /\ Unvisited(rs) => ports[rs] # Port /\ sending[rs] = 0
  /\ Visited(rs) /\ ports[rs] # Port => sending[rs] = 0
  /\ Visited(rs) /\ ports[rs] = Port /\ rs \notin Removing => sending[rs] = 1
  /\ attached /\ life[rs] = "live" /\ rs \notin pendings \cup Removing
       => sending[rs] = 1

(* A session del_remote found in rtp_sessions_ can only be in pendings_    *)
(* when the pass under way has promoted it already and will erase it.      *)
ErasedInv(rs) ==
  rs \in erased => /\ sending[rs] = 0
                   /\ life[rs] = "dead" \/ rs \in Removing
                   /\ rs \in pendings => Visited(rs) /\ ports[rs] = Port

(* The inductive invariant of the publisher: however removal and promotion *)
(* interleave, every session is exactly where the two threads expect it.   *)
Inductive ==
  /\ TypeOK
  /\ ThreadsInv
  /\ \A rs \in Sessions : SessionInv(rs) /\ ErasedInv(rs)

(* A packet reaches a receiver at most once: however removal, promotion    *)
(* and ticks interleave, rtp_sessions_ never holds a session twice         *)
(* (add_remote and TryRecv push without looking).                          *)
SentOnce == \A rs \in Sessions : sending[rs] <= 1

(* chk_pendings reads the sockets of the sessions it has still to visit:   *)
(* none of them has been destroyed, whatever the control thread deletes    *)
(* during the pass.                                                        *)
PeekOnlyLive == \A rs \in todo : life[rs] = "live"

(* Outside a chk_pendings pass a live receiver that nobody is removing is  *)
(* either waiting in pendings_ or in rtp_sessions_, never in neither (it   *)
(* would get no packet for ever) and never in both (it would be promoted   *)
(* a second time).                                                         *)
NoLostReceiver ==
  attached /\ cs_pendings_free =>
    \A rs \in Sessions \ Removing :
      life[rs] = "live" => (rs \in pendings <=> sending[rs] = 0)

(* A receiver that del_remote found in rtp_sessions_ gets no packet again: *)
(* a pass of chk_pendings under way cannot put it back.                    *)
RemovedSenderStaysOut == \A rs \in erased : sending[rs] = 0

(* A receiver leaves rtp_sessions_ only by its own removal or because the  *)
(* publisher is destroyed: no tick and no other receiver's removal drops   *)
(* it.                                                                     *)
LeavesOnlyByRemoval ==
  [][\A rs \in Sessions :
       sending'[rs] < sending[rs] => rs \in Removing' \/ ~attached']_vars

(* zk.publisher.h: when both sockets of a waiting receiver have heard from *)
(* the client it is moved to the sending list.  This holds as long as      *)
(* media keeps arriving, because process() runs on input only.             *)
EventuallyPromoted ==
  []<>(tpc = "dispatch") =>
    \A rs \in Sessions :
      (rs \in pendings /\ arrived[rs] = Port)
        ~> (sending[rs] > 0 \/ rs \in Removing \/ life[rs] = "dead")

(* del_remote "deletes an rtp recver" (zonekey.publisher.cpp:82): once the *)
(* control thread has returned from it and freed the Sink, rtp_sessions_,  *)
(* which dispatch_all walks on every packet, does not hold its session.    *)
DeletedReceiverGone ==
  \A rs \in Sessions : life[rs] = "dead" => sending[rs] = 0
=============================================================================
