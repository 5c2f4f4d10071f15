---------------------------- MODULE Conference ----------------------------
(***************************************************************************)
(* One conference of the MCU (zonekey_mcu/Conference.cpp with its two      *)
(* subclasses) from create_conference to its destruction: the sources,     *)
(* streams and sinks it holds, the publishers that feed the sinks, the     *)
(* silence timeouts, and the idle test by which Server::run frees it.      *)
(*                                                                         *)
(* Commands run in XMPP threads and hold cs_conferences_ from beginning to *)
(* end, so each is one step.  Server::run takes that mutex twice per loop, *)
(* once to call run_once and once to reap idle conferences: two steps,     *)
(* between which commands run.                                             *)
(*                                                                         *)
(* sid_, stream_id_ and sink_id_ only grow (their wrap-around at           *)
(* 0x70000000 is not reached), so an object is represented by its id and   *)
(* an id is used once.  Source ids are odd and stream ids even: here they  *)
(* are disjoint sets.  Time is counted in units; Timeout and IdleTime are  *)
(* the 60 s and 120 s of the code, and clocks stop just past them.         *)
(***************************************************************************)
EXTENDS Naturals, FiniteSets

CONSTANTS
  Types,       \* the modes a client may ask for, among "free" and "director"
  SourceIds, StreamIds, SinkIds,  \* ids the counters can hand out
  Timeout,     \* SOURCE_, SINK_ and STREAM_TIMEOUT_SECONDS
  IdleTime     \* how long a conference may stay empty

(* The publishers of the director's mixed picture and sound. *)
Mixes == {"video", "audio"}

Objects    == SourceIds \cup StreamIds \cup SinkIds
Publishers == SourceIds \cup StreamIds \cup Mixes

ASSUME TypesAssumption == Types \subseteq {"free", "director"}
ASSUME TimesAssumption == Timeout \in Nat /\ IdleTime \in Nat
ASSUME IdsAssumption ==
  /\ SourceIds \cap StreamIds = {}
  /\ SinkIds \cap (SourceIds \cup StreamIds) = {}
  /\ Mixes \cap Objects = {}

VARIABLES
  conf,      \* the Conference object: "none", "up", "gone" (deleted), or
             \* "aborted": an assertion has ended the process
  type,      \* its class
  obj,       \* obj[o]: "none", "up" (in sources_, streams_ or sinks_) or "gone"
  death,     \* the objects whose death_ is set
  heard,     \* sources and sinks: RTCP waits in evq_; streams: packet_recv
             \* has moved since it was last copied to packet_recved_
  unread,    \* the sinks whose RTCP waits in their socket
  age,       \* now - time_last_rtcp_; of a stream, now - last_check_stamp_
  kind,      \* kind[k]: the medium of sink k's payload
  graphics,  \* the source ids that have a Graph in graphics_
  pubs,      \* the streams that support a publisher
  watch,     \* watch[p]: the sinks that publisher p sends to
  idle_,     \* Conference::idle_
  idle_age,  \* now - stamp_idle_
  srv,       \* what Server::run does next: "run_once" or "reap"
  quiet,     \* history: time since the client of o last sent something
  seen,      \* history: between run_once and reap, the sources and streams
             \* run_once counted
  deletes    \* deletes[s]: history: times the Graph of source s was deleted

vars == <<conf, type, obj, death, heard, unread, age, kind, graphics, pubs,
          watch, idle_, idle_age, srv, quiet, seen, deletes>>

media == <<obj, death, heard, unread, age, kind, graphics, pubs, watch, quiet,
           deletes>>
life  == <<conf, type, idle_, idle_age, srv, seen>>

Up(S)   == {o \in S : obj[o] = "up"}
Members == Up(SourceIds \cup StreamIds)

TypeOK ==
  /\ conf \in {"none", "up", "gone", "aborted"}
  /\ type \in {"free", "director"}
  /\ obj \in [Objects -> {"none", "up", "gone"}]
  /\ death \in SUBSET Objects
  /\ heard \in SUBSET Objects
  /\ unread \in SUBSET SinkIds
  /\ age \in [Objects -> 0 .. Timeout + 1]
  /\ kind \in [SinkIds -> Mixes]
  /\ graphics \in SUBSET SourceIds
  /\ pubs \in SUBSET StreamIds
  /\ watch \in [Publishers -> SUBSET SinkIds]
  /\ idle_ \in BOOLEAN
  /\ idle_age \in 0 .. IdleTime + 1
  /\ srv \in {"run_once", "reap"}
  /\ quiet \in [Objects -> 0 .. Timeout + 1]
  /\ seen \in SUBSET Objects
  /\ deletes \in [SourceIds -> 0 .. 2]

Init ==
  /\ conf = "none"
  /\ type \in Types
  /\ obj = [o \in Objects |-> "none"]
  /\ death = {} /\ heard = {} /\ unread = {}
  /\ age = [o \in Objects |-> 0]
  /\ kind = [k \in SinkIds |-> "video"]
  /\ graphics = {} /\ pubs = {}
  /\ watch = [p \in Publishers |-> {}]
  /\ idle_ = FALSE
  /\ idle_age = 0
  /\ srv = "run_once"
  /\ quiet = [o \in Objects |-> 0]
  /\ seen = {}
  /\ deletes = [s \in SourceIds |-> 0]

-----------------------------------------------------------------------------
(* Helpers of the commands. *)

(* The publishers that exist: find_graph, find_stream with                 *)
(* support_publisher(), and the two of a director conference.              *)
Targets == graphics \cup (IF type = "director" THEN pubs \cup Mixes ELSE {})

(* Unwatch that looks for the sinks in the graphs only. *)
Unwatch_graphs(K, D) ==
  [p \in Publishers |->
     IF p \in D THEN {} ELSE {k \in watch[p] : k \notin K \/ p \notin SourceIds}]

(* What is left of the watch lists once del_sink has run for the sinks K   *)
(* and the publishers of D have been destroyed.  del_sink looks in the     *)
(* graphs, in the streams, and in the mix of the sink's own medium.        *)
Unwatch(K, D) ==
  [p \in Publishers |->
     IF p \in D THEN {}
     ELSE {k \in watch[p] : k \notin K \/ (p \in Mixes /\ p # kind[k])}]

(* The members of a deleted object, and what waits in its socket, are      *)
(* forgotten with it.                                                      *)
Forget(D) ==
  /\ obj' = [o \in Objects |-> IF o \in D THEN "gone" ELSE obj[o]]
  /\ kind' = [k \in SinkIds |-> IF k \in D THEN "video" ELSE kind[k]]
  /\ unread' = unread \ D
  /\ quiet' = [o \in Objects |-> IF o \in D THEN 0 ELSE quiet[o]]

(* Drop with del_source leaving the Graph it deletes in graphics_. *)
Drop_keeps_graph(D) ==
  /\ Forget(D)
  /\ deletes' = [s \in SourceIds |-> IF s \in D \cap graphics THEN deletes[s] + 1
                                     ELSE deletes[s]]
  /\ pubs' = pubs \ D
  /\ watch' = Unwatch(D, D)
  /\ UNCHANGED graphics

(* del_source, del_stream and del_sink for the objects D, which are then   *)
(* deleted; del_source takes the Graph of a source from graphics_ and      *)
(* deletes it, and its sinks stay in sinks_.                               *)
Drop(D) ==
  /\ Forget(D)
  /\ graphics' = graphics \ D
  /\ deletes' = [s \in SourceIds |-> IF s \in D \cap graphics THEN deletes[s] + 1
                                     ELSE deletes[s]]
  /\ pubs' = pubs \ D
  /\ watch' = Unwatch(D, D)

(* A new object: its clock starts now. *)
Enter(o) ==
  /\ conf = "up" /\ obj[o] = "none"
  /\ obj' = [obj EXCEPT ![o] = "up"]
  /\ age' = [age EXCEPT ![o] = 0]
  /\ quiet' = [quiet EXCEPT ![o] = 0]

-----------------------------------------------------------------------------
(* Commands. *)

create_conference ==
  /\ conf = "none"
  /\ conf' = "up"
  /\ idle_age' = 0
  /\ UNCHANGED <<media, type, idle_, srv, seen>>

addSource(s) ==
  /\ Enter(s)
  /\ graphics' = graphics \cup {s}
  /\ UNCHANGED <<death, heard, unread, kind, pubs, watch, deletes, life>>

(* FreeConference has no streams: there dc.add_stream fails. *)
addStream(x, publisher) ==
  /\ type = "director"
  /\ Enter(x)
  /\ pubs' = IF publisher THEN pubs \cup {x} ELSE pubs
  /\ UNCHANGED <<death, heard, unread, kind, graphics, watch, deletes, life>>

addSink(k, p, m) ==
  /\ Enter(k)
  /\ p \in Targets
  /\ p \in Mixes => m = p
  /\ watch' = [watch EXCEPT ![p] = @ \cup {k}]
  /\ kind' = [kind EXCEPT ![k] = m]
  /\ UNCHANGED <<death, heard, unread, graphics, pubs, deletes, life>>

(* addSink of a payload no Sink supports, or with an explicit payload and  *)
(* a stream that is missing or has no publisher, or, where assert() is     *)
(* compiled away, a missing source: sink_id_ has moved on, nothing else.   *)
addSink_fails(k) ==
  /\ conf = "up" /\ type = "director" /\ obj[k] = "none"
  /\ obj' = [obj EXCEPT ![k] = "gone"]
  /\ UNCHANGED <<death, heard, unread, age, kind, graphics, pubs, watch, quiet,
                 deletes, life>>

(* addSink with an explicit payload does not look for the source itself;   *)
(* with an id that names none, the assertion of add_sink ends the process. *)
addSink_asserts ==
  /\ conf = "up" /\ type = "director"
  /\ conf' = "aborted"
  /\ UNCHANGED <<media, type, idle_, idle_age, srv, seen>>

delete(o) ==
  /\ conf = "up" /\ obj[o] = "up"
  /\ Drop({o})
  /\ death' = death \ {o}
  /\ heard' = heard \ {o}
  /\ age' = [age EXCEPT ![o] = 0]
  /\ UNCHANGED life

delSource(s) == delete(s)
delStream(x) == delete(x)
delSink(k)   == delete(k)

(* ~DirectorConference without graphics_.clear(). *)
GraphsLeft_all == graphics

(* What the destructor's first loop, which deletes every Graph, leaves in  *)
(* graphics_: ~DirectorConference clears the vector, ~FreeConference does  *)
(* not.                                                                    *)
GraphsLeft == IF type = "director" THEN {} ELSE graphics

(* The destructor: delete the Graphs, then del_sink, del_stream and        *)
(* del_source for every object.  A Graph left in graphics_ is freed memory *)
(* when del_source compares its source(): it may or may not match.         *)
Destroy ==
  /\ conf' = "gone"
  /\ Forget(Up(Objects))
  /\ death' = {} /\ heard' = {}
  /\ age' = [o \in Objects |-> 0]
  /\ \E again \in SUBSET GraphsLeft :
       deletes' = [s \in SourceIds |->
                     deletes[s] + (IF s \in graphics THEN 1 ELSE 0)
                                + (IF s \in again THEN 1 ELSE 0)]
  /\ graphics' = {}
  /\ pubs' = {}
  /\ watch' = [p \in Publishers |-> {}]
  /\ idle_' = FALSE /\ idle_age' = 0 /\ seen' = {}
  /\ UNCHANGED type

destroy_conference ==
  /\ conf = "up"
  /\ Destroy
  /\ UNCHANGED srv

-----------------------------------------------------------------------------
(* Server::run. *)

(* Source::run and Sink::run with the timeout tested before evq_ is read. *)
TimesOut_first(o) ==
  IF o \in StreamIds THEN age[o] > Timeout /\ o \notin heard
  ELSE age[o] > Timeout

(* Sink::run without its timeout test. *)
TimesOut_no_sinks(o) == o \notin SinkIds /\ age[o] > Timeout /\ o \notin heard

(* death_ is set: a source or sink whose evq_ is empty has been silent for *)
(* too long, or the period of is_timeout has passed without a packet.      *)
TimesOut(o) == age[o] > Timeout /\ o \notin heard

(* The clock restarts: RTCP was read from evq_, or a period of is_timeout  *)
(* has ended with packets received.                                        *)
Restarts(o) == o \in heard /\ (o \in StreamIds => age[o] > Timeout)

(* The test for an idle conference without the streams. *)
Empty_sources_only == Up(SourceIds) = {}

(* The test for an idle conference with the sinks. *)
Empty_with_sinks == Up(Objects) = {}

(* n_sources == 0 && n_streams == 0; both are counted before the dead      *)
(* objects are removed, and sinks do not count.                            *)
Empty == Members = {}

(* run_once: remove the objects found dead by an earlier pass, run the     *)
(* others, and test for idleness.                                          *)
run_once ==
  /\ srv = "run_once" /\ conf # "aborted"
  /\ srv' = "reap"
  /\ IF conf # "up" THEN UNCHANGED <<media, conf, type, idle_, idle_age, seen>>
     ELSE LET dead == Up(Objects) \cap death
              runs == Up(Objects) \ death
              restarted == {o \in runs : Restarts(o)} IN
          /\ Drop(dead)
          /\ death' = (death \ dead) \cup {o \in runs : TimesOut(o)}
          /\ heard' = heard \ (restarted \cup dead)
          /\ age' = [o \in Objects |-> IF o \in restarted \cup dead THEN 0 ELSE age[o]]
          /\ idle_' = (idle_ \/ (Empty /\ idle_age > IdleTime))
          /\ idle_age' = IF Empty THEN idle_age ELSE 0
          /\ seen' = Members
          /\ UNCHANGED <<conf, type>>

(* func_idle: delete the conference if its idle_ is set. *)
reap ==
  /\ srv = "reap" /\ conf # "aborted"
  /\ srv' = "run_once"
  /\ IF conf = "up" /\ idle_ THEN Destroy
     ELSE seen' = {} /\ UNCHANGED <<media, conf, type, idle_, idle_age>>

-----------------------------------------------------------------------------
(* Packets and time. *)

(* The client of a source or stream sends and recvm, which the ticker      *)
(* calls all the time, reads it: RTCP is queued in evq_, RTP counted.      *)
packet(o) ==
  /\ conf = "up" /\ obj[o] = "up"
  /\ heard' = heard \cup {o}
  /\ quiet' = [quiet EXCEPT ![o] = 0]
  /\ UNCHANGED <<obj, death, unread, age, kind, graphics, pubs, watch, deletes, life>>

(* The client of a sink sends RTCP: it reaches the socket. *)
arrives(k) ==
  /\ conf = "up" /\ obj[k] = "up"
  /\ unread' = unread \cup {k}
  /\ quiet' = [quiet EXCEPT ![k] = 0]
  /\ UNCHANGED <<obj, death, heard, age, kind, graphics, pubs, watch, deletes, life>>

(* The session of a sink is SENDONLY: its RTCP is read when, and only      *)
(* when, the publisher that has promoted it sends it a packet.             *)
sendm(k) ==
  /\ conf = "up" /\ k \in unread
  /\ \E p \in Publishers : k \in watch[p]
  /\ unread' = unread \ {k}
  /\ heard' = heard \cup {k}
  /\ UNCHANGED <<obj, death, age, kind, graphics, pubs, watch, quiet, deletes, life>>

Later(t, max) == IF t > max THEN t ELSE t + 1

(* The process has ended. *)
Aborted == conf = "aborted" /\ UNCHANGED vars

(* One unit of time passes. *)
Tick ==
  /\ conf = "up"
  /\ age' = [o \in Objects |-> IF obj[o] = "up" THEN Later(age[o], Timeout) ELSE age[o]]
  /\ quiet' = [o \in Objects |-> IF obj[o] = "up" THEN Later(quiet[o], Timeout) ELSE quiet[o]]
  /\ idle_age' = Later(idle_age, IdleTime)
  /\ UNCHANGED <<obj, death, heard, unread, kind, graphics, pubs, watch, deletes,
                 conf, type, idle_, srv, seen>>

Command ==
  \/ create_conference
  \/ destroy_conference
  \/ addSink_asserts
  \/ \E s \in SourceIds : addSource(s) \/ delSource(s)
  \/ \E x \in StreamIds : delStream(x) \/ \E b \in BOOLEAN : addStream(x, b)
  \/ \E k \in SinkIds : delSink(k) \/ addSink_fails(k)
  \/ \E k \in SinkIds, p \in Publishers, m \in Mixes : addSink(k, p, m)

Next ==
  \/ Command
  \/ run_once
  \/ reap
  \/ \E o \in SourceIds \cup StreamIds : packet(o)
  \/ \E k \in SinkIds : arrives(k) \/ sendm(k)
  \/ Tick
  \/ Aborted

Spec == Init /\ [][Next]_vars

(* Server::run loops for ever and sleeps 100 ms at a time; time passes.    *)
(* Nothing obliges a client to send a command or a packet, nor a publisher *)
(* to send anything to its sinks.                                          *)
FairSpec == Spec /\ WF_vars(run_once) /\ WF_vars(reap) /\ WF_vars(Tick)

-----------------------------------------------------------------------------
(* What holds of each object and of the server between any two steps: a    *)
(* conference that is not up holds nothing, only live objects are marked   *)
(* dead or heard, an object of which nothing waits to be read or counted   *)
(* has been quiet at least as long as its clock says, and idle_ is set     *)
(* only between the pass that found nothing and the reaper.                *)
LifeInv ==
  /\ conf \notin {"up", "aborted"} => Up(Objects) = {}
  /\ death \cup heard \cup unread \subseteq Up(Objects)
  /\ \A o \in Up(Objects) \ (heard \cup unread) : age[o] <= quiet[o]
  /\ idle_ => conf \in {"up", "aborted"} /\ srv = "reap" /\ seen = {}
  /\ \A k \in SinkIds : \A p \in Mixes : k \in watch[p] => kind[k] = p
  /\ \A s \in SourceIds : /\ obj[s] # "gone" => deletes[s] = 0
                          /\ conf # "gone" \/ type = "director" => deletes[s] <= 1

(* However commands, timeouts and passes interleave, a publisher sends     *)
(* only to sinks that exist (their RtpSession is not freed), only existing *)
(* publishers send, and a sink is fed by at most one publisher.            *)
WatchersLive ==
  /\ \A p \in Publishers : watch[p] \subseteq Up(SinkIds)
  /\ \A p \in Publishers \ Targets : watch[p] = {}
  /\ \A p, q \in Publishers : p # q => watch[p] \cap watch[q] = {}

(* sources_ and graphics_, kept by different classes under different       *)
(* mutexes, agree: find_graph never fails for a source find_source found,  *)
(* and the Graph of a source that has gone is never found.                 *)
GraphPerSource == graphics = Up(SourceIds) /\ pubs \subseteq Up(StreamIds)

(* The inductive invariant of a conference: the lists of its classes agree *)
(* with each other, and its clocks with what the clients did.              *)
Inductive == TypeOK /\ LifeInv /\ WatchersLive /\ GraphPerSource

(* Every Graph is deleted once as long as a conference lives, and by the   *)
(* destructor of a DirectorConference.                                     *)
GraphDeletedOnceByDirector ==
  (type = "director" \/ conf = "up") => \A s \in SourceIds : deletes[s] <= 1

(* Sink.cpp:133, Stream.cpp:342: however late the passes of Server::run    *)
(* are, death_ is set only when the client has sent nothing for longer     *)
(* than the timeout or, of a sink, when what it sent lies unread in the    *)
(* socket because nothing has been sent to the sink since.                 *)
DeathOnlyAfterSilence ==
  [][\A o \in Objects : o \in death' \ death => quiet[o] > Timeout \/ o \in unread]_vars

(* The reaper never deletes a source or stream that the last run_once saw: *)
(* only one that a command added since.                                    *)
ReapSparesSeen ==
  [][conf = "up" /\ conf' = "gone" /\ srv # srv' => Members \cap seen = {}]_vars

Life == INSTANCE ConferenceLife
          WITH state <- conf, sources <- Cardinality(Up(SourceIds)),
               streams <- Cardinality(Up(StreamIds)), idle <- idle_

(* Conference.cpp:615: of all that happens to its objects the server has   *)
(* to know no more than ConferenceLife says.                               *)
LivesAsServed == Life!Spec

(* oRTP reads something the client of o has sent. *)
Reads(o) == IF o \in SinkIds THEN sendm(o) ELSE packet(o)

(* Sink.cpp:133, Stream.cpp:342: an object of which nothing is read any    *)
(* more is removed in the end: one whose client falls silent, and a sink   *)
(* that is sent nothing, were it only because its source has gone.         *)
SilentRemoved ==
  \A o \in Objects :
    <>[][~Reads(o)]_vars => (obj[o] = "up" ~> obj[o] = "gone" \/ conf = "aborted")

(* A conference that stays without sources and streams is freed in the     *)
(* end, even while sinks remain, unless the process ends.                  *)
EmptyReaped ==
  <>[](Members = {}) => (conf = "up" ~> conf \in {"gone", "aborted"})

(* Conference.h:94, Server.cpp:70: a conference is reaped when it is idle, *)
(* "that is, without sources, sinks(?), streams".                          *)
ReapedOnlyWhenIdle ==
  [][conf = "up" /\ conf' = "gone" /\ srv # srv' => Members = {}]_vars
=============================================================================
