---------------------------- MODULE VideoMixer ----------------------------
(***************************************************************************)
(* The video mixer filter (zonekey_video_mixer/zk.video.mixer.cpp) and the *)
(* part of DirectorConference that drives it.                              *)
(*                                                                         *)
(* Three threads: the control thread (a command or Server::run, one at a   *)
(* time under cs_conferences_) adds and deletes streams and sends requests *)
(* to the worker through req(); the worker CTX::run answers them, draws    *)
(* the cached pictures in z-order and queues the encoded frame; the ticker *)
(* calls channel_process, which caches the pictures of the streams and     *)
(* takes frames from fifo_.                                                *)
(*                                                                         *)
(* A step is one critical section or one access to a variable that no      *)
(* mutex protects (the two events, has_pending_).  A picture is            *)
(* represented by the stream it shows, and fifo_ by whether it holds a     *)
(* frame.  Layouts and encoder settings are data no step depends on.       *)
(***************************************************************************)
EXTENDS Integers, FiniteSets

CONSTANTS
  Streams,       \* the video streams of the conference
  NoStream,
  MAX_STREAMS,   \* of DirectorConference.h
  MAX_CHANNELS,  \* ZONEKEY_VIDEO_MIXER_MAX_CHANNELS
  Opers          \* the z-order operations that clients ask for

ASSUME NoStreamAssumption == NoStream \notin Streams
ASSUME OpersAssumption == Opers \subseteq {"up", "down", "top", "bottom"}
ASSUME MaxAssumption ==
  MAX_STREAMS \in Nat /\ MAX_CHANNELS \in Nat /\ MAX_STREAMS <= MAX_CHANNELS

Channels == 0 .. MAX_CHANNELS - 1
Slots    == 0 .. MAX_CHANNELS

VARIABLES
  zorder_,     \* zorder_[0], zorder_[1], ... are drawn in this order, up to a -1
  idle_,       \* idle_[c]: InputSource c is not employed
  pic,         \* pic[c]: the stream whose picture c has cached, if valid_
  link,        \* link[c]: the stream whose decoder is linked to pin c
  x264_,       \* x264_ and canvas_ exist
  evt_req_, evt_res_, req_,   \* the events and the command of req()
  t_zorder,    \* t_channel_zorder_
  enabled_,    \* the mixer is in use (livingcast)
  running_, attached,         \* set by preprocess; the ticker runs the filter
  video_stream_cnt_,
  fifo_, has_pending_,
  cpc, op, cur, chan,  \* control thread: place, command, its stream and channel
  wpc, quit_,  \* worker
  tpc,         \* ticker
  served       \* history: the worker has executed the command of req()

vars == <<zorder_, idle_, pic, link, x264_, evt_req_, evt_res_, req_,
          t_zorder, enabled_, running_, attached, video_stream_cnt_, fifo_, has_pending_,
          cpc, op, cur, chan, wpc, quit_, tpc, served>>

inputs    == <<idle_, pic, link>>
handshake == <<evt_req_, evt_res_, req_, t_zorder, served>>
output    == <<fifo_, has_pending_>>
control   == <<cpc, op, cur, chan>>
worker    == <<x264_, wpc, quit_>>
ticking   == <<running_, attached>>

NoOrder == [id |-> -1, oper |-> "none"]

Content == Streams \cup {NoStream}

(* Of every variable but zorder_, whose type is part of ZOrderExact. *)
TypeOK ==
  /\ idle_ \in [Channels -> BOOLEAN]
  /\ pic \in [Channels -> Content]
  /\ link \in [Channels -> Content]
  /\ x264_ \in BOOLEAN
  /\ evt_req_ \in BOOLEAN /\ evt_res_ \in BOOLEAN
  /\ req_ \in {-1, 0, 1, 2, 3}
  /\ t_zorder \in [id : Channels \cup {-1}, oper : Opers \cup {"none"}]
  /\ enabled_ \in BOOLEAN /\ running_ \in BOOLEAN /\ attached \in BOOLEAN
  /\ video_stream_cnt_ \in 0 .. MAX_STREAMS
  /\ fifo_ \in BOOLEAN /\ has_pending_ \in BOOLEAN
  /\ cpc \in {"idle", "employ", "push", "layout", "free", "resume", "wait", "join", "gone"}
  /\ op \in {"none", "add", "del", "set", "quit"}
  /\ cur \in Content
  /\ chan \in Channels \cup {-1}
  /\ wpc \in {"start", "loop", "serve", "reply", "signal", "step", "push",
              "pending", "done"}
  /\ quit_ \in BOOLEAN
  /\ tpc \in {"idle", "drain", "clear"}
  /\ served \in BOOLEAN

Init ==
  /\ zorder_ = [i \in Slots |-> -1]
  /\ idle_ = [c \in Channels |-> TRUE]
  /\ pic = [c \in Channels |-> NoStream]
  /\ link = [c \in Channels |-> NoStream]
  /\ x264_ = FALSE
  /\ evt_req_ = FALSE /\ evt_res_ = FALSE /\ req_ = 0
  /\ t_zorder = NoOrder
  /\ enabled_ \in BOOLEAN
  /\ running_ = FALSE /\ attached = FALSE
  /\ video_stream_cnt_ = 0
  /\ fifo_ = FALSE /\ has_pending_ = FALSE
  /\ cpc = "idle" /\ op = "none" /\ cur = NoStream /\ chan = -1
  /\ wpc = "start" /\ quit_ = FALSE
  /\ tpc = "idle"
  /\ served = FALSE

-----------------------------------------------------------------------------
(* The array zorder_. *)

(* The first slot that holds c or ends the list: the scan of every loop. *)
Pos(z, c) == CHOOSE i \in Slots : /\ z[i] \in {c, -1}
                                  /\ \A k \in 0 .. i - 1 : z[k] \notin {c, -1}

(* The end of the list. *)
Used(z) == Pos(z, -1)

Swap(z, i, j) == [z EXCEPT ![i] = z[j], ![j] = z[i]]

(* get_channel: a new window is on top. *)
Push(z, c) == [z EXCEPT ![Used(z)] = c]

(* free_channel without closing the gap. *)
Remove_gap(z, c) == [z EXCEPT ![Pos(z, c)] = -1]

(* free_channel: those behind c move up one slot. *)
Remove(z, c) ==
  [k \in Slots |-> IF k < Pos(z, c) THEN z[k]
                   ELSE IF k < MAX_CHANNELS THEN z[k + 1] ELSE -1]

up(z, c) == LET i == Pos(z, c) IN
  IF z[i] # -1 /\ z[i + 1] # -1 THEN Swap(z, i, i + 1) ELSE z

down(z, c) == LET i == Pos(z, c) IN
  IF z[i] # -1 /\ i > 0 THEN Swap(z, i - 1, i) ELSE z

(* "top" as one swap with the last. *)
top_swap(z, c) == LET i == Pos(z, c) IN
  IF z[i] = -1 THEN z ELSE Swap(z, i, Used(z) - 1)

top(z, c) == LET i == Pos(z, c) IN
  IF z[i] = -1 THEN z
  ELSE [k \in Slots |-> IF k < i \/ k >= Used(z) THEN z[k]
                        ELSE IF k = Used(z) - 1 THEN c ELSE z[k + 1]]

(* The loop copies forwards, so zorder_[0] ends up in every slot up to the *)
(* old one of c: with two streams or more below c all but one are lost.    *)
bottom(z, c) == LET i == Pos(z, c) IN
  IF z[i] = -1 THEN z
  ELSE [k \in Slots |-> IF k > i THEN z[k] ELSE IF k = 0 THEN c ELSE z[0]]

rezorder(z, c, oper) ==
  CASE oper = "up"   -> up(z, c)
    [] oper = "down" -> down(z, c)
    [] oper = "top"  -> top(z, c)
    [] OTHER         -> bottom(z, c)

-----------------------------------------------------------------------------
(* The control thread. *)

(* pause_video: ms_ticker_detach waits for the pass under way and calls    *)
(* postprocess.                                                            *)
pause_video ==
  /\ tpc = "idle"
  /\ attached' = FALSE /\ running_' = FALSE

(* The limit is off by one. *)
add_video_stream_off_by_one(s) ==
  /\ cpc = "idle"
  /\ \A c \in Channels : link[c] # s
  /\ video_stream_cnt_ <= MAX_STREAMS
  /\ pause_video
  /\ cpc' = "employ" /\ op' = "add" /\ cur' = s
  /\ UNCHANGED <<zorder_, inputs, worker, handshake, enabled_, video_stream_cnt_,
                 output, chan, tpc>>

(* DirectorConference::add_video_stream: the limit is tested before the    *)
(* ticker is stopped.                                                      *)
add_video_stream(s) ==
  /\ cpc = "idle"
  /\ \A c \in Channels : link[c] # s
  /\ video_stream_cnt_ < MAX_STREAMS
  /\ pause_video
  /\ cpc' = "employ" /\ op' = "add" /\ cur' = s
  /\ UNCHANGED <<zorder_, inputs, worker, handshake, enabled_, video_stream_cnt_,
                 output, chan, tpc>>

(* employ that leaves the picture of the last stream valid. *)
employ_keeps_picture ==
  /\ cpc = "employ"
  /\ \E c \in Channels :
       /\ idle_[c] /\ \A d \in 0 .. c - 1 : ~idle_[d]
       /\ idle_' = [idle_ EXCEPT ![c] = FALSE]
       /\ chan' = c
  /\ cpc' = "push"
  /\ UNCHANGED <<zorder_, pic, link, worker, handshake, enabled_, ticking,
                 video_stream_cnt_, output, op, cur, tpc>>

(* get_channel: the first idle channel is employed, *)
employ ==
  /\ cpc = "employ"
  /\ \E c \in Channels :
       /\ idle_[c] /\ \A d \in 0 .. c - 1 : ~idle_[d]
       /\ idle_' = [idle_ EXCEPT ![c] = FALSE]
       /\ pic' = [pic EXCEPT ![c] = NoStream]
       /\ chan' = c
  /\ cpc' = "push"
  /\ UNCHANGED <<zorder_, link, worker, handshake, enabled_, ticking,
                 video_stream_cnt_, output, op, cur, tpc>>

(* and, under cs_channels_, put on top; add_video_stream then links it. *)
get_channel ==
  /\ cpc = "push"
  /\ zorder_' = Push(zorder_, chan)
  /\ link' = [link EXCEPT ![chan] = cur]
  /\ cpc' = "layout"
  /\ UNCHANGED <<idle_, pic, worker, handshake, enabled_, ticking,
                 video_stream_cnt_, output, op, cur, chan, tpc>>

(* req(): leave the command for the worker and wait. *)
req(cmd) ==
  /\ req_' = cmd
  /\ evt_req_' = TRUE
  /\ served' = FALSE
  /\ cpc' = "wait"
  /\ UNCHANGED evt_res_

(* The size of the canvas is taken without asking the worker. *)
get_encoder_unsynchronised ==
  /\ cpc = "layout"
  /\ cpc' = "resume"
  /\ video_stream_cnt_' = video_stream_cnt_ + 1
  /\ UNCHANGED <<zorder_, inputs, worker, handshake, enabled_, ticking, output, op, cur,
                 chan, tpc>>

(* set_video_stream_params_layout asks for the size of the canvas. *)
get_encoder ==
  /\ cpc = "layout"
  /\ req(3)
  /\ UNCHANGED <<zorder_, inputs, worker, t_zorder, enabled_, ticking, video_stream_cnt_,
                 output, op, cur, chan, tpc>>

(* v.zorder.  The id is the channel of any stream, an audio stream too. *)
set_zorder(c, oper) ==
  /\ cpc = "idle"
  /\ t_zorder' = [id |-> c, oper |-> oper]
  /\ req(2)
  /\ op' = "set"
  /\ UNCHANGED <<zorder_, inputs, worker, enabled_, ticking, video_stream_cnt_, output,
                 cur, chan, tpc>>

(* v.encoder: set_encoder or get_encoder. *)
encoder(cmd) ==
  /\ cpc = "idle"
  /\ req(cmd)
  /\ op' = "set"
  /\ UNCHANGED <<zorder_, inputs, worker, t_zorder, enabled_, ticking, video_stream_cnt_,
                 output, cur, chan, tpc>>

(* Where a command goes on, or ends, when req() returns.  Nothing reads   *)
(* req_ and t_channel_zorder_ before the next command has set them, so     *)
(* they are given back their first values.                                 *)
AfterReq ==
  /\ cpc' = CASE op = "add" -> "resume" [] op = "quit" -> "join" [] OTHER -> "idle"
  /\ op' = IF op = "set" THEN "none" ELSE op
  /\ video_stream_cnt_' = IF op = "add" THEN video_stream_cnt_ + 1 ELSE video_stream_cnt_
  /\ req_' = 0 /\ t_zorder' = NoOrder /\ served' = FALSE
  /\ UNCHANGED <<zorder_, inputs, worker, evt_req_, enabled_, ticking, output, cur, chan,
                 tpc>>

(* req() returns without resetting evt_res_. *)
req_returns_no_reset ==
  /\ cpc = "wait" /\ evt_res_
  /\ AfterReq
  /\ UNCHANGED evt_res_

(* req() returns.  add_video_stream goes on to set the layout of the       *)
(* channel and to count the stream.                                        *)
req_returns ==
  /\ cpc = "wait" /\ evt_res_
  /\ evt_res_' = FALSE
  /\ AfterReq

(* resume_video: with a stream left preprocess empties fifo_, asks x264_   *)
(* for a key frame and sets running_, and the ticker gets the filter.      *)
resume_video ==
  /\ cpc = "resume"
  /\ cpc' = "idle" /\ op' = "none" /\ cur' = NoStream /\ chan' = -1
  /\ IF video_stream_cnt_ > 0
     THEN fifo_' = FALSE /\ running_' = TRUE /\ attached' = TRUE
     ELSE UNCHANGED <<fifo_, ticking>>
  /\ UNCHANGED <<zorder_, inputs, worker, handshake, enabled_, video_stream_cnt_,
                 has_pending_, tpc>>

del_video_stream(s) ==
  /\ cpc = "idle"
  /\ pause_video
  /\ \E c \in Channels : link[c] = s /\ chan' = c
  /\ cpc' = "free" /\ op' = "del" /\ cur' = s
  /\ UNCHANGED <<zorder_, inputs, worker, handshake, enabled_, video_stream_cnt_, output,
                 tpc>>

(* free_channel that does not disemploy. *)
free_channel_leaks ==
  /\ cpc = "free"
  /\ zorder_' = Remove(zorder_, chan)
  /\ link' = [link EXCEPT ![chan] = NoStream]
  /\ video_stream_cnt_' = video_stream_cnt_ - 1
  /\ cpc' = "resume"
  /\ UNCHANGED <<idle_, pic, worker, handshake, enabled_, ticking, output, op, cur, chan,
                 tpc>>

(* free_channel, under cs_channels_; the stream is unlinked. *)
free_channel ==
  /\ cpc = "free"
  /\ idle_' = [idle_ EXCEPT ![chan] = TRUE]
  /\ zorder_' = Remove(zorder_, chan)
  /\ link' = [link EXCEPT ![chan] = NoStream]
  /\ video_stream_cnt_' = video_stream_cnt_ - 1
  /\ cpc' = "resume"
  /\ UNCHANGED <<pic, worker, handshake, enabled_, ticking, output, op, cur,
                 chan, tpc>>

(* The conference is destroyed once its streams are: ~CTX sends -1 *)
uninit ==
  /\ cpc = "idle" /\ video_stream_cnt_ = 0
  /\ req(-1)
  /\ op' = "quit"
  /\ UNCHANGED <<zorder_, inputs, worker, t_zorder, enabled_, ticking, video_stream_cnt_,
                 output, cur, chan, tpc>>

(* and waits for the worker to end. *)
join ==
  /\ cpc = "join" /\ wpc = "done"
  /\ cpc' = "gone"
  /\ UNCHANGED <<zorder_, inputs, worker, handshake, enabled_, ticking, video_stream_cnt_,
                 output, op, cur, chan, tpc>>

-----------------------------------------------------------------------------
(* The worker. *)

WorkerLeaves == <<inputs, enabled_, ticking, video_stream_cnt_, control, tpc>>

(* x264_ and canvas_ are created. *)
start ==
  /\ wpc = "start"
  /\ x264_' = TRUE
  /\ wpc' = "loop"
  /\ UNCHANGED <<zorder_, handshake, output, quit_, WorkerLeaves>>

has_req ==
  /\ wpc = "loop" /\ ~quit_
  /\ wpc' = IF evt_req_ THEN "serve" ELSE "step"
  /\ evt_req_' = FALSE
  /\ UNCHANGED <<zorder_, evt_res_, req_, t_zorder, served, output, x264_, quit_,
                 WorkerLeaves>>

(* The command of req_ is executed.  reset() replaces x264_ and canvas_    *)
(* and get_encoding_params reads them.                                     *)
serve ==
  /\ wpc = "serve"
  /\ served' = TRUE
  /\ zorder_' = IF req_ = 2 THEN rezorder(zorder_, t_zorder.id, t_zorder.oper) ELSE zorder_
  /\ quit_' = (req_ = -1)
  /\ wpc' = "reply"
  /\ UNCHANGED <<evt_req_, evt_res_, req_, t_zorder, output, x264_, WorkerLeaves>>

ReplyLeaves == <<zorder_, req_, t_zorder, served, output, x264_, quit_, WorkerLeaves>>

(* reply() in the other order. *)
reply_signal_first ==
  /\ \/ wpc = "reply" /\ evt_res_' = TRUE /\ wpc' = "signal" /\ UNCHANGED evt_req_
     \/ /\ wpc = "signal" /\ evt_req_' = FALSE /\ wpc' = IF quit_ THEN "loop" ELSE "step"
        /\ UNCHANGED evt_res_
  /\ UNCHANGED ReplyLeaves

(* reply(): evt_req_ is reset, then evt_res_ signalled. *)
reply ==
  /\ \/ wpc = "reply" /\ evt_req_' = FALSE /\ wpc' = "signal" /\ UNCHANGED evt_res_
     \/ /\ wpc = "signal" /\ evt_res_' = TRUE /\ wpc' = IF quit_ THEN "loop" ELSE "step"
        /\ UNCHANGED evt_req_
  /\ UNCHANGED ReplyLeaves

(* The first tests of one_step. *)
one_step ==
  /\ wpc = "step"
  /\ wpc' = IF enabled_ /\ running_ /\ x264_ THEN "push" ELSE "loop"
  /\ UNCHANGED <<zorder_, handshake, output, x264_, quit_, WorkerLeaves>>

(* has_pending_ is set only for the first frame in fifo_. *)
push_announces_first ==
  /\ wpc = "push"
  /\ fifo_' = TRUE
  /\ wpc' = IF fifo_ THEN "loop" ELSE "pending"
  /\ UNCHANGED <<zorder_, handshake, has_pending_, x264_, quit_, WorkerLeaves>>

(* The pictures are drawn under cs_channels_ and encoded, and the frame is *)
(* pushed to fifo_,                                                        *)
push ==
  /\ wpc = "push"
  /\ fifo_' = TRUE
  /\ wpc' = "pending"
  /\ UNCHANGED <<zorder_, handshake, has_pending_, x264_, quit_, WorkerLeaves>>

(* and, without cs_fifo_, announced. *)
pending ==
  /\ wpc = "pending"
  /\ has_pending_' = TRUE
  /\ wpc' = "loop"
  /\ UNCHANGED <<zorder_, handshake, fifo_, x264_, quit_, WorkerLeaves>>

(* After a request to quit: x264_ and canvas_ are deleted. *)
finish ==
  /\ wpc = "loop" /\ quit_
  /\ x264_' = FALSE
  /\ wpc' = "done"
  /\ UNCHANGED <<zorder_, handshake, output, quit_, WorkerLeaves>>

-----------------------------------------------------------------------------
(* The ticker. *)

TickerLeaves == <<zorder_, idle_, link, worker, handshake, enabled_, ticking,
                  video_stream_cnt_, control>>

(* InputSource::save_pic on the channels C: an idle one ignores it. *)
save_pic(C) ==
  pic' = [c \in Channels |-> IF c \in C /\ ~idle_[c] THEN link[c] ELSE pic[c]]

(* channel_process: the pictures of the channels that have input, here     *)
(* some of those linked; then the unprotected test of has_pending_.        *)
channel_process ==
  /\ attached /\ tpc = "idle"
  /\ \E C \in SUBSET {c \in Channels : link[c] # NoStream} :
       IF enabled_ THEN save_pic(C) ELSE UNCHANGED pic
  /\ tpc' = IF has_pending_ THEN "drain" ELSE "idle"
  /\ UNCHANGED <<output, TickerLeaves>>

(* The frames of fifo_ are sent, *)
drain ==
  /\ tpc = "drain"
  /\ fifo_' = FALSE
  /\ tpc' = "clear"
  /\ UNCHANGED <<pic, has_pending_, TickerLeaves>>

(* and has_pending_ is cleared after cs_fifo_ has been released. *)
clear ==
  /\ tpc = "clear"
  /\ has_pending_' = FALSE
  /\ tpc' = "idle"
  /\ UNCHANGED <<pic, fifo_, TickerLeaves>>

-----------------------------------------------------------------------------
(* Commands begin when a client sends them; what begins goes on. *)
Commands ==
  \/ \E s \in Streams : add_video_stream(s) \/ del_video_stream(s)
  \/ \E c \in Channels, oper \in Opers : set_zorder(c, oper)
  \/ \E cmd \in {1, 3} : encoder(cmd)
  \/ uninit

Continue ==
  \/ employ \/ get_channel \/ get_encoder \/ req_returns \/ resume_video
  \/ free_channel \/ join

Worker ==
  \/ start \/ has_req \/ serve \/ reply \/ one_step \/ push \/ pending \/ finish

Ticker == channel_process \/ drain \/ clear

(* The conference is gone. *)
Gone == cpc = "gone" /\ UNCHANGED vars

Next == Commands \/ Continue \/ Worker \/ Ticker \/ Gone

Spec == Init /\ [][Next]_vars

(* The worker and the ticker loop for ever and no lock is held for ever; a *)
(* client need not send anything.                                          *)
FairSpec == Spec /\ WF_vars(Continue) /\ WF_vars(Worker) /\ WF_vars(Ticker)

-----------------------------------------------------------------------------
(* Safety. *)

Employed == {c \in Channels : ~idle_[c]}

Adding    == cpc \in {"employ", "push", "layout"} \/ (cpc = "wait" /\ op = "add")
Answering == wpc \in {"serve", "reply", "signal"}

(* Where the control thread is in the command it executes. *)
ControlInv ==
  /\ cpc = "idle" => op = "none"
  /\ cpc \in {"employ", "push", "layout"} => op = "add"
  /\ cpc = "free" => op = "del" /\ chan \in Channels /\ link[chan] # NoStream
  /\ cpc = "resume" => op \in {"add", "del"}
  /\ cpc \in {"join", "gone"} => op = "quit"
  /\ cpc = "wait" => op \in {"add", "set", "quit"} /\ (req_ = -1 <=> op = "quit")
  /\ cpc = "wait" /\ req_ = 2 => t_zorder \in [id : Channels, oper : Opers]
  /\ Adding => video_stream_cnt_ < MAX_STREAMS
  /\ cpc \in {"employ", "push", "layout"} => cur \in Streams

(* A request is signalled, being served, being answered or answered, and   *)
(* without a request neither event is set and the worker is at none.       *)
HandshakeInv ==
  \/ cpc # "wait" /\ ~evt_req_ /\ ~evt_res_ /\ ~Answering
  \/ /\ cpc = "wait"
     /\ \/ evt_req_ /\ ~evt_res_ /\ ~Answering /\ ~served
        \/ ~evt_req_ /\ ~evt_res_ /\ wpc = "serve" /\ ~served
        \/ ~evt_req_ /\ ~evt_res_ /\ wpc \in {"reply", "signal"} /\ served
        \/ ~evt_req_ /\ evt_res_ /\ ~Answering /\ wpc # "start" /\ served

(* The worker has its encoder between start and end; it ends only on the   *)
(* request of ~CTX, and before it has started no command with a request    *)
(* has come to an end.                                                     *)
WorkerInv ==
  /\ x264_ <=> wpc \notin {"start", "done"}
  /\ quit_ => op = "quit" /\ wpc \in {"reply", "signal", "loop", "done"}
  /\ wpc = "done" => quit_
  /\ wpc = "start" => /\ cpc \notin {"free", "resume", "join", "gone"}
                      /\ cpc = "idle" => \A c \in Channels : link[c] = NoStream

(* A channel has a stream only while it is employed, the picture it shows  *)
(* is of that stream, and the counter counts the employed channels.        *)
ChannelInv ==
  /\ \A c \in Channels : link[c] # NoStream => ~idle_[c]
  /\ \A c \in Employed : pic[c] # NoStream => pic[c] = link[c]
  /\ cpc = "push" => chan \in Employed /\ link[chan] = NoStream /\ pic[chan] = NoStream
  /\ Cardinality(Employed) =
       video_stream_cnt_ + (IF Adding /\ cpc # "employ" THEN 1 ELSE 0)

(* The inductive invariant of the three threads. *)
Inductive == TypeOK /\ ControlInv /\ HandshakeInv /\ WorkerInv /\ ChannelInv

(* zorder_ lists each employed channel once, then holds -1 up to and       *)
(* including the slot that ends every scan; only a channel that            *)
(* get_channel has employed and not yet put on top is missing.             *)
ZOrderExact ==
  LET n == Used(zorder_)
      listed == {zorder_[i] : i \in 0 .. n - 1}
  IN /\ zorder_ \in [Slots -> Channels \cup {-1}]
     /\ \A i \in n .. MAX_CHANNELS : zorder_[i] = -1
     /\ \A i, j \in 0 .. n - 1 : zorder_[i] = zorder_[j] => i = j
     /\ listed = Employed \ (IF cpc = "push" THEN {chan} ELSE {})

(* What one_step draws for an employed channel is a picture of the stream  *)
(* linked to it now, never one that the last user of the channel left.     *)
NoStaleFrame ==
  \A c \in Employed : pic[c] # NoStream => pic[c] = link[c]

(* preprocess calls x264_->force_key_frame without a test: whenever the    *)
(* filter is attached again the worker has created the encoder.            *)
EncoderReady == cpc = "resume" /\ video_stream_cnt_ > 0 => x264_

(* find_video_free_pin asserts cid >= 0: a stream below MAX_STREAMS finds  *)
(* an idle channel.                                                        *)
FreePinFound == cpc = "employ" => \E c \in Channels : idle_[c]

(* req() returns after the worker has executed this very command, never on *)
(* an answer left over from an earlier one.                                *)
ServedBeforeReturn == [][cpc = "wait" /\ cpc' # "wait" => served]_vars

(* The windows that the loop of one_step draws, in its order. *)
Drawn(z) == [i \in 1 .. Used(z) |-> z[i - 1]]

Order == INSTANCE DrawingOrder WITH order <- Drawn(zorder_)

(* The array zorder_ implements the sequence of windows of DrawingOrder:   *)
(* get_channel puts a window on top, free_channel closes the gap, v.zorder *)
(* moves the window of the channel it names, and nothing else any step of  *)
(* the three threads does changes the order.                               *)
DrawsInOrder == Order!Spec

(* The stream for which each channel is employed: until get_channel has    *)
(* linked it, the one that is being added.                                 *)
Owner == [c \in Channels |-> IF idle_[c] THEN NoStream
                             ELSE IF cpc = "push" /\ c = chan THEN cur ELSE link[c]]

(* An employed channel has its stream, and the stream that is about to get *)
(* one has none.                                                           *)
PoolInv ==
  /\ \A c \in Channels : ~idle_[c] /\ ~(cpc = "push" /\ c = chan) => link[c] # NoStream
  /\ cpc = "employ" => \A c \in Channels : link[c] # cur

Pool == INSTANCE ChannelPool
          WITH Places <- Channels, Users <- Streams, Nobody <- NoStream, owner <- Owner

(* The three threads hand out the channels as ChannelPool promises: what   *)
(* they do to idle_, zorder_, link and the picture cache in several steps  *)
(* is one claim or one release, whatever runs in between.                  *)
HandsOutChannels == Pool!Spec

(* Liveness. *)

(* A command that waits for the worker gets its answer. *)
RequestAnswered == cpc = "wait" ~> cpc # "wait"

(* While the mixer stays attached and in use, frames do not get stuck in   *)
(* fifo_, although has_pending_ is set and cleared without cs_fifo_.       *)
FrameSent == <>[](attached /\ enabled_) => []<>(~fifo_)
=============================================================================
