------------------------- MODULE VideoMixerProofs -------------------------
(***************************************************************************)
(* Proofs about VideoMixer, for any set of streams and any numbers of      *)
(* streams and channels.  Nothing but zorder_ depends on zorder_, so the   *)
(* invariant of the three threads is proved first, for all z-order         *)
(* operations; that of the array then rests on it, for all but "bottom".   *)
(***************************************************************************)
EXTENDS VideoMixer, FiniteSetTheorems, TLAPS

LEMMA EmployedFinite ==
  /\ IsFiniteSet(Channels) /\ Cardinality(Channels) = MAX_CHANNELS
  /\ IsFiniteSet(Employed) /\ Cardinality(Employed) \in Nat
  <1>1. IsFiniteSet(Channels) /\ Cardinality(Channels) = MAX_CHANNELS
    BY FS_Interval, MaxAssumption DEF Channels
  <1> QED
    BY <1>1, FS_Subset, FS_CardinalityType DEF Employed

(* Inductive holds before the first step. *)
LEMMA InductiveInit == Init => Inductive
  <1> SUFFICES ASSUME Init PROVE Inductive
    OBVIOUS
  <1>1. Employed = {}
    BY DEF Init, Employed
  <1>2. Cardinality(Employed) = 0
    BY <1>1, FS_EmptySet
  <1>3. TypeOK
    <2>1. t_zorder \in [id : Channels \cup {-1}, oper : Opers \cup {"none"}]
      BY DEF Init, NoOrder
    <2>2. video_stream_cnt_ \in 0 .. MAX_STREAMS /\ req_ \in {-1, 0, 1, 2, 3}
      BY MaxAssumption DEF Init
    <2>3. idle_ \in [Channels -> BOOLEAN] /\ chan \in Channels \cup {-1}
      BY DEF Init
    <2> QED
      BY <2>1, <2>2, <2>3 DEF Init, TypeOK, Content
  <1>4. ControlInv /\ HandshakeInv /\ WorkerInv
    BY DEF Init, ControlInv, HandshakeInv, WorkerInv, Adding, Answering
  <1>5. ChannelInv
    BY <1>1, <1>2 DEF Init, ChannelInv, Adding
  <1> QED
    BY <1>3, <1>4, <1>5 DEF Inductive

(* What the steps of the worker and of the ticker leave to ChannelInv. *)
LEMMA ChannelsKept ==
  ASSUME ChannelInv, UNCHANGED <<idle_, link, cpc, op, chan, video_stream_cnt_>>,
         \/ UNCHANGED pic
         \/ \E C \in SUBSET {c \in Channels : link[c] # NoStream} : save_pic(C)
  PROVE  ChannelInv'
  <1>1. Employed' = Employed /\ Adding' = Adding
    BY DEF Employed, Adding
  <1>2. \A c \in Employed : pic'[c] # NoStream => pic'[c] = link[c]
    BY DEF save_pic, ChannelInv, Employed
  <1>3. cpc = "push" => pic'[chan] = NoStream
    BY DEF save_pic, ChannelInv, Employed
  <1> QED
    BY <1>1, <1>2, <1>3 DEF ChannelInv

LEMMA WorkerStep == Inductive /\ Worker => Inductive'
  <1> SUFFICES ASSUME Inductive, Worker PROVE Inductive'
    OBVIOUS
  <1> USE DEF Inductive
  <1>1. UNCHANGED WorkerLeaves
    BY DEF Worker, start, has_req, serve, reply, one_step, push, pending, finish, ReplyLeaves
  <1>2. ChannelInv'
    BY <1>1, ChannelsKept DEF WorkerLeaves, inputs, control
  <1>3. CASE start
    <2>1. TypeOK'
      BY <1>3 DEF start, TypeOK, WorkerLeaves, inputs, ticking, control, handshake, output
    <2>2. ControlInv'
      BY <1>3 DEF start, ControlInv, Adding, WorkerLeaves, inputs, control, handshake
    <2>3. HandshakeInv' /\ WorkerInv'
      BY <1>3 DEF start, TypeOK, ControlInv, HandshakeInv, WorkerInv, Answering,
         WorkerLeaves, inputs, control, handshake
    <2> QED
      BY <1>2, <2>1, <2>2, <2>3
  <1>4. CASE has_req
    <2>1. TypeOK'
      <3>1. wpc' \in {"serve", "step"} /\ evt_req_' \in BOOLEAN
        BY <1>4 DEF has_req, TypeOK
      <3>2. UNCHANGED <<zorder_, evt_res_, req_, t_zorder, served, output, x264_, quit_>>
        BY <1>4 DEF has_req
      <3> QED
        BY <1>1, <3>1, <3>2 DEF TypeOK, WorkerLeaves, inputs, ticking, control, handshake, output
    <2>2. ControlInv'
      BY <1>4 DEF has_req, ControlInv, Adding, WorkerLeaves, inputs, control, handshake
    <2>3. HandshakeInv' /\ WorkerInv'
      BY <1>4 DEF has_req, TypeOK, ControlInv, HandshakeInv, WorkerInv, Answering,
         WorkerLeaves, inputs, control, handshake
    <2> QED
      BY <1>2, <2>1, <2>2, <2>3
  <1>5. CASE serve
    <2>1. TypeOK'
      BY <1>5 DEF serve, TypeOK, WorkerLeaves, inputs, ticking, control, handshake, output
    <2>2. ControlInv'
      BY <1>5 DEF serve, ControlInv, Adding, WorkerLeaves, inputs, control, handshake
    <2>3. HandshakeInv' /\ WorkerInv'
      BY <1>5 DEF serve, TypeOK, ControlInv, HandshakeInv, WorkerInv, Answering,
         WorkerLeaves, inputs, control, handshake
    <2> QED
      BY <1>2, <2>1, <2>2, <2>3
  <1>6. CASE reply
    <2>1. TypeOK'
      <3>1. /\ wpc' \in {"signal", "loop", "step"}
            /\ evt_req_' \in BOOLEAN /\ evt_res_' \in BOOLEAN
        BY <1>6 DEF reply, TypeOK
      <3>2. UNCHANGED <<zorder_, req_, t_zorder, served, output, x264_, quit_>>
        BY <1>6 DEF reply, ReplyLeaves
      <3> QED
        BY <1>1, <3>1, <3>2 DEF TypeOK, WorkerLeaves, inputs, ticking, control, handshake, output
    <2>2. ControlInv'
      BY <1>6 DEF reply, ReplyLeaves, ControlInv, Adding, WorkerLeaves, inputs, control, handshake
    <2>3. HandshakeInv' /\ WorkerInv'
      BY <1>6 DEF reply, ReplyLeaves, TypeOK, ControlInv, HandshakeInv, WorkerInv, Answering,
         WorkerLeaves, inputs, control, handshake
    <2> QED
      BY <1>2, <2>1, <2>2, <2>3
  <1>7. CASE one_step
    <2>1. TypeOK'
      BY <1>7 DEF one_step, TypeOK, WorkerLeaves, inputs, ticking, control, handshake, output
    <2>2. ControlInv'
      BY <1>7 DEF one_step, ControlInv, Adding, WorkerLeaves, inputs, control, handshake
    <2>3. HandshakeInv' /\ WorkerInv'
      BY <1>7 DEF one_step, TypeOK, ControlInv, HandshakeInv, WorkerInv, Answering,
         WorkerLeaves, inputs, control, handshake
    <2> QED
      BY <1>2, <2>1, <2>2, <2>3
  <1>8. CASE push
    <2>1. TypeOK'
      BY <1>8 DEF push, TypeOK, WorkerLeaves, inputs, ticking, control, handshake, output
    <2>2. ControlInv'
      BY <1>8 DEF push, ControlInv, Adding, WorkerLeaves, inputs, control, handshake
    <2>3. HandshakeInv' /\ WorkerInv'
      BY <1>8 DEF push, TypeOK, ControlInv, HandshakeInv, WorkerInv, Answering,
         WorkerLeaves, inputs, control, handshake
    <2> QED
      BY <1>2, <2>1, <2>2, <2>3
  <1>9. CASE pending
    <2>1. TypeOK'
      BY <1>9 DEF pending, TypeOK, WorkerLeaves, inputs, ticking, control, handshake, output
    <2>2. ControlInv'
      BY <1>9 DEF pending, ControlInv, Adding, WorkerLeaves, inputs, control, handshake
    <2>3. HandshakeInv' /\ WorkerInv'
      BY <1>9 DEF pending, TypeOK, ControlInv, HandshakeInv, WorkerInv, Answering,
         WorkerLeaves, inputs, control, handshake
    <2> QED
      BY <1>2, <2>1, <2>2, <2>3
  <1>10. CASE finish
    <2>1. TypeOK'
      <3>1. wpc' = "done" /\ x264_' \in BOOLEAN
        BY <1>10 DEF finish, TypeOK
      <3>2. UNCHANGED <<zorder_, handshake, output, quit_>>
        BY <1>10 DEF finish
      <3> QED
        BY <1>1, <3>1, <3>2 DEF TypeOK, WorkerLeaves, inputs, ticking, control, handshake, output
    <2>2. ControlInv'
      BY <1>10 DEF finish, ControlInv, Adding, WorkerLeaves, inputs, control, handshake
    <2>3. HandshakeInv' /\ WorkerInv'
      BY <1>10 DEF finish, TypeOK, ControlInv, HandshakeInv, WorkerInv, Answering,
         WorkerLeaves, inputs, control, handshake
    <2> QED
      BY <1>2, <2>1, <2>2, <2>3
  <1> QED
    BY <1>3, <1>4, <1>5, <1>6, <1>7, <1>8, <1>9, <1>10 DEF Worker

LEMMA TickerStep == Inductive /\ Ticker => Inductive'
  <1> SUFFICES ASSUME Inductive, Ticker PROVE Inductive'
    OBVIOUS
  <1> USE DEF Inductive
  <1>1. UNCHANGED TickerLeaves
    BY DEF Ticker, channel_process, drain, clear
  <1>2. pic' \in [Channels -> Content]
    BY DEF Ticker, channel_process, drain, clear, save_pic, TypeOK
  <1>3. tpc' \in {"idle", "drain", "clear"}
    BY DEF Ticker, channel_process, drain, clear
  <1>4. fifo_' \in BOOLEAN /\ has_pending_' \in BOOLEAN
    BY DEF Ticker, channel_process, drain, clear, output, TypeOK
  <1>5. TypeOK'
    BY <1>1, <1>2, <1>3, <1>4 DEF TypeOK, TickerLeaves, worker, handshake, ticking, control
  <1>6. \/ UNCHANGED pic
        \/ \E C \in SUBSET {c \in Channels : link[c] # NoStream} : save_pic(C)
    BY DEF Ticker, channel_process, drain, clear
  <1>7. ChannelInv'
    BY <1>1, <1>6, ChannelsKept DEF TickerLeaves, control
  <1>8. ControlInv' /\ HandshakeInv' /\ WorkerInv'
    BY <1>1 DEF ControlInv, HandshakeInv, WorkerInv, Adding, Answering, TickerLeaves, worker,
       handshake, control
  <1> QED
    BY <1>5, <1>7, <1>8

LEMMA CommandStep == Inductive /\ Commands => Inductive'
  <1> SUFFICES ASSUME Inductive, Commands PROVE Inductive'
    OBVIOUS
  <1> USE DEF Inductive
  <1>1. UNCHANGED <<inputs, worker, video_stream_cnt_, output, enabled_>> /\ cpc = "idle"
    BY DEF Commands, add_video_stream, del_video_stream, set_zorder, encoder, uninit
  <1>2. Employed' = Employed
    BY <1>1 DEF Employed, inputs
  <1>3. ASSUME NEW s \in Streams, add_video_stream(s)
        PROVE  Inductive'
    <2>1. TypeOK'
      <3>1. attached' \in BOOLEAN /\ running_' \in BOOLEAN
        BY <1>3 DEF add_video_stream, pause_video
      <3>2. cur' \in Content /\ chan' \in Channels \cup {-1}
        BY <1>3 DEF add_video_stream, Content, TypeOK
      <3> QED
        BY <1>1, <1>3, <3>1, <3>2 DEF add_video_stream, TypeOK, inputs, worker, handshake, output
    <2>2. ControlInv'
      BY <1>3 DEF add_video_stream, ControlInv, Adding
    <2>3. HandshakeInv' /\ WorkerInv'
      BY <1>3 DEF add_video_stream, ControlInv, HandshakeInv, WorkerInv, Answering, inputs,
         worker, handshake
    <2>4. ChannelInv'
      BY <1>2, <1>3 DEF add_video_stream, ControlInv, ChannelInv, Adding, inputs
    <2> QED
      BY <2>1, <2>2, <2>3, <2>4
  <1>4. ASSUME NEW s \in Streams, del_video_stream(s)
        PROVE  Inductive'
    <2>1. TypeOK'
      <3>1. attached' \in BOOLEAN /\ running_' \in BOOLEAN
        BY <1>4 DEF del_video_stream, pause_video
      <3>2. cur' \in Content /\ chan' \in Channels \cup {-1}
        BY <1>4 DEF del_video_stream, Content, TypeOK
      <3> QED
        BY <1>1, <1>4, <3>1, <3>2 DEF del_video_stream, TypeOK, inputs, worker, handshake, output
    <2>2. ControlInv'
      BY <1>4, NoStreamAssumption DEF del_video_stream, ControlInv, Adding, inputs
    <2>3. HandshakeInv' /\ WorkerInv'
      BY <1>4, NoStreamAssumption DEF del_video_stream, ControlInv, HandshakeInv, WorkerInv,
         Answering, inputs, worker, handshake
    <2>4. ChannelInv'
      BY <1>2, <1>4 DEF del_video_stream, ControlInv, ChannelInv, Adding, inputs
    <2> QED
      BY <2>1, <2>2, <2>3, <2>4
  <1>5. ASSUME NEW cmd \in {-1, 1, 2, 3}, req(cmd), op' \in {"set", "quit"},
               cmd = -1 <=> op' = "quit",
               cmd = 2 => t_zorder' \in [id : Channels, oper : Opers],
               cmd # 2 => UNCHANGED t_zorder,
               UNCHANGED <<enabled_, ticking, cur, chan, tpc>>
        PROVE  Inductive'
    <2>1. TypeOK'
      <3>1. /\ req_' \in {-1, 0, 1, 2, 3} /\ evt_req_' \in BOOLEAN /\ served' \in BOOLEAN
            /\ cpc' = "wait"
        BY <1>5 DEF req
      <3>2. t_zorder' \in [id : Channels \cup {-1}, oper : Opers \cup {"none"}]
        BY <1>5 DEF TypeOK
      <3> QED
        BY <1>1, <1>5, <3>1, <3>2 DEF TypeOK, req, inputs, worker, output, ticking
    <2>2. ControlInv'
      BY <1>5 DEF req, ControlInv, Adding
    <2>3. HandshakeInv' /\ WorkerInv'
      BY <1>1, <1>5 DEF req, ControlInv, HandshakeInv, WorkerInv, Answering, inputs, worker
    <2>4. ChannelInv'
      BY <1>1, <1>2, <1>5 DEF req, ControlInv, ChannelInv, Adding, inputs
    <2> QED
      BY <2>1, <2>2, <2>3, <2>4
  <1>6. ASSUME NEW c \in Channels, NEW oper \in Opers, set_zorder(c, oper)
        PROVE  Inductive'
    BY <1>5, <1>6 DEF set_zorder
  <1>7. ASSUME NEW cmd \in {1, 3}, encoder(cmd)
        PROVE  Inductive'
    BY <1>5, <1>7 DEF encoder
  <1>8. CASE uninit
    BY <1>5, <1>8 DEF uninit
  <1> QED
    BY <1>3, <1>4, <1>6, <1>7, <1>8 DEF Commands


LEMMA ContinueStep == Inductive /\ Continue => Inductive'
  <1> SUFFICES ASSUME Inductive, Continue PROVE Inductive'
    OBVIOUS
  <1> USE DEF Inductive
  <1>1. CASE employ
    <2>1. PICK c \in Channels : /\ idle_[c]
                                /\ idle_' = [idle_ EXCEPT ![c] = FALSE]
                                /\ pic' = [pic EXCEPT ![c] = NoStream]
                                /\ chan' = c
      BY <1>1 DEF employ
    <2>2. Employed' = Employed \cup {c} /\ c \notin Employed
      BY <2>1 DEF Employed, TypeOK
    <2>3. Cardinality(Employed') = Cardinality(Employed) + 1
      BY <2>2, FS_AddElement, EmployedFinite
    <2>4. TypeOK'
      <3>1. idle_' \in [Channels -> BOOLEAN] /\ pic' \in [Channels -> Content]
        BY <2>1 DEF TypeOK, Content
      <3> QED
        BY <1>1, <2>1, <3>1 DEF employ, TypeOK, worker, handshake, output, ticking
    <2>5. ControlInv'
      BY <1>1 DEF employ, ControlInv, Adding
    <2>6. HandshakeInv' /\ WorkerInv'
      BY <1>1 DEF employ, ControlInv, HandshakeInv, WorkerInv, Answering, worker, handshake
    <2>7. ChannelInv'
      <3>1. \A d \in Channels : link'[d] # NoStream => ~idle_'[d]
        BY <1>1, <2>1 DEF employ, ChannelInv, TypeOK
      <3>2. \A d \in Employed' : pic'[d] # NoStream => pic'[d] = link'[d]
        BY <1>1, <2>1, <2>2 DEF employ, ChannelInv, TypeOK
      <3>3. link'[chan'] = NoStream /\ pic'[chan'] = NoStream /\ chan' \in Employed'
        BY <1>1, <2>1, <2>2 DEF employ, ChannelInv, TypeOK
      <3>4. Cardinality(Employed') = video_stream_cnt_ + 1
        BY <1>1, <2>3 DEF employ, ChannelInv, Adding, TypeOK
      <3> QED
        BY <1>1, <3>1, <3>2, <3>3, <3>4 DEF employ, ChannelInv, Adding
    <2> QED
      BY <2>4, <2>5, <2>6, <2>7
  <1>2. CASE get_channel
    <2>1. Employed' = Employed
      BY <1>2 DEF get_channel, Employed
    <2>2. chan \in Employed /\ Employed \subseteq Channels
      BY <1>2 DEF get_channel, ChannelInv, Employed
    <2>3. TypeOK'
      <3>1. link' \in [Channels -> Content]
        BY <1>2 DEF get_channel, TypeOK, Content
      <3> QED
        BY <1>2, <3>1 DEF get_channel, TypeOK, worker, handshake, output, ticking
    <2>4. ControlInv'
      BY <1>2 DEF get_channel, ControlInv, Adding
    <2>5. HandshakeInv' /\ WorkerInv'
      BY <1>2 DEF get_channel, ControlInv, HandshakeInv, WorkerInv, Answering, worker, handshake
    <2>6. ChannelInv'
      <3>1. \A c \in Channels : link'[c] # NoStream => ~idle_[c]
        BY <1>2, <2>2 DEF get_channel, ChannelInv, TypeOK, Employed
      <3>2. \A c \in Employed : pic[c] # NoStream => pic[c] = link'[c]
        BY <1>2, <2>2 DEF get_channel, ChannelInv, TypeOK
      <3> QED
        BY <1>2, <2>1, <3>1, <3>2 DEF get_channel, ChannelInv, Adding
    <2> QED
      BY <2>3, <2>4, <2>5, <2>6
  <1>3. CASE get_encoder
    <2>1. Employed' = Employed
      BY <1>3 DEF get_encoder, Employed, inputs
    <2>2. TypeOK'
      <3>1. /\ req_' \in {-1, 0, 1, 2, 3} /\ evt_req_' \in BOOLEAN /\ served' \in BOOLEAN
            /\ cpc' = "wait" /\ UNCHANGED evt_res_
        BY <1>3 DEF get_encoder, req
      <3> QED
        BY <1>3, <3>1 DEF get_encoder, TypeOK, inputs, worker, output, ticking
    <2>3. ControlInv'
      BY <1>3 DEF get_encoder, req, ControlInv, Adding
    <2>4. HandshakeInv' /\ WorkerInv'
      BY <1>3 DEF get_encoder, req, ControlInv, HandshakeInv, WorkerInv, Answering, worker
    <2>5. ChannelInv'
      BY <1>3, <2>1 DEF get_encoder, req, ControlInv, ChannelInv, Adding, inputs
    <2> QED
      BY <2>2, <2>3, <2>4, <2>5
  <1>4. CASE req_returns
    <2>1. Employed' = Employed
      BY <1>4 DEF req_returns, AfterReq, Employed, inputs
    <2>2. cpc = "wait" /\ op \in {"add", "set", "quit"} /\ ~Answering /\ wpc # "start" /\ ~evt_req_
      BY <1>4 DEF req_returns, ControlInv, HandshakeInv
    <2>3. TypeOK'
      <3>1. video_stream_cnt_' \in 0 .. MAX_STREAMS
        BY <1>4, <2>2, MaxAssumption DEF req_returns, AfterReq, ControlInv, Adding, TypeOK
      <3>2. cpc' \in {"resume", "join", "idle"} /\ op' \in {"add", "none", "quit"}
        BY <1>4, <2>2 DEF req_returns, AfterReq
      <3>3. t_zorder' \in [id : Channels \cup {-1}, oper : Opers \cup {"none"}]
        BY <1>4 DEF req_returns, AfterReq, NoOrder
      <3>4. evt_res_' \in BOOLEAN /\ served' \in BOOLEAN /\ req_' \in {-1, 0, 1, 2, 3}
        BY <1>4 DEF req_returns, AfterReq
      <3> QED
        BY <1>4, <3>1, <3>2, <3>3, <3>4 DEF req_returns, AfterReq, TypeOK, inputs, worker,
           output, ticking
    <2>4. ControlInv'
      BY <1>4, <2>2 DEF req_returns, AfterReq, ControlInv, Adding
    <2>5. HandshakeInv'
      BY <1>4, <2>2 DEF req_returns, AfterReq, HandshakeInv, Answering, worker
    <2>6. WorkerInv'
      BY <1>4, <2>2 DEF req_returns, AfterReq, WorkerInv, worker
    <2>7. ChannelInv'
      BY <1>4, <2>1, <2>2 DEF req_returns, AfterReq, ChannelInv, Adding, TypeOK, inputs
    <2> QED
      BY <2>3, <2>4, <2>5, <2>6, <2>7
  <1>5. CASE resume_video
    <2>1. Employed' = Employed
      BY <1>5 DEF resume_video, Employed, inputs
    <2>2. TypeOK'
      <3>1. fifo_' \in BOOLEAN /\ running_' \in BOOLEAN /\ attached' \in BOOLEAN
        BY <1>5 DEF resume_video, ticking, TypeOK
      <3> QED
        BY <1>5, <3>1 DEF resume_video, TypeOK, Content, inputs, worker, handshake
    <2>3. ControlInv'
      BY <1>5 DEF resume_video, ControlInv, Adding
    <2>4. HandshakeInv' /\ WorkerInv'
      BY <1>5 DEF resume_video, ControlInv, HandshakeInv, WorkerInv, Answering, worker, handshake
    <2>5. ChannelInv'
      BY <1>5, <2>1 DEF resume_video, ChannelInv, Adding, inputs
    <2> QED
      BY <2>2, <2>3, <2>4, <2>5
  <1>6. CASE free_channel
    <2>1. chan \in Channels /\ chan \in Employed
      BY <1>6 DEF free_channel, ControlInv, ChannelInv, Employed
    <2>2. Employed' = Employed \ {chan}
      BY <1>6, <2>1 DEF free_channel, Employed, TypeOK
    <2>3. Cardinality(Employed') = Cardinality(Employed) - 1 /\ Cardinality(Employed') \in Nat
      BY <2>1, <2>2, FS_RemoveElement, FS_CardinalityType, EmployedFinite
    <2>4. Cardinality(Employed) = video_stream_cnt_
      BY <1>6 DEF free_channel, ChannelInv, Adding, TypeOK
    <2>5. TypeOK'
      <3>1. video_stream_cnt_' \in 0 .. MAX_STREAMS
        BY <1>6, <2>3, <2>4, MaxAssumption DEF free_channel, TypeOK
      <3>2. idle_' \in [Channels -> BOOLEAN] /\ link' \in [Channels -> Content]
        BY <1>6 DEF free_channel, TypeOK, Content
      <3> QED
        BY <1>6, <3>1, <3>2 DEF free_channel, TypeOK, worker, handshake, output, ticking
    <2>6. ControlInv'
      BY <1>6 DEF free_channel, ControlInv, Adding
    <2>7. HandshakeInv' /\ WorkerInv'
      BY <1>6 DEF free_channel, ControlInv, HandshakeInv, WorkerInv, Answering, worker, handshake
    <2>8. ChannelInv'
      <3>1. \A c \in Channels : link'[c] # NoStream => ~idle_'[c]
        BY <1>6, <2>1 DEF free_channel, ChannelInv, TypeOK
      <3>2. \A c \in Employed' : pic'[c] # NoStream => pic'[c] = link'[c]
        BY <1>6, <2>1, <2>2 DEF free_channel, ChannelInv, Employed, TypeOK
      <3> QED
        BY <1>6, <2>3, <2>4, <3>1, <3>2 DEF free_channel, ChannelInv, Adding, TypeOK
    <2> QED
      BY <2>5, <2>6, <2>7, <2>8
  <1>7. CASE join
    <2>1. Employed' = Employed
      BY <1>7 DEF join, Employed, inputs
    <2>2. TypeOK'
      BY <1>7 DEF join, TypeOK, inputs, worker, handshake, output, ticking
    <2>3. ControlInv' /\ HandshakeInv' /\ WorkerInv'
      BY <1>7 DEF join, ControlInv, Adding, HandshakeInv, WorkerInv, Answering, worker, handshake
    <2>4. ChannelInv'
      BY <1>7, <2>1 DEF join, ChannelInv, Adding, inputs
    <2> QED
      BY <2>2, <2>3, <2>4
  <1> QED
    BY <1>1, <1>2, <1>3, <1>4, <1>5, <1>6, <1>7 DEF Continue

LEMMA StutterStep == Inductive /\ UNCHANGED vars => Inductive'
  BY DEF Inductive, TypeOK, ControlInv, HandshakeInv, WorkerInv, ChannelInv, Adding, Answering,
     Employed, vars

(* Inductive is an invariant of the video mixer. *)
THEOREM InductiveHolds == Spec => []Inductive
  <1>1. Inductive /\ [Next]_vars => Inductive'
    BY CommandStep, ContinueStep, WorkerStep, TickerStep, StutterStep DEF Next, Gone
  <1> QED
    BY <1>1, InductiveInit, PTL DEF Spec

(* zk.video.mixer.cpp:375: req() never returns on an answer left over from *)
(* an earlier request.                                                     *)
THEOREM ServedBeforeReturnHolds == Spec => ServedBeforeReturn
  <1>1. ASSUME Inductive, [Next]_vars, cpc = "wait", cpc' # "wait"
        PROVE  served
    <2>1. req_returns
      BY <1>1 DEF Next, Gone, Commands, Continue, Worker, Ticker, add_video_stream,
         del_video_stream, set_zorder, encoder, uninit, employ, get_channel, get_encoder,
         resume_video, free_channel, join, start, has_req, serve, reply, ReplyLeaves, one_step,
         push, pending, finish, WorkerLeaves, channel_process, drain, clear, TickerLeaves,
         control, vars
    <2> QED
      BY <1>1, <2>1 DEF req_returns, Inductive, HandshakeInv
  <1>2. Inductive /\ [Next]_vars => [cpc = "wait" /\ cpc' # "wait" => served]_vars
    BY <1>1
  <1> QED
    BY <1>2, InductiveHolds, PTL DEF Spec, ServedBeforeReturn

(* zk.video.mixer.cpp:673: whenever preprocess asks x264_ for a key frame  *)
(* the worker has created it and not yet deleted it.                       *)
THEOREM EncoderReadyHolds == Spec => []EncoderReady
  <1>1. Inductive => EncoderReady
    BY DEF Inductive, ControlInv, WorkerInv, EncoderReady
  <1> QED
    BY <1>1, InductiveHolds, PTL

(* InputSource.cpp:73: no channel shows a picture of a stream it no longer *)
(* has.                                                                    *)
THEOREM NoStaleFrameHolds == Spec => []NoStaleFrame
  <1>1. Inductive => NoStaleFrame
    BY DEF Inductive, ChannelInv, NoStaleFrame
  <1> QED
    BY <1>1, InductiveHolds, PTL

(* DirectorConference.cpp:270: the assertion of find_video_free_pin holds  *)
(* because the counter counts the employed channels.                       *)
THEOREM FreePinFoundHolds == Spec => []FreePinFound
  <1>1. Inductive => FreePinFound
    <2> SUFFICES ASSUME Inductive, cpc = "employ", \A c \in Channels : ~idle_[c]
                 PROVE  FALSE
      BY DEF FreePinFound, Inductive, TypeOK
    <2>1. Employed = Channels
      BY DEF Employed
    <2>2. Cardinality(Employed) < MAX_CHANNELS
      BY MaxAssumption DEF Inductive, ControlInv, ChannelInv, Adding, TypeOK
    <2> QED
      BY <2>1, <2>2, EmployedFinite, MaxAssumption
  <1> QED
    BY <1>1, InductiveHolds, PTL

-----------------------------------------------------------------------------
LEMMA PoolInvStep ==
  ASSUME Inductive, PoolInv, [Next]_vars
  PROVE  PoolInv'
  <1> USE DEF Inductive
  <1>1. ASSUME UNCHANGED <<idle_, link>>,
               \/ UNCHANGED <<cpc, chan, cur>>
               \/ cpc # "push" /\ cpc' \notin {"push", "employ"}
        PROVE  PoolInv'
    BY <1>1 DEF PoolInv
  <1>2. ASSUME NEW s \in Streams, add_video_stream(s) PROVE PoolInv'
    BY <1>2 DEF add_video_stream, inputs, PoolInv
  <1>3. CASE employ
    <2>1. PICK c \in Channels : idle_' = [idle_ EXCEPT ![c] = FALSE] /\ chan' = c
      BY <1>3 DEF employ
    <2>2. cpc = "employ" /\ cpc' = "push" /\ UNCHANGED link
      BY <1>3 DEF employ
    <2> QED
      BY <2>1, <2>2 DEF PoolInv, TypeOK
  <1>4. CASE get_channel
    <2>1. cpc = "push" /\ cpc' = "layout" /\ link' = [link EXCEPT ![chan] = cur] /\ UNCHANGED idle_
      BY <1>4 DEF get_channel
    <2>2. cur # NoStream /\ chan \in Channels
      BY <2>1, NoStreamAssumption DEF ControlInv, ChannelInv, Employed
    <2> QED
      BY <2>1, <2>2 DEF PoolInv, TypeOK
  <1>5. CASE free_channel
    <2>1. /\ cpc = "free" /\ cpc' = "resume" /\ link' = [link EXCEPT ![chan] = NoStream]
          /\ idle_' = [idle_ EXCEPT ![chan] = TRUE]
      BY <1>5 DEF free_channel
    <2>2. chan \in Channels
      BY <2>1 DEF ControlInv
    <2> QED
      BY <2>1, <2>2 DEF PoolInv, TypeOK
  <1>6. CASE Commands /\ ~ \E s \in Streams : add_video_stream(s)
    BY <1>1, <1>6 DEF Commands, del_video_stream, set_zorder, encoder, uninit, req, inputs
  <1>7. CASE get_encoder \/ req_returns \/ resume_video \/ join
    BY <1>1, <1>7 DEF get_encoder, req_returns, AfterReq, resume_video, join, req, inputs
  <1>8. CASE Worker
    BY <1>1, <1>8 DEF Worker, start, has_req, serve, reply, ReplyLeaves, one_step, push, pending,
       finish, WorkerLeaves, inputs, control
  <1>9. CASE Ticker
    BY <1>1, <1>9 DEF Ticker, channel_process, drain, clear, TickerLeaves, control
  <1>10. CASE Gone \/ UNCHANGED vars
    BY <1>1, <1>10 DEF Gone, vars, inputs, control
  <1> QED
    BY <1>2, <1>3, <1>4, <1>5, <1>6, <1>7, <1>8, <1>9, <1>10 DEF Next, Continue, Commands

(* Every step claims a channel, releases one, or leaves them alone. *)
LEMMA PoolStep ==
  ASSUME Inductive, PoolInv, [Next]_vars
  PROVE  [Pool!Next]_Owner
  <1> USE DEF Inductive
  <1>0. NoStream \notin Streams
    BY NoStreamAssumption
  <1>1. ASSUME UNCHANGED <<idle_, link>>,
               \/ UNCHANGED <<cpc, chan, cur>>
               \/ cpc # "push" /\ cpc' # "push"
        PROVE  UNCHANGED Owner
    BY <1>1 DEF Owner
  <1>2. CASE employ
    <2>1. PICK c \in Channels : /\ idle_[c] /\ \A d \in 0 .. c - 1 : ~idle_[d]
                                /\ idle_' = [idle_ EXCEPT ![c] = FALSE] /\ chan' = c
      BY <1>2 DEF employ
    <2>2. cpc = "employ" /\ cpc' = "push" /\ UNCHANGED <<link, cur>> /\ cur \in Streams
      BY <1>2 DEF employ, ControlInv
    <2>3. Owner[c] = NoStream /\ \A d \in 0 .. c - 1 : d \in Channels /\ Owner[d] # NoStream
      BY <2>1, <2>2, MaxAssumption DEF Owner, PoolInv, Channels
    <2>4. \A d \in Channels : Owner[d] # cur
      BY <1>0, <2>2 DEF Owner, PoolInv
    <2>5. Owner' = [Owner EXCEPT ![c] = cur]
      BY <2>1, <2>2 DEF Owner, TypeOK
    <2>6. Pool!Claim(c, cur)
      BY <2>3, <2>4, <2>5 DEF Pool!Claim
    <2> QED
      BY <2>2, <2>6 DEF Pool!Next
  <1>3. CASE get_channel
    <2>1. cpc = "push" /\ cpc' = "layout" /\ link' = [link EXCEPT ![chan] = cur] /\ UNCHANGED idle_
      BY <1>3 DEF get_channel
    <2>2. chan \in Channels
      BY <2>1 DEF ChannelInv, Employed
    <2> QED
      BY <2>1, <2>2 DEF Owner, TypeOK
  <1>4. CASE free_channel
    <2>1. /\ cpc = "free" /\ cpc' = "resume" /\ link' = [link EXCEPT ![chan] = NoStream]
          /\ idle_' = [idle_ EXCEPT ![chan] = TRUE]
      BY <1>4 DEF free_channel
    <2>2. chan \in Channels /\ link[chan] # NoStream /\ ~idle_[chan]
      BY <2>1 DEF ControlInv, ChannelInv
    <2>3. Owner[chan] # NoStream /\ Owner' = [Owner EXCEPT ![chan] = NoStream]
      BY <2>1, <2>2 DEF Owner, TypeOK
    <2> QED
      BY <2>2, <2>3 DEF Pool!Next, Pool!Release
  <1>5. CASE Commands
    BY <1>1, <1>5 DEF Commands, add_video_stream, del_video_stream, set_zorder, encoder, uninit,
       req, inputs
  <1>6. CASE get_encoder \/ req_returns \/ resume_video \/ join
    BY <1>1, <1>6 DEF get_encoder, req_returns, AfterReq, resume_video, join, req, inputs
  <1>7. CASE Worker
    BY <1>1, <1>7 DEF Worker, start, has_req, serve, reply, ReplyLeaves, one_step, push, pending,
       finish, WorkerLeaves, inputs, control
  <1>8. CASE Ticker
    BY <1>1, <1>8 DEF Ticker, channel_process, drain, clear, TickerLeaves, control
  <1>9. CASE Gone \/ UNCHANGED vars
    BY <1>1, <1>9 DEF Gone, vars, inputs, control
  <1> QED
    BY <1>2, <1>3, <1>4, <1>5, <1>6, <1>7, <1>8, <1>9 DEF Next, Continue

(* zk.video.mixer.cpp:242, DirectorConference.cpp:270: the steps in which  *)
(* the threads employ, list, link and free a channel amount to one claim   *)
(* and one release of it, for any numbers of streams and channels.         *)
THEOREM HandsOutChannelsHolds == Spec => HandsOutChannels
  <1>1. Init => Pool!Init /\ PoolInv
    BY DEF Init, Pool!Init, Owner, PoolInv
  <1>2. Inductive /\ PoolInv /\ [Next]_vars => PoolInv'
    BY PoolInvStep
  <1>3. Inductive /\ PoolInv /\ [Next]_vars => [Pool!Next]_Owner
    BY PoolStep
  <1> QED
    BY <1>1, <1>2, <1>3, InductiveHolds, PTL DEF Spec, HandsOutChannels, Pool!Spec
=============================================================================
