----------------------------- MODULE Director -----------------------------
(***************************************************************************)
(* The mixers of a director conference (zonekey_mcu/DirectorConference.cpp)*)
(* as the streams use them: the pins of the audio mixer, the audio mixer   *)
(* filter itself (zonekey_audio_mixer/audiomixer.c), and the windows of    *)
(* the video mixer's channels.                                             *)
(*                                                                         *)
(* Commands are serialised by cs_conferences_ and detach the audio mixer   *)
(* from its ticker while they change its links, so a command is one step   *)
(* and so is a pass of the ticker through the filter.                      *)
(*                                                                         *)
(* Audio is cut into the blocks the mixer reads per tick; a block is       *)
(* represented by the stream that spoke it.  A window (x, y, width,        *)
(* height, alpha) is the number of a cell of the default grid or one of    *)
(* the Places that clients choose.  The threads of the video mixer are in  *)
(* module VideoMixer; here a channel is employed from add to delete.       *)
(***************************************************************************)
EXTENDS Integers, Sequences, FiniteSetsExt

CONSTANTS
  Audio, Video,  \* streams by payload
  Silence,       \* no stream; no block
  MAX_STREAMS,   \* of DirectorConference.h
  PurgeOffset,   \* purgeoffset, in blocks (8 in the code: MAX_LATENCY)
  MaxLive,       \* bound on the streams that are live at a time
  MaxBurst,      \* bound on the blocks a decoder delivers in one tick
  Places,        \* windows that clients choose
  MaxSample      \* the largest sample (32767 in the code)

ASSUME SilenceAssumption == Silence \notin Audio \cup Video
ASSUME KindsAssumption == Audio \cap Video = {}
ASSUME BoundsAssumption ==
  /\ MAX_STREAMS \in Nat \ {0} /\ PurgeOffset \in Nat
  /\ MaxLive \in Nat /\ MaxBurst \in Nat /\ MaxSample \in Nat
ASSUME PlacesAssumption == Places \cap Int = {}

Pins    == 0 .. MAX_STREAMS - 1
Preview == MAX_STREAMS           \* ZONEKEY_AUDIO_MIXER_PREVIEW_PIN
Windows == Pins \cup Places
Streams == Audio \cup Video

VARIABLES
  kind,        \* kind[s]: "none", "sink" (it has a sender) or "publisher" (it has
               \* none); every video stream is "sink", its sender has the pin of
               \* video_tee_ with the channel's number to itself
  channel_id,  \* channel_id[s]: the pin, or the channel, of s; -1 without one
  inputs, outputs,    \* the streams linked to the pins of audio_mixer_
  audio_stream_cnt_,
  attached,    \* the ticker runs the audio mixer
  aborted,     \* ms_fatal has ended the process
  buf,         \* buf[p]: channels[p].bufferizer, oldest block first
  input,       \* input[p]: channels[p].input, the block read in this tick
  sum,         \* the pins whose block is in sum
  user,        \* user[c]: the stream that employs channel c of video_mixer_
  window,      \* window[c]: the want_ parameters of channel c
  refused,     \* history: streams that ms_filter_link refused
  asked,       \* history: the window last asked for stream s
  displaced,   \* history: streams whose window an audio stream's v.desc has set
  turns        \* turns[p]: history: the ticks that have passed since a stream was
               \* linked to pin p, counted as far as PurgeOffset + 1

audio  == <<inputs, outputs, audio_stream_cnt_, attached, aborted, buf, input, sum, refused,
            turns>>
layout == <<user, window, asked, displaced>>
vars   == <<kind, channel_id, audio, layout>>

TypeOK ==
  /\ kind \in [Streams -> {"none", "sink", "publisher"}]
  /\ channel_id \in [Streams -> Pins \cup {-1}]
  /\ inputs \in [Pins -> Audio \cup {Silence}]
  /\ outputs \in [Pins -> Audio \cup {Silence}]
  /\ audio_stream_cnt_ \in 0 .. MAX_STREAMS
  /\ attached \in BOOLEAN /\ aborted \in BOOLEAN
  /\ buf \in [Pins -> Seq(Audio)]
  /\ input \in [Pins -> Audio \cup {Silence}]
  /\ sum \in SUBSET Pins
  /\ user \in [Pins -> Video \cup {Silence}]
  /\ window \in [Pins -> Windows]
  /\ refused \in SUBSET Audio
  /\ asked \in [Video -> Windows]
  /\ displaced \in SUBSET Video
  /\ turns \in [Pins -> 0 .. PurgeOffset + 1]

Init ==
  /\ kind = [s \in Streams |-> "none"]
  /\ channel_id = [s \in Streams |-> -1]
  /\ inputs = [p \in Pins |-> Silence]
  /\ outputs = [p \in Pins |-> Silence]
  /\ audio_stream_cnt_ = 0
  /\ attached = FALSE /\ aborted = FALSE
  /\ buf = [p \in Pins |-> <<>>]
  /\ input = [p \in Pins |-> Silence]
  /\ sum = {}
  /\ user = [c \in Pins |-> Silence]
  /\ window = [c \in Pins |-> c]
  /\ refused = {}
  /\ asked = [s \in Video |-> 0]
  /\ displaced = {}
  /\ turns = [p \in Pins |-> 0]

Live(S) == {s \in S : kind[s] # "none"}

(* Conference::addStream creates s. *)
Creates(s) == ~aborted /\ kind[s] = "none" /\ Cardinality(Live(Streams)) < MaxLive

-----------------------------------------------------------------------------
(* Audio streams. *)

(* postprocess frees the inputs and the sum, preprocess allocates them     *)
(* anew, zeroed; the bufferizers keep their content.                       *)
preprocess == sum' = {} /\ input' = [p \in Pins |-> Silence]

(* resume_audio: with a stream left the mixer is attached, and             *)
(* ms_ticker_attach ends the process if no filter around it is a source.   *)
resume_audio ==
  /\ attached' = (audio_stream_cnt_' > 0 /\ \E p \in Pins : inputs'[p] # Silence)
  /\ aborted' = (audio_stream_cnt_' > 0 /\ \A p \in Pins : inputs'[p] = Silence)
  /\ preprocess
  /\ turns' = [p \in Pins |-> IF inputs'[p] = Silence THEN 0 ELSE turns[p]]

(* find_audio_free_pin: the first pin that has no output. *)
FreePin(p) == outputs[p] = Silence /\ \A q \in 0 .. p - 1 : outputs[q] # Silence

(* ms_filter_link to the input p: refused when the pin is taken. *)
link_input(s, p) ==
  IF inputs[p] = Silence
  THEN inputs' = [inputs EXCEPT ![p] = s] /\ UNCHANGED refused
  ELSE refused' = refused \cup {s} /\ UNCHANGED inputs

(* add_audio_stream of a stream with a sender (k = "sink") or with a       *)
(* publisher instead; at MAX_STREAMS it returns -2.                        *)
add_audio_stream(s, k) ==
  /\ Creates(s)
  /\ audio_stream_cnt_ < MAX_STREAMS
  /\ \E p \in Pins :
       /\ FreePin(p)
       /\ link_input(s, p)
       /\ outputs' = IF k = "sink" THEN [outputs EXCEPT ![p] = s] ELSE outputs
       /\ channel_id' = [channel_id EXCEPT ![s] = p]
  /\ kind' = [kind EXCEPT ![s] = k]
  /\ audio_stream_cnt_' = audio_stream_cnt_ + 1
  /\ resume_audio
  /\ UNCHANGED <<buf, layout>>

(* ms_filter_unlink that does not compare the two ends. *)
Unlink_unchecked(ends, s, p) == [ends EXCEPT ![p] = Silence]

(* ms_filter_unlink: only what is linked to s is unlinked. *)
Unlink(ends, s, p) == IF ends[p] = s THEN [ends EXCEPT ![p] = Silence] ELSE ends

(* del_audio_stream that leaves the decoder linked. *)
del_audio_stream_output_only(s) ==
  /\ ~aborted /\ kind[s] # "none"
  /\ outputs' = IF kind[s] = "sink" THEN Unlink(outputs, s, channel_id[s]) ELSE outputs
  /\ kind' = [kind EXCEPT ![s] = "none"]
  /\ channel_id' = [channel_id EXCEPT ![s] = -1]
  /\ refused' = refused \ {s}
  /\ audio_stream_cnt_' = audio_stream_cnt_ - 1
  /\ UNCHANGED inputs
  /\ resume_audio
  /\ UNCHANGED <<buf, layout>>

(* del_audio_stream that leaves the sender linked. *)
del_audio_stream_input_only(s) ==
  /\ ~aborted /\ kind[s] # "none"
  /\ inputs' = Unlink(inputs, s, channel_id[s])
  /\ kind' = [kind EXCEPT ![s] = "none"]
  /\ channel_id' = [channel_id EXCEPT ![s] = -1]
  /\ refused' = refused \ {s}
  /\ audio_stream_cnt_' = audio_stream_cnt_ - 1
  /\ UNCHANGED outputs
  /\ resume_audio
  /\ UNCHANGED <<buf, layout>>

(* del_audio_stream; the stream is then deleted. *)
del_audio_stream(s) ==
  /\ ~aborted /\ kind[s] # "none"
  /\ inputs' = Unlink(inputs, s, channel_id[s])
  /\ outputs' = IF kind[s] = "sink" THEN Unlink(outputs, s, channel_id[s]) ELSE outputs
  /\ kind' = [kind EXCEPT ![s] = "none"]
  /\ channel_id' = [channel_id EXCEPT ![s] = -1]
  /\ refused' = refused \ {s}
  /\ audio_stream_cnt_' = audio_stream_cnt_ - 1
  /\ resume_audio
  /\ UNCHANGED <<buf, layout>>

-----------------------------------------------------------------------------
(* A tick of the audio mixer. *)

Linked == {p \in Pins : inputs[p] # Silence}

(* channel_process_in: a block is read and added to the sum, or else the   *)
(* input is silence; a pin that is not linked is passed over.              *)
channel_process_in(B) ==
  /\ input' = [p \in Pins |-> IF p \notin Linked THEN input[p]
                              ELSE IF B[p] # <<>> THEN Head(B[p]) ELSE Silence]
  /\ sum' = {p \in Linked : B[p] # <<>>}

(* What is left of a bufferizer b, without the purge. *)
Left_unpurged(b) == IF b = <<>> THEN b ELSE Tail(b)

(* What is left of a bufferizer b after the read: nothing when that is     *)
(* more than purgeoffset.                                                  *)
Left(b) == LET rest == IF b = <<>> THEN b ELSE Tail(b)
           IN IF Len(rest) > PurgeOffset THEN <<>> ELSE rest

(* mixer_process: n[p] blocks have arrived at pin p. *)
mixer_process(n) ==
  LET B == [p \in Pins |-> IF p \in Linked THEN buf[p] \o [i \in 1 .. n[p] |-> inputs[p]]
                           ELSE buf[p]]
  IN /\ attached
     /\ channel_process_in(B)
     /\ buf' = [p \in Pins |-> IF p \in Linked THEN Left(B[p]) ELSE buf[p]]
     /\ turns' = [p \in Pins |-> IF p \in Linked /\ turns[p] <= PurgeOffset
                                  THEN turns[p] + 1 ELSE turns[p]]
     /\ UNCHANGED <<kind, channel_id, inputs, outputs, audio_stream_cnt_, attached, aborted,
                    refused, layout>>

(* The samples of a tick when stream s speaks v[s]. *)
Sample(v, b) == IF b = Silence THEN 0 ELSE v[b]

saturate(x) == IF x > MaxSample THEN MaxSample ELSE IF x < -MaxSample THEN -MaxSample ELSE x

(* What each pin contributes to a tick. *)
Contribution(v) == [p \in Pins |-> Sample(v, input[p])]

(* The sum kept in 16 bits, as the samples are. *)
accumulate_saturated(v, P) ==
  MapThenFoldSet(LAMBDA a, b : saturate(a + b), 0, LAMBDA p : Contribution(v)[p],
                 LAMBDA S : CHOOSE p \in S : TRUE, P)

Total(f, P) == MapThenSumSet(LAMBDA p : f[p], P)

(* accumulate, of the pins P: the sum has 32 bits. *)
accumulate(v, P) == Total(Contribution(v), P)

(* channel_process_out: the sample sent on output p, the sum without the   *)
(* own contribution.                                                       *)
channel_process_out(p, v) ==
  saturate(accumulate(v, sum) - (IF p = Preview THEN 0 ELSE Contribution(v)[p]))

tick == \E n \in [Linked -> 0 .. MaxBurst] : mixer_process(n)

-----------------------------------------------------------------------------
(* Video streams and their windows. *)

(* set_channel_desc: an idle channel ignores it. *)
set_channel_desc(W, c, w) == IF user[c] = Silence THEN W ELSE [W EXCEPT ![c] = w]

(* add_video_stream: get_channel finds the first idle channel;             *)
(* set_video_stream_params_layout gives it the place the client asks for   *)
(* or the cell of its number.                                              *)
add_video_stream(s) ==
  /\ Creates(s)
  /\ \E c \in Pins :
       /\ user[c] = Silence /\ \A d \in 0 .. c - 1 : user[d] # Silence
       /\ user' = [user EXCEPT ![c] = s]
       /\ channel_id' = [channel_id EXCEPT ![s] = c]
       /\ \E w \in Places \cup {c} :
            /\ window' = [window EXCEPT ![c] = w]
            /\ asked' = [asked EXCEPT ![s] = w]
  /\ kind' = [kind EXCEPT ![s] = "sink"]
  /\ UNCHANGED <<audio, displaced>>

(* free_channel.  Nothing reads the window of an idle channel before        *)
(* add_video_stream sets it: it is given back its first value.              *)
del_video_stream(s) ==
  /\ ~aborted /\ kind[s] # "none"
  /\ user' = [user EXCEPT ![channel_id[s]] = Silence]
  /\ kind' = [kind EXCEPT ![s] = "none"]
  /\ channel_id' = [channel_id EXCEPT ![s] = -1]
  /\ window' = [window EXCEPT ![channel_id[s]] = channel_id[s]]
  /\ asked' = [asked EXCEPT ![s] = 0]
  /\ displaced' = displaced \ {s}
  /\ UNCHANGED audio

(* v.desc: find_stream finds streams of either payload, and the number of  *)
(* an audio stream's pin is taken for a channel.                           *)
sp_v_desc(s, w) ==
  /\ ~aborted /\ kind[s] # "none"
  /\ window' = set_channel_desc(window, channel_id[s], w)
  /\ asked' = IF s \in Video THEN [asked EXCEPT ![s] = w] ELSE asked
  /\ displaced' = IF s \in Video THEN displaced \ {s}
                  ELSE displaced \cup ({user[channel_id[s]]} \ {Silence})
  /\ UNCHANGED <<kind, channel_id, audio, user>>

(* vs_exchange_position that reads the second window after the first is set. *)
Exchange_in_place(W, c, d) == [W EXCEPT ![c] = W[d]]

(* hlp_get_v_desc of both streams, then hlp_set_v_desc of both. *)
Exchange(W, c, d) == [W EXCEPT ![c] = W[d], ![d] = W[c]]

vs_exchange_position(s, t) ==
  /\ ~aborted /\ kind[s] # "none" /\ kind[t] # "none"
  /\ window' = Exchange(window, channel_id[s], channel_id[t])
  /\ asked' = [asked EXCEPT ![s] = asked[t], ![t] = asked[s]]
  /\ displaced' = (displaced \ {s, t}) \cup (IF s \in displaced THEN {t} ELSE {})
                                        \cup (IF t \in displaced THEN {s} ELSE {})
  /\ UNCHANGED <<kind, channel_id, audio, user>>

-----------------------------------------------------------------------------
Aborted == aborted /\ UNCHANGED vars

Next ==
  \/ \E s \in Audio : \/ \E k \in {"sink", "publisher"} : add_audio_stream(s, k)
                      \/ del_audio_stream(s)
  \/ tick
  \/ \E s \in Video : \/ add_video_stream(s)
                      \/ del_video_stream(s)
                      \/ \E t \in Video \ {s} : vs_exchange_position(s, t)
  \/ \E s \in Streams, w \in Places : sp_v_desc(s, w)
  \/ Aborted

Spec == Init /\ [][Next]_vars

-----------------------------------------------------------------------------
(* The counter counts the live audio streams. *)
CountInv ==
  IsFiniteSet(Live(Audio)) /\ audio_stream_cnt_ = Cardinality(Live(Audio))

(* An output belongs to the one live stream with a sender that has its     *)
(* number, an input to the one stream that has its number and was not      *)
(* refused.                                                                *)
PinsInv ==
  /\ \A s \in Streams : kind[s] = "none" <=> channel_id[s] = -1
  /\ \A p \in Pins, s \in Audio : outputs[p] = s <=> kind[s] = "sink" /\ channel_id[s] = p
  /\ \A p \in Pins, s \in Audio : inputs[p] = s <=> s \notin refused /\ channel_id[s] = p
  /\ refused \subseteq Live(Audio)

(* A video channel belongs to the one live video stream of its number. *)
ChannelsInv == \A c \in Pins, s \in Video : user[c] = s <=> channel_id[s] = c

(* The ticker runs the mixer only when something is linked to it, and the  *)
(* process ends only when nothing is.                                      *)
RunInv == (attached => Linked # {}) /\ (aborted => Linked = {})

(* What is in the sum is what the inputs hold, and only a linked pin holds *)
(* anything: preprocess has emptied the pin that lost its stream.          *)
MixInv == \A p \in Pins : /\ p \in sum <=> input[p] # Silence
                          /\ input[p] # Silence => p \in Linked

(* No pin holds back more than purgeoffset, and what it holds of a stream  *)
(* that is no longer linked to it will have been read by the tick of that  *)
(* number after the next stream came.                                      *)
BufInv ==
  \A p \in Pins :
    /\ Len(buf[p]) <= PurgeOffset
    /\ p \notin Linked => turns[p] = 0
    /\ \A i \in 1 .. Len(buf[p]) : buf[p][i] # inputs[p] => i + turns[p] <= PurgeOffset
    /\ input[p] \notin {Silence, inputs[p]} => turns[p] <= PurgeOffset

(* The inductive invariant. *)
Inductive ==
  TypeOK /\ CountInv /\ PinsInv /\ ChannelsInv /\ RunInv /\ MixInv /\ BufInv

(* find_audio_free_pin asserts that there is a pin: a stream below         *)
(* MAX_STREAMS finds one.                                                  *)
FreeAudioPin == audio_stream_cnt_ < MAX_STREAMS => \E p \in Pins : outputs[p] = Silence

(* ms_ticker_attach finds a source around the mixer as long as one live    *)
(* stream was linked: the process ends only when every one was refused.    *)
AbortedOnlyUnlinked == aborted => Live(Audio) \subseteq refused

(* msticker.c:149 takes it for fatal that a filter to be attached has no   *)
(* source around it; DirectorConference attaches the mixer when it counts  *)
(* a stream.                                                               *)
SourceFound == ~aborted

(* A stream is refused only behind a live stream without a sender, whose   *)
(* pin find_audio_free_pin takes for free: streams that all have senders   *)
(* are all mixed.                                                          *)
RefusedByPublisher ==
  [][\A s \in refused' \ refused :
       \E t \in Live(Audio) : kind[t] = "publisher" /\ channel_id[t] = channel_id'[s]]_vars

(* A sample that arrives may be one below what saturate lets out. *)
Samples == -MaxSample - 1 .. MaxSample

(* audiomixer.c:60: each output is the clipped sum of all the other pins,  *)
(* and the preview of all, whatever the samples: neither a pin that is     *)
(* silent in this tick nor one that lost its stream nor a sum that leaves  *)
(* the range of a sample spoils it.                                        *)
MixMinus ==
  attached =>
    \A v \in [{input[q] : q \in Pins} \ {Silence} -> Samples],
       p \in {q \in Pins : outputs[q] # Silence} \cup {Preview} :
      channel_process_out(p, v) = saturate(Total(Contribution(v), sum \ {p}))

(* audiomixer.c:99, 252: nothing empties the bufferizer of a pin whose     *)
(* stream goes, yet the departed is heard under the next stream of the pin *)
(* only in its first purgeoffset ticks (MAX_LATENCY), however far behind   *)
(* the pin was, and whatever comes, goes or bursts at it and other pins.   *)
DepartedSoonSilent ==
  \A p \in Pins : input[p] \notin {Silence, inputs[p]} => turns[p] <= PurgeOffset

(* DirectorConference.cpp:425: the window of a live video stream is the    *)
(* one last asked for it, by dc.add_stream, v.desc or an exchange, as long *)
(* as v.desc has not named an audio stream whose pin has the same number.  *)
WindowAsAsked ==
  \A s \in Live(Video) \ displaced : window[channel_id[s]] = asked[s]

VideoPool == INSTANCE ChannelPool
               WITH Places <- Pins, Users <- Video, Nobody <- Silence, owner <- user
AudioPool == INSTANCE ChannelPool
               WITH Places <- Pins, Users <- Audio, Nobody <- Silence, owner <- outputs

(* get_channel, find_audio_free_pin: the channels of the video mixer and   *)
(* the outputs of the audio mixer are handed out as ChannelPool promises;  *)
(* a stream without a sender, refused or not, takes and leaves no output.  *)
HandsOutPins == VideoPool!Spec /\ AudioPool!Spec
=============================================================================
