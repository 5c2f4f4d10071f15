-------------------------- MODULE DirectorProofs --------------------------
(***************************************************************************)
(* Proofs about Director, for any streams, any number of pins and any      *)
(* bounds.                                                                 *)
(***************************************************************************)
EXTENDS Director, FiniteSetTheorems, FunctionTheorems, TLAPS

(* Inductive holds in a new conference. *)
LEMMA InductiveInit == Init => Inductive
  <1> SUFFICES ASSUME Init PROVE Inductive
    OBVIOUS
  <1>1. Live(Audio) = {} /\ Linked = {}
    BY DEF Init, Live, Linked, Streams
  <1>2. CountInv
    BY <1>1, FS_EmptySet DEF Init, CountInv
  <1>3. TypeOK
    <2>1. audio_stream_cnt_ \in 0 .. MAX_STREAMS /\ asked \in [Video -> Windows]
      BY BoundsAssumption DEF Init, Windows, Pins
    <2>2. buf \in [Pins -> Seq(Audio)]
      BY DEF Init
    <2>3. turns \in [Pins -> 0 .. PurgeOffset + 1]
      BY BoundsAssumption DEF Init
    <2> QED
      BY <2>1, <2>2, <2>3 DEF Init, TypeOK, Windows
  <1>4. PinsInv /\ ChannelsInv
    BY <1>1, SilenceAssumption DEF Init, PinsInv, ChannelsInv, Streams, Pins
  <1>5. RunInv /\ MixInv /\ BufInv
    BY BoundsAssumption DEF Init, RunInv, MixInv, BufInv
  <1> QED
    BY <1>2, <1>3, <1>4, <1>5 DEF Inductive

(* What a step that keeps the audio pins keeps of the invariant. *)
LEMMA AudioKept ==
  ASSUME CountInv, RunInv, MixInv, BufInv, UNCHANGED audio,
         \A s \in Audio : kind'[s] = kind[s]
  PROVE  CountInv' /\ RunInv' /\ MixInv' /\ BufInv' /\ Live(Audio)' = Live(Audio)
  <1>1. BufInv'
    BY DEF BufInv, Linked, audio
  <1> QED
    BY <1>1 DEF CountInv, RunInv, MixInv, Live, Linked, audio

(* A stream that comes is counted. *)
LEMMA CountAdd ==
  ASSUME CountInv, NEW s \in Audio, kind[s] = "none", NEW k, k # "none",
         kind \in [Streams -> {"none", "sink", "publisher"}],
         kind' = [kind EXCEPT ![s] = k],
         audio_stream_cnt_' = audio_stream_cnt_ + 1
  PROVE  CountInv'
  <1>1. Live(Audio)' = Live(Audio) \cup {s} /\ s \notin Live(Audio)
    BY DEF Live, Streams
  <1> QED
    BY <1>1, FS_AddElement DEF CountInv

(* A stream that goes is counted off. *)
LEMMA CountRemove ==
  ASSUME CountInv, NEW s \in Audio, kind[s] # "none",
         kind \in [Streams -> {"none", "sink", "publisher"}],
         kind' = [kind EXCEPT ![s] = "none"],
         audio_stream_cnt_' = audio_stream_cnt_ - 1
  PROVE  CountInv' /\ audio_stream_cnt_' \in Nat
  <1>1. Live(Audio)' = Live(Audio) \ {s} /\ s \in Live(Audio)
    BY DEF Live, Streams
  <1>2. IsFiniteSet(Live(Audio)') /\ Cardinality(Live(Audio)') = Cardinality(Live(Audio)) - 1
    BY <1>1, FS_RemoveElement DEF CountInv
  <1> QED
    BY <1>2, FS_CardinalityType DEF CountInv

(* resume_audio leaves the mixer running or the process ended as RunInv    *)
(* says.                                                                   *)
LEMMA ResumeStep ==
  ASSUME resume_audio
  PROVE  /\ RunInv' /\ MixInv'
         /\ attached' \in BOOLEAN /\ aborted' \in BOOLEAN
         /\ sum' = {} /\ input' = [p \in Pins |-> Silence]
  <1>1. attached' \in BOOLEAN /\ aborted' \in BOOLEAN
    BY DEF resume_audio
  <1>2. sum' = {} /\ input' = [p \in Pins |-> Silence]
    BY DEF resume_audio, preprocess
  <1>3. attached' => Linked' # {}
    BY DEF resume_audio, Linked
  <1>4. aborted' => Linked' = {}
    BY DEF resume_audio, Linked
  <1>5. MixInv'
    BY <1>2 DEF MixInv
  <1> QED
    BY <1>1, <1>2, <1>3, <1>4, <1>5 DEF RunInv

(* A pin that loses or gets a stream keeps what is buffered, and the count *)
(* of its ticks begins again.                                              *)
LEMMA ResumeBuf ==
  ASSUME Inductive, resume_audio, UNCHANGED buf,
         \A p \in Pins : inputs'[p] = inputs[p] \/ inputs'[p] = Silence \/ inputs[p] = Silence
  PROVE  BufInv' /\ turns' \in [Pins -> 0 .. PurgeOffset + 1]
  <1> USE DEF Inductive
  <1>1. turns' = [p \in Pins |-> IF inputs'[p] = Silence THEN 0 ELSE turns[p]]
    BY DEF resume_audio
  <1>2. turns' \in [Pins -> 0 .. PurgeOffset + 1]
    BY <1>1, BoundsAssumption DEF TypeOK
  <1>3. ASSUME NEW p \in Pins
        PROVE  /\ Len(buf'[p]) <= PurgeOffset
               /\ p \notin Linked' => turns'[p] = 0
               /\ \A i \in 1 .. Len(buf'[p]) :
                    buf'[p][i] # inputs'[p] => i + turns'[p] <= PurgeOffset
               /\ input'[p] \notin {Silence, inputs'[p]} => turns'[p] <= PurgeOffset
    <2>1. input'[p] = Silence
      BY ResumeStep
    <2>2. Len(buf[p]) <= PurgeOffset /\ Len(buf[p]) \in Nat
      BY DEF BufInv, TypeOK
    <2>3. CASE turns'[p] = 0
      BY <2>1, <2>2, <2>3, BoundsAssumption
    <2>4. CASE inputs'[p] # Silence /\ turns'[p] # 0
      <3>1. turns'[p] = turns[p] /\ inputs'[p] = inputs[p]
        BY <1>1, <2>4 DEF BufInv, Linked
      <3> QED
        BY <2>1, <2>4, <3>1 DEF BufInv, Linked
    <2> QED
      BY <1>1, <2>3, <2>4
  <1> QED
    BY <1>2, <1>3 DEF BufInv

LEMMA AddAudioStep ==
  ASSUME Inductive, NEW s \in Audio, NEW k \in {"sink", "publisher"}, add_audio_stream(s, k)
  PROVE  Inductive'
  <1> USE DEF Inductive
  <1>1. PICK p \in Pins : /\ FreePin(p) /\ link_input(s, p)
                          /\ outputs' = IF k = "sink" THEN [outputs EXCEPT ![p] = s] ELSE outputs
                          /\ channel_id' = [channel_id EXCEPT ![s] = p]
    BY DEF add_audio_stream
  <1>2. s \in Streams /\ s # Silence /\ s \notin Video /\ p # -1
    BY SilenceAssumption, KindsAssumption, BoundsAssumption DEF Streams, Pins
  <1>3. /\ RunInv' /\ MixInv' /\ attached' \in BOOLEAN /\ aborted' \in BOOLEAN
        /\ sum' = {} /\ input' = [q \in Pins |-> Silence]
    BY ResumeStep DEF add_audio_stream
  <1>4. CountInv'
    <2>1. kind[s] = "none" /\ kind' = [kind EXCEPT ![s] = k]
          /\ audio_stream_cnt_' = audio_stream_cnt_ + 1
      BY DEF add_audio_stream, Creates
    <2> QED
      BY <2>1, CountAdd DEF TypeOK
  <1>5. kind[s] = "none" /\ channel_id[s] = -1 /\ s \notin refused
    BY <1>2 DEF add_audio_stream, Creates, PinsInv, Live
  <1>bufs. BufInv' /\ turns' \in [Pins -> 0 .. PurgeOffset + 1]
    <2>1. \A q \in Pins : inputs'[q] = inputs[q] \/ inputs'[q] = Silence \/ inputs[q] = Silence
      BY <1>1 DEF link_input, TypeOK
    <2> QED
      BY <2>1, ResumeBuf DEF add_audio_stream
  <1>6. TypeOK'
    <2>1. kind' \in [Streams -> {"none", "sink", "publisher"}]
          /\ channel_id' \in [Streams -> Pins \cup {-1}]
      BY <1>1 DEF add_audio_stream, TypeOK
    <2>2. inputs' \in [Pins -> Audio \cup {Silence}] /\ refused' \in SUBSET Audio
      BY <1>1 DEF link_input, TypeOK
    <2>3. outputs' \in [Pins -> Audio \cup {Silence}]
      BY <1>1 DEF TypeOK
    <2>4. audio_stream_cnt_' \in 0 .. MAX_STREAMS
      BY BoundsAssumption DEF add_audio_stream, TypeOK
    <2>5. UNCHANGED <<buf, layout>>
      BY DEF add_audio_stream
    <2>6. input' \in [Pins -> Audio \cup {Silence}] /\ sum' \in SUBSET Pins
      BY <1>3
    <2> QED
      BY <1>3, <1>bufs, <2>1, <2>2, <2>3, <2>4, <2>5, <2>6 DEF TypeOK, layout
  <1>7. \A t \in Streams \ {s} : kind'[t] = kind[t] /\ channel_id'[t] = channel_id[t]
    BY <1>1 DEF add_audio_stream, TypeOK
  <1>8. kind'[s] = k /\ channel_id'[s] = p
    BY <1>1, <1>2 DEF add_audio_stream, TypeOK
  <1>9. PinsInv'
    <2>1. \A t \in Streams : kind'[t] = "none" <=> channel_id'[t] = -1
      BY <1>2, <1>7, <1>8 DEF PinsInv
    <2>2. \A q \in Pins, t \in Audio : outputs'[q] = t <=> kind'[t] = "sink" /\ channel_id'[t] = q
      <3>1. outputs[p] = Silence
        BY <1>1 DEF FreePin
      <3> QED
        BY <1>1, <1>2, <1>5, <1>7, <1>8, <3>1, SilenceAssumption
        DEF PinsInv, TypeOK, Streams
    <2>3. \A q \in Pins, t \in Audio : inputs'[q] = t <=> t \notin refused' /\ channel_id'[t] = q
      <3> SUFFICES ASSUME NEW q \in Pins, NEW t \in Audio
                   PROVE  inputs'[q] = t <=> t \notin refused' /\ channel_id'[t] = q
        OBVIOUS
      <3>0. inputs[q] = t <=> t \notin refused /\ channel_id[t] = q
        BY DEF PinsInv
      <3>1. CASE inputs[p] = Silence
        <4>1. inputs' = [inputs EXCEPT ![p] = s] /\ refused' = refused
          BY <1>1, <3>1 DEF link_input
        <4>2. inputs'[q] = IF q = p THEN s ELSE inputs[q]
          BY <4>1 DEF TypeOK
        <4>3. CASE t = s
          BY <1>2, <1>5, <1>8, <3>0, <4>1, <4>2, <4>3 DEF Pins
        <4>4. CASE t # s
          <5>1. t # Silence /\ channel_id'[t] = channel_id[t]
            BY <1>7, <4>4, SilenceAssumption DEF Streams
          <5> QED
            BY <3>0, <3>1, <4>1, <4>2, <4>4, <5>1
        <4> QED
          BY <4>3, <4>4
      <3>2. CASE inputs[p] # Silence
        <4>1. inputs' = inputs /\ refused' = refused \cup {s}
          BY <1>1, <3>2 DEF link_input
        <4>2. CASE t = s
          BY <1>2, <1>5, <3>0, <4>1, <4>2 DEF Pins
        <4>3. CASE t # s
          <5>1. channel_id'[t] = channel_id[t]
            BY <1>7, <4>3 DEF Streams
          <5> QED
            BY <3>0, <4>1, <4>3, <5>1
        <4> QED
          BY <4>2, <4>3
      <3> QED
        BY <3>1, <3>2
    <2>4. refused' \subseteq Live(Audio)'
      BY <1>1, <1>7, <1>8 DEF link_input, PinsInv, Live, Streams
    <2> QED
      BY <2>1, <2>2, <2>3, <2>4 DEF PinsInv
  <1>10. ChannelsInv'
    BY <1>2, <1>7 DEF add_audio_stream, layout, ChannelsInv, Streams
  <1> QED
    BY <1>3, <1>4, <1>6, <1>9, <1>10, <1>bufs

LEMMA DelAudioStep ==
  ASSUME Inductive, NEW s \in Audio, del_audio_stream(s)
  PROVE  Inductive'
  <1> USE DEF Inductive
  <1> DEFINE p == channel_id[s]
  <1>1. s \in Streams /\ s # Silence /\ s \notin Video /\ kind[s] # "none"
    BY SilenceAssumption, KindsAssumption DEF del_audio_stream, Streams
  <1>2. p \in Pins
    BY <1>1 DEF PinsInv, TypeOK
  <1> HIDE DEF p
  <1>3. /\ RunInv' /\ MixInv' /\ attached' \in BOOLEAN /\ aborted' \in BOOLEAN
        /\ sum' = {} /\ input' = [q \in Pins |-> Silence]
    BY ResumeStep DEF del_audio_stream
  <1>4. CountInv' /\ audio_stream_cnt_' \in Nat
    <2>1. /\ kind' = [kind EXCEPT ![s] = "none"]
          /\ audio_stream_cnt_' = audio_stream_cnt_ - 1
      BY DEF del_audio_stream
    <2> QED
      BY <1>1, <2>1, CountRemove DEF TypeOK
  <1>5. /\ inputs' = Unlink(inputs, s, p)
        /\ outputs' = IF kind[s] = "sink" THEN Unlink(outputs, s, p) ELSE outputs
    BY DEF del_audio_stream, p
  <1>bufs. BufInv' /\ turns' \in [Pins -> 0 .. PurgeOffset + 1]
    <2>1. \A q \in Pins : inputs'[q] = inputs[q] \/ inputs'[q] = Silence \/ inputs[q] = Silence
      BY <1>2, <1>5 DEF Unlink, TypeOK
    <2> QED
      BY <2>1, ResumeBuf DEF del_audio_stream
  <1>6. TypeOK'
    <2>1. kind' \in [Streams -> {"none", "sink", "publisher"}]
          /\ channel_id' \in [Streams -> Pins \cup {-1}]
      BY DEF del_audio_stream, TypeOK
    <2>2. inputs' \in [Pins -> Audio \cup {Silence}] /\ refused' \in SUBSET Audio
      BY <1>5 DEF del_audio_stream, Unlink, TypeOK
    <2>3. outputs' \in [Pins -> Audio \cup {Silence}]
      BY <1>5 DEF Unlink, TypeOK
    <2>4. audio_stream_cnt_' \in 0 .. MAX_STREAMS
      BY <1>4, BoundsAssumption DEF del_audio_stream, TypeOK
    <2>5. UNCHANGED <<buf, layout>>
      BY DEF del_audio_stream
    <2>6. input' \in [Pins -> Audio \cup {Silence}] /\ sum' \in SUBSET Pins
      BY <1>3
    <2> QED
      BY <1>3, <1>bufs, <2>1, <2>2, <2>3, <2>4, <2>5, <2>6 DEF TypeOK, layout
  <1>7. \A t \in Streams \ {s} : kind'[t] = kind[t] /\ channel_id'[t] = channel_id[t]
    BY DEF del_audio_stream, TypeOK
  <1>8. kind'[s] = "none" /\ channel_id'[s] = -1 /\ refused' = refused \ {s}
    BY <1>1 DEF del_audio_stream, TypeOK
  <1>9. PinsInv'
    <2>1. \A t \in Streams : kind'[t] = "none" <=> channel_id'[t] = -1
      BY <1>7, <1>8 DEF PinsInv
    <2>2. -1 \notin Pins
      BY BoundsAssumption DEF Pins
    <2>3. \A q \in Pins, t \in Audio : outputs'[q] = t <=> kind'[t] = "sink" /\ channel_id'[t] = q
      BY <1>1, <1>2, <1>5, <1>7, <1>8, <2>2, SilenceAssumption
      DEF PinsInv, TypeOK, Streams, Unlink, p
    <2>4. \A q \in Pins, t \in Audio : inputs'[q] = t <=> t \notin refused' /\ channel_id'[t] = q
      BY <1>1, <1>2, <1>5, <1>7, <1>8, <2>2, SilenceAssumption
      DEF PinsInv, TypeOK, Streams, Unlink, p
    <2>5. refused' \subseteq Live(Audio)'
      BY <1>7, <1>8 DEF PinsInv, Live, Streams
    <2> QED
      BY <2>1, <2>3, <2>4, <2>5 DEF PinsInv
  <1>10. ChannelsInv'
    BY <1>1, <1>7 DEF del_audio_stream, layout, ChannelsInv, Streams
  <1> QED
    BY <1>3, <1>4, <1>6, <1>9, <1>10, <1>bufs

(* What a pin has left after a tick comes one place nearer its reading. *)
LEMMA LeftShift ==
  ASSUME NEW b \in Seq(Audio), NEW i \in 1 .. Len(Left(b))
  PROVE  Left(b)[i] = b[i + 1] /\ i + 1 \in 1 .. Len(b)
  <1>1. b # <<>> /\ Left(b) = Tail(b)
    BY DEF Left
  <1>2. Len(Tail(b)) = Len(b) - 1 /\ Len(b) \in Nat
    BY <1>1
  <1> QED
    BY <1>1, <1>2

(* What arrives is put behind what is there. *)
LEMMA Put ==
  ASSUME NEW b \in Seq(Audio), NEW c \in Seq(Audio), NEW d, d = b \o c
  PROVE  /\ d \in Seq(Audio) /\ Len(d) = Len(b) + Len(c)
         /\ \A i \in 1 .. Len(b) : d[i] = b[i]
         /\ \A i \in Len(b) + 1 .. Len(b) + Len(c) : d[i] = c[i - Len(b)]
  OBVIOUS

(* One more tick of a stream is one less of its predecessor's. *)
LEMMA TickBuf ==
  ASSUME Inductive, NEW n \in [Linked -> 0 .. MaxBurst], mixer_process(n)
  PROVE  BufInv' /\ turns' \in [Pins -> 0 .. PurgeOffset + 1]
  <1> USE DEF Inductive
  <1> DEFINE B == [p \in Pins |-> IF p \in Linked THEN buf[p] \o [i \in 1 .. n[p] |-> inputs[p]]
                                  ELSE buf[p]]
  <1>1. /\ channel_process_in(B)
        /\ buf' = [p \in Pins |-> IF p \in Linked THEN Left(B[p]) ELSE buf[p]]
        /\ turns' = [p \in Pins |-> IF p \in Linked /\ turns[p] <= PurgeOffset
                                    THEN turns[p] + 1 ELSE turns[p]]
        /\ UNCHANGED inputs
    BY DEF mixer_process
  <1>2. turns' \in [Pins -> 0 .. PurgeOffset + 1]
    BY <1>1, BoundsAssumption DEF TypeOK
  <1>3. Linked' = Linked
    BY <1>1 DEF Linked
  <1>4. ASSUME NEW p \in Pins
        PROVE  /\ Len(buf'[p]) <= PurgeOffset
               /\ p \notin Linked => turns'[p] = 0
               /\ \A i \in 1 .. Len(buf'[p]) :
                    buf'[p][i] # inputs[p] => i + turns'[p] <= PurgeOffset
               /\ input'[p] \notin {Silence, inputs[p]} => turns'[p] <= PurgeOffset
    <2>1. CASE p \in Linked
      <3>1. /\ buf[p] \in Seq(Audio) /\ inputs[p] \in Audio /\ n[p] \in Nat
            /\ turns[p] \in 0 .. PurgeOffset + 1
        BY <2>1, BoundsAssumption DEF TypeOK, Linked
      <3> DEFINE c == [i \in 1 .. n[p] |-> inputs[p]]
      <3>2. c \in Seq(Audio) /\ Len(c) = n[p] /\ \A i \in 1 .. n[p] : c[i] = inputs[p]
        BY <3>1
      <3> HIDE DEF c
      <3>3. B[p] = buf[p] \o c
        BY <2>1 DEF c
      <3> HIDE DEF B
      <3>4. /\ B[p] \in Seq(Audio)
            /\ \A i \in 1 .. Len(B[p]) : B[p][i] # inputs[p] => i + turns[p] <= PurgeOffset
        <4>1. /\ B[p] \in Seq(Audio) /\ Len(B[p]) = Len(buf[p]) + Len(c)
              /\ \A i \in 1 .. Len(buf[p]) : B[p][i] = buf[p][i]
              /\ \A i \in Len(buf[p]) + 1 .. Len(buf[p]) + Len(c) :
                   B[p][i] = c[i - Len(buf[p])]
          <5>1. buf[p] \in Seq(Audio) /\ c \in Seq(Audio)
            BY <3>1, <3>2
          <5> QED
            BY <3>3, <5>1, Put
        <4>2. \A i \in 1 .. Len(buf[p]) :
                buf[p][i] # inputs[p] => i + turns[p] <= PurgeOffset
          BY DEF BufInv
        <4>3. ASSUME NEW i \in 1 .. Len(B[p]), B[p][i] # inputs[p]
              PROVE  i + turns[p] <= PurgeOffset
          <5>1. Len(buf[p]) \in Nat /\ Len(c) \in Nat
            BY <3>1, <3>2
          <5>2. CASE i <= Len(buf[p])
            BY <4>1, <4>2, <4>3, <5>1, <5>2
          <5>3. CASE i > Len(buf[p])
            <6>1. i \in Len(buf[p]) + 1 .. Len(buf[p]) + Len(c)
              BY <4>1, <5>1, <5>3
            <6>2. i - Len(buf[p]) \in 1 .. n[p]
              BY <3>2, <5>1, <6>1
            <6> QED
              BY <3>2, <4>1, <4>3, <6>1, <6>2
          <5> QED
            BY <5>1, <5>2, <5>3
        <4> QED
          BY <4>1, <4>3
      <3>5. buf'[p] = Left(B[p]) /\ Len(Left(B[p])) <= PurgeOffset
        BY <1>1, <2>1, BoundsAssumption DEF Left
      <3>6. turns'[p] = IF turns[p] <= PurgeOffset THEN turns[p] + 1 ELSE turns[p]
        BY <1>1, <2>1
      <3>7. ASSUME NEW i \in 1 .. Len(buf'[p]), buf'[p][i] # inputs[p]
            PROVE  i + turns'[p] <= PurgeOffset
        <4>1. B[p][i + 1] # inputs[p] /\ i + 1 \in 1 .. Len(B[p])
          BY <3>4, <3>5, <3>7, LeftShift
        <4>2. i + 1 + turns[p] <= PurgeOffset /\ i \in Nat
          BY <3>4, <4>1
        <4> QED
          BY <3>1, <3>6, <4>2, BoundsAssumption
      <3>8. ASSUME input'[p] \notin {Silence, inputs[p]} PROVE turns'[p] <= PurgeOffset
        <4>1. B[p] # <<>> /\ input'[p] = Head(B[p])
          BY <1>1, <2>1, <3>8 DEF channel_process_in
        <4>2. B[p][1] # inputs[p] /\ 1 \in 1 .. Len(B[p])
          BY <3>4, <3>8, <4>1
        <4> QED
          BY <3>1, <3>4, <3>6, <4>2, BoundsAssumption
      <3> QED
        BY <2>1, <3>5, <3>7, <3>8
    <2>2. CASE p \notin Linked
      <3>1. buf'[p] = buf[p] /\ turns'[p] = turns[p] /\ input'[p] = input[p]
        BY <1>1, <2>2 DEF channel_process_in
      <3> QED
        BY <2>2, <3>1 DEF BufInv
    <2> QED
      BY <2>1, <2>2
  <1> QED
    BY <1>1, <1>2, <1>3, <1>4 DEF BufInv

(* A tick of the mixer changes only what is buffered and mixed. *)
LEMMA TickStep == Inductive /\ tick => Inductive'
  <1> SUFFICES ASSUME Inductive, NEW n \in [Linked -> 0 .. MaxBurst], mixer_process(n)
               PROVE  Inductive'
    BY DEF tick
  <1> USE DEF Inductive
  <1> DEFINE B == [p \in Pins |-> IF p \in Linked THEN buf[p] \o [i \in 1 .. n[p] |-> inputs[p]]
                                  ELSE buf[p]]
  <1>1. /\ channel_process_in(B)
        /\ buf' = [p \in Pins |-> IF p \in Linked THEN Left(B[p]) ELSE buf[p]]
        /\ UNCHANGED <<kind, channel_id, inputs, outputs, audio_stream_cnt_, attached, aborted,
                       refused, layout>>
    BY DEF mixer_process
  <1>2. ASSUME NEW p \in Pins PROVE B[p] \in Seq(Audio)
    <2>1. CASE p \in Linked
      <3>1. inputs[p] \in Audio /\ n[p] \in Nat
        BY <2>1, BoundsAssumption DEF Linked, TypeOK
      <3>2. [i \in 1 .. n[p] |-> inputs[p]] \in Seq(Audio)
        BY <3>1
      <3> QED
        BY <2>1, <3>2 DEF TypeOK
    <2>2. CASE p \notin Linked
      BY <2>2 DEF TypeOK
    <2> QED
      BY <2>1, <2>2
  <1> HIDE DEF B
  <1>3. buf' \in [Pins -> Seq(Audio)]
    <2>1. ASSUME NEW b \in Seq(Audio) PROVE Left(b) \in Seq(Audio)
      BY DEF Left
    <2> QED
      BY <1>1, <1>2, <2>1 DEF TypeOK
  <1>4. input' \in [Pins -> Audio \cup {Silence}] /\ sum' \in SUBSET Pins
    <2>1. ASSUME NEW b \in Seq(Audio), b # <<>> PROVE Head(b) \in Audio
      BY <2>1
    <2> QED
      BY <1>1, <1>2, <2>1 DEF channel_process_in, TypeOK, Linked
  <1>bufs. BufInv' /\ turns' \in [Pins -> 0 .. PurgeOffset + 1]
    BY TickBuf
  <1>5. TypeOK'
    BY <1>1, <1>3, <1>4, <1>bufs DEF TypeOK, layout
  <1>6. CountInv' /\ PinsInv' /\ ChannelsInv' /\ RunInv'
    BY <1>1 DEF CountInv, PinsInv, ChannelsInv, RunInv, Live, Linked, layout
  <1>7. MixInv'
    <2> SUFFICES ASSUME NEW p \in Pins
                 PROVE  /\ p \in sum' <=> input'[p] # Silence
                        /\ input'[p] # Silence => p \in Linked'
      BY DEF MixInv
    <2>0. Linked' = Linked
      BY <1>1 DEF Linked
    <2>1. CASE p \in Linked /\ B[p] # <<>>
      <3>1. p \in sum' /\ input'[p] = Head(B[p])
        BY <1>1, <2>1 DEF channel_process_in
      <3>2. Head(B[p]) \in Audio
        BY <1>2, <2>1
      <3> QED
        BY <2>0, <2>1, <3>1, <3>2, SilenceAssumption
    <2>2. CASE p \in Linked /\ B[p] = <<>>
      BY <1>1, <2>2 DEF channel_process_in
    <2>3. CASE p \notin Linked
      BY <1>1, <2>3 DEF channel_process_in, MixInv
    <2> QED
      BY <2>1, <2>2, <2>3
  <1> QED
    BY <1>5, <1>6, <1>7, <1>bufs

LEMMA AddVideoStep ==
  ASSUME Inductive, NEW s \in Video, add_video_stream(s)
  PROVE  Inductive'
  <1> USE DEF Inductive
  <1>1. PICK c \in Pins : /\ user[c] = Silence
                          /\ user' = [user EXCEPT ![c] = s]
                          /\ channel_id' = [channel_id EXCEPT ![s] = c]
                          /\ \E w \in Places \cup {c} :
                               /\ window' = [window EXCEPT ![c] = w]
                               /\ asked' = [asked EXCEPT ![s] = w]
    BY DEF add_video_stream
  <1>2. s \in Streams /\ s # Silence /\ s \notin Audio /\ c # -1 /\ -1 \notin Pins
    BY SilenceAssumption, KindsAssumption, BoundsAssumption DEF Streams, Pins
  <1>3. kind[s] = "none" /\ channel_id[s] = -1 /\ kind' = [kind EXCEPT ![s] = "sink"]
    BY <1>2 DEF add_video_stream, Creates, PinsInv
  <1>4. \A t \in Streams \ {s} : kind'[t] = kind[t] /\ channel_id'[t] = channel_id[t]
    BY <1>1, <1>3 DEF TypeOK
  <1>5. kind'[s] = "sink" /\ channel_id'[s] = c
    BY <1>1, <1>2, <1>3 DEF TypeOK
  <1>6. UNCHANGED audio /\ \A t \in Audio : t \in Streams \ {s}
    BY <1>2 DEF add_video_stream, Streams
  <1>7. CountInv' /\ RunInv' /\ MixInv' /\ BufInv' /\ Live(Audio)' = Live(Audio)
    BY <1>4, <1>6, AudioKept
  <1>8. TypeOK'
    <2>1. kind' \in [Streams -> {"none", "sink", "publisher"}]
          /\ channel_id' \in [Streams -> Pins \cup {-1}]
      BY <1>1, <1>3 DEF TypeOK
    <2>2. user' \in [Pins -> Video \cup {Silence}]
      BY <1>1 DEF TypeOK
    <2>3. window' \in [Pins -> Windows] /\ asked' \in [Video -> Windows]
      BY <1>1 DEF TypeOK, Windows
    <2>4. UNCHANGED displaced
      BY DEF add_video_stream
    <2> QED
      BY <1>6, <2>1, <2>2, <2>3, <2>4 DEF TypeOK, audio
  <1>9. PinsInv'
    <2>1. \A t \in Streams : kind'[t] = "none" <=> channel_id'[t] = -1
      BY <1>2, <1>4, <1>5 DEF PinsInv
    <2>2. UNCHANGED <<inputs, outputs, refused>>
      BY <1>6 DEF audio
    <2> QED
      BY <1>4, <1>6, <1>7, <2>1, <2>2 DEF PinsInv
  <1>10. ChannelsInv'
    <2> SUFFICES ASSUME NEW d \in Pins, NEW t \in Video
                 PROVE  user'[d] = t <=> channel_id'[t] = d
      BY DEF ChannelsInv
    <2>1. user[d] = t <=> channel_id[t] = d
      BY DEF ChannelsInv
    <2>2. user'[d] = IF d = c THEN s ELSE user[d]
      BY <1>1 DEF TypeOK
    <2>3. t # Silence /\ t \in Streams
      BY SilenceAssumption DEF Streams
    <2> QED
      BY <1>1, <1>2, <1>3, <1>4, <1>5, <2>1, <2>2, <2>3
  <1> QED
    BY <1>7, <1>8, <1>9, <1>10

LEMMA DelVideoStep ==
  ASSUME Inductive, NEW s \in Video, del_video_stream(s)
  PROVE  Inductive'
  <1> USE DEF Inductive
  <1> DEFINE c == channel_id[s]
  <1>1. s \in Streams /\ s \notin Audio /\ kind[s] # "none" /\ -1 \notin Pins
    BY KindsAssumption, BoundsAssumption DEF del_video_stream, Streams, Pins
  <1>2. c \in Pins /\ c # -1
    BY <1>1 DEF PinsInv, TypeOK
  <1>3. /\ user' = [user EXCEPT ![c] = Silence] /\ window' = [window EXCEPT ![c] = c]
        /\ kind' = [kind EXCEPT ![s] = "none"] /\ channel_id' = [channel_id EXCEPT ![s] = -1]
        /\ asked' = [asked EXCEPT ![s] = 0] /\ displaced' = displaced \ {s}
    BY DEF del_video_stream
  <1> HIDE DEF c
  <1>4. \A t \in Streams \ {s} : kind'[t] = kind[t] /\ channel_id'[t] = channel_id[t]
    BY <1>3 DEF TypeOK
  <1>5. kind'[s] = "none" /\ channel_id'[s] = -1
    BY <1>1, <1>3 DEF TypeOK
  <1>6. UNCHANGED audio /\ \A t \in Audio : t \in Streams \ {s}
    BY <1>1 DEF del_video_stream, Streams
  <1>7. CountInv' /\ RunInv' /\ MixInv' /\ BufInv' /\ Live(Audio)' = Live(Audio)
    BY <1>4, <1>6, AudioKept
  <1>8. TypeOK'
    <2>1. kind' \in [Streams -> {"none", "sink", "publisher"}]
          /\ channel_id' \in [Streams -> Pins \cup {-1}]
      BY <1>3 DEF TypeOK
    <2>2. user' \in [Pins -> Video \cup {Silence}] /\ displaced' \in SUBSET Video
      BY <1>3 DEF TypeOK
    <2>3. window' \in [Pins -> Windows] /\ asked' \in [Video -> Windows]
      BY <1>2, <1>3, BoundsAssumption DEF TypeOK, Windows, Pins
    <2> QED
      BY <1>6, <2>1, <2>2, <2>3 DEF TypeOK, audio
  <1>9. PinsInv'
    <2>1. \A t \in Streams : kind'[t] = "none" <=> channel_id'[t] = -1
      BY <1>4, <1>5 DEF PinsInv
    <2>2. UNCHANGED <<inputs, outputs, refused>>
      BY <1>6 DEF audio
    <2> QED
      BY <1>4, <1>6, <1>7, <2>1, <2>2 DEF PinsInv
  <1>10. ChannelsInv'
    <2> SUFFICES ASSUME NEW d \in Pins, NEW t \in Video
                 PROVE  user'[d] = t <=> channel_id'[t] = d
      BY DEF ChannelsInv
    <2>1. (user[d] = t <=> channel_id[t] = d) /\ (user[d] = s <=> c = d)
      BY DEF ChannelsInv, c
    <2>2. user'[d] = IF d = c THEN Silence ELSE user[d]
      BY <1>3 DEF TypeOK
    <2>3. t # Silence /\ t \in Streams
      BY SilenceAssumption DEF Streams
    <2> QED
      BY <1>1, <1>2, <1>4, <1>5, <2>1, <2>2, <2>3
  <1> QED
    BY <1>7, <1>8, <1>9, <1>10

(* v.desc and the exchange of positions only move windows. *)
LEMMA WindowStep ==
  ASSUME Inductive, UNCHANGED <<kind, channel_id, audio, user>>,
         window' \in [Pins -> Windows], asked' \in [Video -> Windows],
         displaced' \in SUBSET Video
  PROVE  Inductive'
  <1>1. CountInv' /\ RunInv' /\ MixInv' /\ BufInv' /\ Live(Audio)' = Live(Audio)
    BY AudioKept DEF Inductive
  <1>2. TypeOK'
    BY DEF Inductive, TypeOK, audio
  <1>3. PinsInv' /\ ChannelsInv'
    BY <1>1 DEF Inductive, PinsInv, ChannelsInv, audio
  <1> QED
    BY <1>1, <1>2, <1>3 DEF Inductive

LEMMA LayoutStep ==
  ASSUME Inductive,
         \/ \E s, t \in Video : s # t /\ vs_exchange_position(s, t)
         \/ \E s \in Streams, w \in Places : sp_v_desc(s, w)
  PROVE  Inductive'
  <1> USE DEF Inductive
  <1>1. ASSUME NEW s \in Streams, kind[s] # "none" PROVE channel_id[s] \in Pins
    BY <1>1 DEF PinsInv, TypeOK
  <1>2. ASSUME NEW s \in Video, NEW t \in Video, vs_exchange_position(s, t) PROVE Inductive'
    <2>1. channel_id[s] \in Pins /\ channel_id[t] \in Pins
      BY <1>1, <1>2 DEF vs_exchange_position, Streams
    <2>2. window' \in [Pins -> Windows] /\ asked' \in [Video -> Windows]
      BY <1>2, <2>1 DEF vs_exchange_position, Exchange, TypeOK
    <2>3. displaced' \in SUBSET Video
      BY <1>2 DEF vs_exchange_position, TypeOK
    <2> QED
      BY <1>2, <2>2, <2>3, WindowStep DEF vs_exchange_position
  <1>3. ASSUME NEW s \in Streams, NEW w \in Places, sp_v_desc(s, w) PROVE Inductive'
    <2>1. channel_id[s] \in Pins
      BY <1>1, <1>3 DEF sp_v_desc
    <2>2. window' \in [Pins -> Windows] /\ asked' \in [Video -> Windows]
      BY <1>3, <2>1 DEF sp_v_desc, set_channel_desc, TypeOK, Windows
    <2>3. displaced' \in SUBSET Video
      BY <1>3, <2>1 DEF sp_v_desc, TypeOK
    <2> QED
      BY <1>3, <2>2, <2>3, WindowStep DEF sp_v_desc
  <1> QED
    BY <1>2, <1>3

LEMMA InductiveStep == Inductive /\ [Next]_vars => Inductive'
  <1> SUFFICES ASSUME Inductive, [Next]_vars PROVE Inductive'
    OBVIOUS
  <1>1. CASE UNCHANGED vars
    <2>1. window' \in [Pins -> Windows] /\ asked' \in [Video -> Windows]
          /\ displaced' \in SUBSET Video
      BY <1>1 DEF vars, layout, Inductive, TypeOK
    <2> QED
      BY <1>1, <2>1, WindowStep DEF vars, layout
  <1> QED
    BY <1>1, AddAudioStep, DelAudioStep, TickStep, AddVideoStep, DelVideoStep, LayoutStep
    DEF Next, Aborted

(* Inductive is an invariant of the director's mixers. *)
THEOREM InductiveHolds == Spec => []Inductive
  BY InductiveInit, InductiveStep, PTL DEF Spec

(* DirectorConference.cpp:252: below MAX_STREAMS the assertion of          *)
(* find_audio_free_pin holds: were every output taken, each would belong   *)
(* to a stream of its own.                                                 *)
THEOREM FreeAudioPinHolds == Spec => []FreeAudioPin
  <1>1. Inductive => FreeAudioPin
    <2> SUFFICES ASSUME Inductive, \A p \in Pins : outputs[p] # Silence
                 PROVE  audio_stream_cnt_ >= MAX_STREAMS
      BY BoundsAssumption DEF FreeAudioPin, Inductive, TypeOK
    <2>1. \A p \in Pins : /\ outputs[p] \in Live(Audio)
                          /\ channel_id[outputs[p]] = p
      BY DEF Inductive, TypeOK, PinsInv, Live
    <2>2. outputs \in Injection(Pins, Live(Audio))
      BY <2>1, Fun_IsInj DEF Inductive, TypeOK
    <2>3. IsFiniteSet(Live(Audio)) /\ audio_stream_cnt_ = Cardinality(Live(Audio))
      BY DEF Inductive, CountInv
    <2>4. Cardinality(Pins) = MAX_STREAMS /\ IsFiniteSet(Pins)
      BY FS_Interval, BoundsAssumption DEF Pins
    <2>5. Cardinality(Pins) <= Cardinality(Live(Audio))
      BY <2>2, <2>3, FS_Injection
    <2> QED
      BY <2>3, <2>4, <2>5, BoundsAssumption, FS_CardinalityType
  <1> QED
    BY <1>1, InductiveHolds, PTL

(* msticker.c:149: attaching the mixer ends the process only when every    *)
(* live audio stream was refused by ms_filter_link.                        *)
THEOREM AbortedOnlyUnlinkedHolds == Spec => []AbortedOnlyUnlinked
  <1>1. Inductive => AbortedOnlyUnlinked
    <2> SUFFICES ASSUME Inductive, aborted, NEW s \in Live(Audio), s \notin refused
                 PROVE  FALSE
      BY DEF AbortedOnlyUnlinked
    <2>1. s \in Audio /\ channel_id[s] \in Pins
      BY DEF Live, Inductive, PinsInv, TypeOK, Streams
    <2>2. inputs[channel_id[s]] = s
      BY <2>1 DEF Inductive, PinsInv
    <2> QED
      BY <2>1, <2>2, SilenceAssumption DEF Inductive, RunInv, Linked
  <1> QED
    BY <1>1, InductiveHolds, PTL

(* DirectorConference.cpp:256: a stream fails to be mixed only behind a    *)
(* live stream without a sender that has its pin.                          *)
THEOREM RefusedByPublisherHolds == Spec => RefusedByPublisher
  <1>1. ASSUME Inductive, [Next]_vars, NEW s \in refused' \ refused
        PROVE  \E t \in Live(Audio) : kind[t] = "publisher" /\ channel_id[t] = channel_id'[s]
    <2>1. PICK r \in Audio, k \in {"sink", "publisher"} : add_audio_stream(r, k)
      BY <1>1 DEF Next, vars, audio, Aborted, tick, mixer_process, del_audio_stream,
         add_video_stream, del_video_stream, vs_exchange_position, sp_v_desc
    <2>2. PICK p \in Pins : /\ FreePin(p) /\ link_input(r, p)
                            /\ channel_id' = [channel_id EXCEPT ![r] = p]
      BY <2>1 DEF add_audio_stream
    <2>3. inputs[p] # Silence /\ s = r
      BY <1>1, <2>2 DEF link_input
    <2>4. channel_id'[s] = p
      <3>1. channel_id \in [Streams -> Pins \cup {-1}] /\ r \in Streams
        BY <1>1 DEF Inductive, TypeOK, Streams
      <3> QED
        BY <2>2, <2>3, <3>1
    <2>5. inputs[p] \in Audio /\ channel_id[inputs[p]] = p
      BY <1>1, <2>3 DEF Inductive, TypeOK, PinsInv
    <2>6. outputs[p] # inputs[p]
      BY <2>2, <2>3 DEF FreePin
    <2>7. kind[inputs[p]] = "publisher"
      <3>1. inputs[p] \in Streams /\ p # -1
        BY <2>5, BoundsAssumption DEF Streams, Pins
      <3> QED
        BY <1>1, <2>5, <2>6, <3>1 DEF Inductive, TypeOK, PinsInv
    <2> QED
      BY <2>4, <2>5, <2>7 DEF Live
  <1>2. Inductive /\ [Next]_vars =>
          [\A s \in refused' \ refused :
             \E t \in Live(Audio) : kind[t] = "publisher" /\ channel_id[t] = channel_id'[s]]_vars
    BY <1>1
  <1> QED
    BY <1>2, InductiveHolds, PTL DEF Spec, RefusedByPublisher

(* audiomixer.c:99, 252: whatever bursts arrive and however streams come   *)
(* and go, a departed stream is heard under its successor for at most      *)
(* purgeoffset.                                                            *)
THEOREM DepartedSoonSilentHolds == Spec => []DepartedSoonSilent
  <1>1. Inductive => DepartedSoonSilent
    BY DEF Inductive, BufInv, DepartedSoonSilent
  <1> QED
    BY <1>1, InductiveHolds, PTL

(* A live video stream has its channel to itself. *)
LEMMA ChannelOfOne ==
  ASSUME Inductive, NEW s \in Live(Video), NEW t \in Live(Video),
         channel_id[s] = channel_id[t]
  PROVE  s = t
  <1>1. s \in Video /\ t \in Video /\ channel_id[s] \in Pins
    BY DEF Live, Inductive, PinsInv, TypeOK, Streams
  <1>2. user[channel_id[s]] = s /\ user[channel_id[s]] = t
    BY <1>1 DEF Inductive, ChannelsInv
  <1> QED
    BY <1>2

(* DirectorConference.cpp:425, 896: a window is where it was asked to be,  *)
(* unless v.desc has named an audio stream of the same number.             *)
THEOREM WindowAsAskedHolds == Spec => []WindowAsAsked
  <1>1. Init => WindowAsAsked
    BY DEF Init, WindowAsAsked, Live, Streams
  <1>2. Inductive /\ WindowAsAsked /\ [Next]_vars => WindowAsAsked'
    <2> SUFFICES ASSUME Inductive, WindowAsAsked, [Next]_vars,
                        NEW v \in Live(Video)', v \notin displaced'
                 PROVE  window'[channel_id'[v]] = asked'[v]
      BY DEF WindowAsAsked
    <2> USE DEF Inductive
    <2>0. v \in Video /\ v \in Streams /\ v \notin Audio /\ v # Silence
      BY KindsAssumption, SilenceAssumption DEF Live, Streams
    <2>1. ASSUME NEW s \in Streams, kind[s] # "none" PROVE channel_id[s] \in Pins
      BY <2>1 DEF PinsInv, TypeOK
    <2>2. CASE UNCHANGED <<channel_id, window, asked, displaced>> /\ kind'[v] = kind[v]
      BY <2>0, <2>2 DEF WindowAsAsked, Live
    <2>3. ASSUME NEW s \in Audio, \/ \E k \in {"sink", "publisher"} : add_audio_stream(s, k)
                                  \/ del_audio_stream(s)
          PROVE  window'[channel_id'[v]] = asked'[v]
      <3>1. channel_id'[v] = channel_id[v] /\ kind'[v] = kind[v]
        BY <2>0, <2>3 DEF add_audio_stream, del_audio_stream, TypeOK
      <3>2. UNCHANGED <<window, asked, displaced>>
        BY <2>3 DEF add_audio_stream, del_audio_stream, layout
      <3> QED
        BY <2>0, <3>1, <3>2 DEF WindowAsAsked, Live
    <2>4. ASSUME NEW s \in Video, add_video_stream(s)
          PROVE  window'[channel_id'[v]] = asked'[v]
      <3>1. PICK c \in Pins, w \in Windows : /\ user[c] = Silence
                                 /\ channel_id' = [channel_id EXCEPT ![s] = c]
                                 /\ window' = [window EXCEPT ![c] = w]
                                 /\ asked' = [asked EXCEPT ![s] = w]
        BY <2>4 DEF add_video_stream, Windows
      <3>2. kind' = [kind EXCEPT ![s] = "sink"] /\ UNCHANGED displaced
        BY <2>4 DEF add_video_stream
      <3>3. CASE v = s
        BY <2>0, <3>1, <3>3 DEF TypeOK
      <3>4. CASE v # s
        <4>1. channel_id'[v] = channel_id[v] /\ asked'[v] = asked[v] /\ kind[v] # "none"
          BY <2>0, <3>1, <3>2, <3>4 DEF TypeOK, Live
        <4>2. channel_id[v] \in Pins /\ user[channel_id[v]] = v
          BY <2>0, <2>1, <4>1 DEF ChannelsInv
        <4>3. window'[channel_id[v]] = window[channel_id[v]]
          BY <2>0, <3>1, <4>2 DEF TypeOK
        <4> QED
          BY <2>0, <3>2, <4>1, <4>3 DEF WindowAsAsked, Live
      <3> QED
        BY <3>3, <3>4
    <2>5. ASSUME NEW s \in Video, del_video_stream(s)
          PROVE  window'[channel_id'[v]] = asked'[v]
      <3>1. v # s /\ kind[v] # "none" /\ kind[s] # "none" /\ v \notin displaced
        BY <2>0, <2>5 DEF del_video_stream, TypeOK, Live, Streams
      <3>2. channel_id'[v] = channel_id[v] /\ asked'[v] = asked[v]
        BY <2>0, <2>5, <3>1 DEF del_video_stream, TypeOK
      <3>3. channel_id[v] # channel_id[s]
        BY <2>0, <3>1, ChannelOfOne DEF Live
      <3>4. window'[channel_id[v]] = window[channel_id[v]]
        BY <2>0, <2>1, <2>5, <3>1, <3>3 DEF del_video_stream, TypeOK
      <3> QED
        BY <2>0, <3>1, <3>2, <3>4 DEF WindowAsAsked, Live
    <2>6. ASSUME NEW s \in Video, NEW t \in Video, s # t, vs_exchange_position(s, t)
          PROVE  window'[channel_id'[v]] = asked'[v]
      <3>1. s \in Live(Video) /\ t \in Live(Video) /\ v \in Live(Video)
            /\ UNCHANGED channel_id
        BY <2>0, <2>6 DEF vs_exchange_position, Live
      <3>2. /\ channel_id[s] \in Pins /\ channel_id[t] \in Pins /\ channel_id[v] \in Pins
            /\ channel_id[s] # channel_id[t]
        BY <2>0, <2>1, <2>6, <3>1, ChannelOfOne DEF Live, Streams
      <3>3. /\ window'[channel_id[s]] = window[channel_id[t]]
            /\ window'[channel_id[t]] = window[channel_id[s]]
            /\ asked'[s] = asked[t] /\ asked'[t] = asked[s]
        BY <2>6, <3>2 DEF vs_exchange_position, Exchange, TypeOK
      <3>4. CASE v = s
        BY <2>6, <3>1, <3>3, <3>4 DEF vs_exchange_position, WindowAsAsked
      <3>5. CASE v = t
        BY <2>6, <3>1, <3>3, <3>5 DEF vs_exchange_position, WindowAsAsked
      <3>6. CASE v # s /\ v # t
        <4>1. channel_id[v] # channel_id[s] /\ channel_id[v] # channel_id[t]
          BY <3>1, <3>6, ChannelOfOne
        <4>2. window'[channel_id[v]] = window[channel_id[v]] /\ asked'[v] = asked[v]
          BY <2>0, <2>6, <3>2, <3>6, <4>1 DEF vs_exchange_position, Exchange, TypeOK
        <4>3. v \notin displaced
          BY <2>6, <3>6 DEF vs_exchange_position
        <4> QED
          BY <3>1, <4>2, <4>3 DEF WindowAsAsked
      <3> QED
        BY <3>4, <3>5, <3>6
    <2>7. ASSUME NEW s \in Streams, NEW w \in Places, sp_v_desc(s, w)
          PROVE  window'[channel_id'[v]] = asked'[v]
      <3>1. /\ v \in Live(Video) /\ UNCHANGED channel_id /\ kind[s] # "none"
            /\ channel_id[v] \in Pins /\ channel_id[s] \in Pins
        BY <2>0, <2>1, <2>7 DEF sp_v_desc, Live
      <3>2. user[channel_id[v]] = v
        BY <2>0, <3>1 DEF ChannelsInv
      <3>3. CASE channel_id[s] = channel_id[v]
        <4>1. window'[channel_id[v]] = w
          BY <2>0, <2>7, <3>1, <3>2, <3>3 DEF sp_v_desc, set_channel_desc, TypeOK
        <4>2. s \in Video
          BY <2>0, <2>7, <3>2, <3>3 DEF sp_v_desc
        <4>3. s = v
          BY <3>1, <3>3, <4>2, ChannelOfOne DEF Live
        <4> QED
          BY <2>0, <2>7, <3>1, <4>1, <4>3 DEF sp_v_desc, TypeOK
      <3>4. CASE channel_id[s] # channel_id[v]
        <4>1. window'[channel_id[v]] = window[channel_id[v]]
          BY <2>7, <3>1, <3>4 DEF sp_v_desc, set_channel_desc, TypeOK
        <4>2. s # v /\ v \notin displaced /\ asked'[v] = asked[v]
          BY <2>0, <2>7, <3>4 DEF sp_v_desc, TypeOK
        <4> QED
          BY <3>1, <4>1, <4>2 DEF WindowAsAsked
      <3> QED
        BY <3>3, <3>4
    <2> QED
      BY <2>2, <2>3, <2>4, <2>5, <2>6, <2>7
      DEF Next, Aborted, tick, mixer_process, vars, layout
  <1> QED
    BY <1>1, <1>2, InductiveHolds, PTL DEF Spec

-----------------------------------------------------------------------------
(* Every step hands out a video channel, takes one back, or leaves them. *)
LEMMA VideoPoolStep ==
  ASSUME Inductive, [Next]_vars
  PROVE  [VideoPool!Next]_user
  <1> USE DEF Inductive
  <1>1. ASSUME NEW s \in Video, add_video_stream(s)
        PROVE  VideoPool!Next
    <2>1. PICK c \in Pins : /\ user[c] = Silence /\ \A d \in 0 .. c - 1 : user[d] # Silence
                            /\ user' = [user EXCEPT ![c] = s]
      BY <1>1 DEF add_video_stream
    <2>2. channel_id[s] = -1 /\ -1 \notin Pins
      BY <1>1, BoundsAssumption DEF add_video_stream, Creates, PinsInv, Streams, Pins
    <2>3. \A d \in Pins : user[d] # s
      BY <2>2 DEF ChannelsInv
    <2>4. VideoPool!Claim(c, s)
      BY <2>1, <2>3 DEF VideoPool!Claim
    <2> QED
      BY <2>4 DEF VideoPool!Next
  <1>2. ASSUME NEW s \in Video, del_video_stream(s)
        PROVE  VideoPool!Next
    <2>1. channel_id[s] \in Pins
      BY <1>2 DEF del_video_stream, PinsInv, TypeOK, Streams
    <2>2. user[channel_id[s]] = s /\ s # Silence
      BY <2>1, SilenceAssumption DEF ChannelsInv
    <2>3. VideoPool!Release(channel_id[s])
      BY <1>2, <2>2 DEF del_video_stream, VideoPool!Release
    <2> QED
      BY <2>1, <2>3 DEF VideoPool!Next
  <1> QED
    BY <1>1, <1>2 DEF Next, vars, layout, Aborted, tick, mixer_process, add_audio_stream,
       del_audio_stream, vs_exchange_position, sp_v_desc

(* Every step hands out an output, takes one back, or leaves them. *)
LEMMA AudioPoolStep ==
  ASSUME Inductive, [Next]_vars
  PROVE  [AudioPool!Next]_outputs
  <1> USE DEF Inductive
  <1>1. ASSUME NEW s \in Audio, NEW k \in {"sink", "publisher"}, add_audio_stream(s, k)
        PROVE  AudioPool!Next \/ UNCHANGED outputs
    <2>1. PICK p \in Pins :
            /\ FreePin(p)
            /\ outputs' = IF k = "sink" THEN [outputs EXCEPT ![p] = s] ELSE outputs
      BY <1>1 DEF add_audio_stream
    <2>2. \A q \in Pins : outputs[q] # s
      BY <1>1 DEF add_audio_stream, Creates, PinsInv
    <2>3. CASE k = "sink"
      <3>1. AudioPool!Claim(p, s)
        BY <2>1, <2>2, <2>3 DEF FreePin, AudioPool!Claim
      <3> QED
        BY <3>1 DEF AudioPool!Next
    <2>4. CASE k # "sink"
      BY <2>1, <2>4
    <2> QED
      BY <2>3, <2>4
  <1>2. ASSUME NEW s \in Audio, del_audio_stream(s)
        PROVE  AudioPool!Next \/ UNCHANGED outputs
    <2>1. channel_id[s] \in Pins /\ s # Silence
      BY <1>2, SilenceAssumption DEF del_audio_stream, PinsInv, TypeOK, Streams
    <2>2. CASE kind[s] = "sink"
      <3>1. outputs[channel_id[s]] = s
        BY <2>1, <2>2 DEF PinsInv
      <3>2. outputs' = [outputs EXCEPT ![channel_id[s]] = Silence]
        BY <1>2, <2>2, <3>1 DEF del_audio_stream, Unlink
      <3>3. AudioPool!Release(channel_id[s])
        BY <2>1, <3>1, <3>2 DEF AudioPool!Release
      <3> QED
        BY <2>1, <3>3 DEF AudioPool!Next
    <2>3. CASE kind[s] # "sink"
      BY <1>2, <2>3 DEF del_audio_stream
    <2> QED
      BY <2>2, <2>3
  <1> QED
    BY <1>1, <1>2 DEF Next, vars, audio, Aborted, tick, mixer_process, add_video_stream,
       del_video_stream, vs_exchange_position, sp_v_desc

(* DirectorConference.cpp:252, zk.video.mixer.cpp:242: however streams     *)
(* with and without senders come and go, each sender has the first output  *)
(* that was free, and each video stream the first channel.                 *)
THEOREM HandsOutPinsHolds == Spec => HandsOutPins
  <1>1. Init => VideoPool!Init /\ AudioPool!Init
    BY DEF Init, VideoPool!Init, AudioPool!Init
  <1>2. Inductive /\ [Next]_vars => [VideoPool!Next]_user
    BY VideoPoolStep
  <1>3. Inductive /\ [Next]_vars => [AudioPool!Next]_outputs
    BY AudioPoolStep
  <1> QED
    BY <1>1, <1>2, <1>3, InductiveHolds, PTL
    DEF Spec, HandsOutPins, VideoPool!Spec, AudioPool!Spec
=============================================================================
