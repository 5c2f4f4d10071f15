--------------------------- MODULE ZOrderProofs ---------------------------
(***************************************************************************)
(* The array zorder_ of VideoMixer lists the employed channels exactly,    *)
(* for any numbers of streams and channels, as long as no client asks for  *)
(* "bottom".  First what each loop over the array does to a list, then the *)
(* steps that use them.                                                    *)
(***************************************************************************)
EXTENDS VideoMixerProofs, FunctionTheorems, SequenceTheorems

(* z lists the channels S, each once, in its first n slots. *)
Lists(z, n, S) ==
  /\ n \in Slots
  /\ S \subseteq Channels
  /\ z \in [Slots -> Channels \cup {-1}]
  /\ \A i \in 0 .. n - 1 : z[i] \in S
  /\ \A i \in n .. MAX_CHANNELS : z[i] = -1
  /\ \A i, j \in 0 .. n - 1 : z[i] = z[j] => i = j
  /\ \A c \in S : \E i \in 0 .. n - 1 : z[i] = c

(* The scan for a channel stops at it, or at the end of the list. *)
LEMMA PosFinds ==
  ASSUME NEW z, NEW n, NEW S, Lists(z, n, S), NEW c \in Channels \cup {-1}
  PROVE  /\ c \in S => Pos(z, c) \in 0 .. n - 1 /\ z[Pos(z, c)] = c
         /\ c \notin S => Pos(z, c) = n
  <1> DEFINE P(i) == /\ z[i] \in {c, -1}
                     /\ \A k \in 0 .. i - 1 : z[k] \notin {c, -1}
  <1>1. \A i \in 0 .. n - 1 : z[i] # -1
    BY DEF Lists, Channels
  <1>2. CASE c \in S
    <2>1. PICK i \in 0 .. n - 1 : z[i] = c
      BY <1>2 DEF Lists
    <2>2. i \in Slots /\ P(i)
      BY <1>1, <2>1, MaxAssumption DEF Lists, Slots
    <2>3. \A j \in Slots : P(j) => j = i
      BY <1>1, <2>1, <2>2, MaxAssumption DEF Slots, Lists
    <2>4. Pos(z, c) = i
      BY <2>2, <2>3 DEF Pos
    <2> QED
      BY <1>2, <2>1, <2>4
  <1>3. CASE c \notin S
    <2>1. n \in Slots /\ P(n)
      BY <1>1, <1>3, MaxAssumption DEF Lists, Slots
    <2>2. \A j \in Slots : P(j) => j = n
      BY <1>1, <1>3, <2>1, MaxAssumption DEF Slots, Lists
    <2>3. Pos(z, c) = n
      BY <2>1, <2>2 DEF Pos
    <2> QED
      BY <1>3, <2>3
  <1> QED
    BY <1>2, <1>3

(* The end mark is found, so no scan leaves the array. *)
LEMMA UsedFinds ==
  ASSUME NEW z, NEW n, NEW S, Lists(z, n, S)
  PROVE  Used(z) = n
  <1>1. -1 \notin S
    BY DEF Lists, Channels
  <1> QED
    BY <1>1, PosFinds DEF Used

(* A list is as long as the set it lists. *)
LEMMA ListLength ==
  ASSUME NEW z, NEW n, NEW S, Lists(z, n, S)
  PROVE  Cardinality(S) = n
  <1> DEFINE f == [i \in 1 .. n |-> z[i - 1]]
  <1>1. n \in Nat
    BY MaxAssumption DEF Lists, Slots
  <1>2. f \in [1 .. n -> S]
    BY <1>1 DEF Lists
  <1>3. \A a, b \in 1 .. n : f[a] = f[b] => a = b
    BY <1>1 DEF Lists
  <1>4. \A c \in S : \E a \in 1 .. n : f[a] = c
    <2>1. SUFFICES ASSUME NEW c \in S PROVE \E a \in 1 .. n : f[a] = c
      OBVIOUS
    <2>2. PICK i \in 0 .. n - 1 : z[i] = c
      BY DEF Lists
    <2>3. i + 1 \in 1 .. n /\ f[i + 1] = c
      BY <1>1, <2>2
    <2> QED
      BY <2>3
  <1>5. f \in Bijection(1 .. n, S)
    BY <1>2, <1>3, <1>4, Fun_IsBij
  <1>6. ExistsBijection(1 .. n, S)
    BY <1>5 DEF ExistsBijection
  <1> QED
    BY <1>1, <1>6, FS_CountingElements

(* get_channel puts the new channel at the end of the list. *)
LEMMA PushLists ==
  ASSUME NEW z, NEW n, NEW S, Lists(z, n, S), NEW c \in Channels, c \notin S,
         n < MAX_CHANNELS
  PROVE  Lists(Push(z, c), n + 1, S \cup {c})
  <1>1. Push(z, c) = [z EXCEPT ![n] = c]
    BY UsedFinds DEF Push
  <1>2. n \in Nat /\ n \in Slots /\ n + 1 \in Slots
    BY MaxAssumption DEF Lists, Slots
  <1> DEFINE y == [z EXCEPT ![n] = c]
  <1>3. y[n] = c /\ \A i \in Slots \ {n} : y[i] = z[i]
    BY <1>2 DEF Lists
  <1>4. 0 .. n - 1 \subseteq Slots \ {n} /\ (n + 1) .. MAX_CHANNELS \subseteq Slots \ {n}
    BY <1>2, MaxAssumption DEF Slots
  <1>5. \A i \in 0 .. n : i = n \/ i \in 0 .. n - 1
    BY <1>2
  <1>6. \A i \in 0 .. n : y[i] \in S \cup {c}
    BY <1>3, <1>4, <1>5 DEF Lists
  <1>7. \A i, j \in 0 .. n : y[i] = y[j] => i = j
    BY <1>3, <1>4, <1>5 DEF Lists
  <1>8. \A i \in (n + 1) .. MAX_CHANNELS : y[i] = -1
    BY <1>2, <1>3, <1>4, MaxAssumption DEF Lists
  <1>9. \A d \in S \cup {c} : \E i \in 0 .. n : y[i] = d
    <2>1. ASSUME NEW d \in S PROVE \E i \in 0 .. n : y[i] = d
      BY <1>2, <1>3, <1>4 DEF Lists
    <2> QED
      BY <1>2, <1>3, <2>1
  <1>10. y \in [Slots -> Channels \cup {-1}]
    BY DEF Lists
  <1>11. (n + 1) - 1 = n /\ S \cup {c} \subseteq Channels
    BY <1>2 DEF Lists
  <1> HIDE DEF y
  <1>12. Lists(y, n + 1, S \cup {c})
    BY <1>2, <1>6, <1>7, <1>8, <1>9, <1>10, <1>11 DEF Lists
  <1> QED
    BY <1>1, <1>12 DEF y

(* free_channel closes the gap. *)
LEMMA RemoveLists ==
  ASSUME NEW z, NEW n, NEW S, Lists(z, n, S), NEW c \in S
  PROVE  Lists(Remove(z, c), n - 1, S \ {c})
  <1> DEFINE p == Pos(z, c)
             y == Remove(z, c)
  <1>0. c \in Channels
    BY DEF Lists
  <1>1. p \in 0 .. n - 1 /\ z[p] = c
    BY <1>0, PosFinds
  <1>2. n \in Nat /\ n \in Slots /\ n - 1 \in Slots
    BY <1>1, MaxAssumption DEF Lists, Slots
  <1> HIDE DEF p
  <1>3. \A i \in Slots : y[i] = IF i < p THEN z[i]
                                ELSE IF i < MAX_CHANNELS THEN z[i + 1] ELSE -1
    BY DEF Remove, p
  <1>4. y \in [Slots -> Channels \cup {-1}]
    BY <1>1, <1>2, MaxAssumption DEF Remove, p, Lists, Slots
  <1> HIDE DEF y
  <1>5. \A i \in 0 .. n - 2 : /\ i \in Slots
                              /\ i < p => y[i] = z[i] /\ i \in 0 .. n - 1
                              /\ i >= p => y[i] = z[i + 1] /\ i + 1 \in 0 .. n - 1
    BY <1>1, <1>2, <1>3, MaxAssumption DEF Slots
  <1>6. \A i \in 0 .. n - 2 : y[i] \in S \ {c}
    BY <1>1, <1>2, <1>5 DEF Lists
  <1>7. \A i, j \in 0 .. n - 2 : y[i] = y[j] => i = j
    BY <1>1, <1>2, <1>5 DEF Lists
  <1>8. \A i \in (n - 1) .. MAX_CHANNELS : y[i] = -1
    BY <1>1, <1>2, <1>3, MaxAssumption DEF Lists, Slots
  <1>9. \A d \in S \ {c} : \E i \in 0 .. n - 2 : y[i] = d
    <2> SUFFICES ASSUME NEW d \in S \ {c} PROVE \E i \in 0 .. n - 2 : y[i] = d
      OBVIOUS
    <2>1. PICK i \in 0 .. n - 1 : z[i] = d
      BY DEF Lists
    <2>2. CASE i < p
      <3>1. i \in 0 .. n - 2 /\ y[i] = d
        BY <1>1, <1>2, <1>5, <2>1, <2>2
      <3> QED
        BY <3>1
    <2>3. CASE i > p
      <3>1. i - 1 \in 0 .. n - 2 /\ i - 1 >= p
        BY <1>1, <1>2, <2>1, <2>3
      <3>2. y[i - 1] = d
        BY <1>2, <1>5, <2>1, <3>1
      <3> QED
        BY <3>1, <3>2
    <2> QED
      BY <1>1, <2>1, <2>2, <2>3
  <1> QED
    BY <1>2, <1>4, <1>6, <1>7, <1>8, <1>9 DEF Lists, y

(* Two places of the list change their channels. *)
LEMMA SwapLists ==
  ASSUME NEW z, NEW n, NEW S, Lists(z, n, S), NEW i \in 0 .. n - 1, NEW j \in 0 .. n - 1
  PROVE  Lists(Swap(z, i, j), n, S)
  <1> DEFINE y == Swap(z, i, j)
  <1>1. n \in Nat /\ 0 .. n - 1 \subseteq Slots /\ n .. MAX_CHANNELS \subseteq Slots
    BY MaxAssumption DEF Lists, Slots
  <1>2. y[i] = z[j] /\ y[j] = z[i] /\ \A k \in Slots \ {i, j} : y[k] = z[k]
    BY <1>1 DEF Swap, Lists
  <1>3. y \in [Slots -> Channels \cup {-1}]
    BY <1>1 DEF Swap, Lists
  <1> HIDE DEF y
  <1>4. \A k \in 0 .. n - 1 : y[k] \in S
    BY <1>1, <1>2 DEF Lists
  <1>5. \A k \in n .. MAX_CHANNELS : y[k] = -1
    BY <1>1, <1>2 DEF Lists
  <1>6. \A k, l \in 0 .. n - 1 : y[k] = y[l] => k = l
    BY <1>1, <1>2 DEF Lists
  <1>7. \A c \in S : \E k \in 0 .. n - 1 : y[k] = c
    BY <1>1, <1>2 DEF Lists
  <1> QED
    BY <1>3, <1>4, <1>5, <1>6, <1>7 DEF Lists, y

LEMMA TopLists ==
  ASSUME NEW z, NEW n, NEW S, Lists(z, n, S), NEW c \in S
  PROVE  Lists(top(z, c), n, S)
  <1> DEFINE p == Pos(z, c)
             y == top(z, c)
  <1>0. c \in Channels
    BY DEF Lists
  <1>1. p \in 0 .. n - 1 /\ z[p] = c /\ Used(z) = n
    BY <1>0, PosFinds, UsedFinds
  <1>2. n \in Nat /\ n \in Slots /\ c # -1
    BY MaxAssumption DEF Lists, Slots, Channels
  <1>3. top(z, c) = [k \in Slots |-> IF k < p \/ k >= n THEN z[k]
                                     ELSE IF k = n - 1 THEN c ELSE z[k + 1]]
    BY <1>1, <1>2 DEF top
  <1> HIDE DEF p
  <1>4. \A k \in Slots : y[k] = IF k < p \/ k >= n THEN z[k]
                                ELSE IF k = n - 1 THEN c ELSE z[k + 1]
    BY <1>3
  <1>5. y \in [Slots -> Channels \cup {-1}]
    BY <1>1, <1>2, <1>3, MaxAssumption DEF Lists, Slots
  <1> HIDE DEF y
  <1>6. \A k \in 0 .. n - 1 :
          /\ k < p => y[k] = z[k]
          /\ k = n - 1 => y[k] = c
          /\ k >= p /\ k < n - 1 => y[k] = z[k + 1] /\ k + 1 \in 0 .. n - 1
    BY <1>1, <1>2, <1>4, MaxAssumption DEF Slots
  <1>7. \A k \in 0 .. n - 1 : y[k] \in S
    BY <1>1, <1>2, <1>6 DEF Lists
  <1>8. \A k \in n .. MAX_CHANNELS : y[k] = -1
    BY <1>1, <1>2, <1>4, MaxAssumption DEF Lists, Slots
  <1>9. \A k, l \in 0 .. n - 1 : y[k] = y[l] => k = l
    BY <1>1, <1>2, <1>6 DEF Lists
  <1>10. \A d \in S : \E k \in 0 .. n - 1 : y[k] = d
    <2> SUFFICES ASSUME NEW d \in S PROVE \E k \in 0 .. n - 1 : y[k] = d
      OBVIOUS
    <2>1. PICK i \in 0 .. n - 1 : z[i] = d
      BY DEF Lists
    <2>2. CASE i < p
      BY <1>6, <2>1, <2>2
    <2>3. CASE i = p
      <3>1. n - 1 \in 0 .. n - 1 /\ y[n - 1] = d
        BY <1>1, <1>2, <1>6, <2>1, <2>3
      <3> QED
        BY <3>1
    <2>4. CASE i > p
      <3>1. i - 1 \in 0 .. n - 1 /\ i - 1 >= p /\ i - 1 < n - 1
        BY <1>1, <1>2, <2>1, <2>4
      <3>2. y[i - 1] = d
        BY <1>2, <1>6, <2>1, <3>1
      <3> QED
        BY <3>1, <3>2
    <2> QED
      BY <1>1, <2>1, <2>2, <2>3, <2>4
  <1> QED
    BY <1>2, <1>5, <1>7, <1>8, <1>9, <1>10 DEF Lists, y

(* Whatever channel v.zorder names, and whether it is employed or not, the *)
(* list stays a list of the same channels.                                 *)
LEMMA RezorderLists ==
  ASSUME NEW z, NEW n, NEW S, Lists(z, n, S), NEW c \in Channels,
         NEW oper \in {"up", "down", "top"}
  PROVE  Lists(rezorder(z, c, oper), n, S)
  <1> DEFINE p == Pos(z, c)
  <1>1. n \in Nat /\ n \in Slots /\ z[n] = -1
    BY MaxAssumption DEF Lists, Slots
  <1>2. CASE c \notin S
    <2>1. z[p] = -1
      BY <1>1, <1>2, PosFinds
    <2>2. up(z, c) = z /\ down(z, c) = z /\ top(z, c) = z
      BY <2>1 DEF up, down, top
    <2> QED
      BY <2>2 DEF rezorder
  <1>3. CASE c \in S
    <2>1. p \in 0 .. n - 1 /\ z[p] = c
      BY <1>3, PosFinds
    <2>2. Lists(up(z, c), n, S)
      <3>1. CASE z[p] # -1 /\ z[p + 1] # -1
        <4>1. p + 1 \in 0 .. n - 1
          BY <1>1, <2>1, <3>1
        <4> QED
          BY <2>1, <3>1, <4>1, SwapLists DEF up
      <3>2. CASE ~(z[p] # -1 /\ z[p + 1] # -1)
        BY <3>2 DEF up
      <3> QED
        BY <3>1, <3>2
    <2>3. Lists(down(z, c), n, S)
      <3>1. CASE z[p] # -1 /\ p > 0
        <4>1. p - 1 \in 0 .. n - 1
          BY <1>1, <2>1, <3>1
        <4> QED
          BY <2>1, <3>1, <4>1, SwapLists DEF down
      <3>2. CASE ~(z[p] # -1 /\ p > 0)
        BY <3>2 DEF down
      <3> QED
        BY <3>1, <3>2
    <2>4. Lists(top(z, c), n, S)
      BY <1>3, TopLists
    <2> QED
      BY <2>2, <2>3, <2>4 DEF rezorder
  <1> QED
    BY <1>2, <1>3

-----------------------------------------------------------------------------
Listed == Employed \ (IF cpc = "push" THEN {chan} ELSE {})

OrderInv == \E n \in Slots : Lists(zorder_, n, Listed)

LEMMA OrderInit == Init => OrderInv
  <1> SUFFICES ASSUME Init PROVE OrderInv
    OBVIOUS
  <1>1. Listed = {}
    BY DEF Init, Listed, Employed
  <1>2. 0 \in Slots /\ Lists(zorder_, 0, {})
    BY MaxAssumption DEF Init, Lists, Slots
  <1> QED
    BY <1>1, <1>2 DEF OrderInv

(* get_channel finds room in the array for the channel it has employed. *)
LEMMA RoomToPush ==
  ASSUME Inductive, NEW n \in Slots, Lists(zorder_, n, Listed), get_channel
  PROVE  chan \in Channels /\ chan \notin Listed /\ n < MAX_CHANNELS
  <1>1. chan \in Employed /\ chan \in Channels /\ cpc = "push" /\ Listed = Employed \ {chan}
    BY DEF get_channel, Inductive, ChannelInv, Employed, Listed
  <1>2. Cardinality(Listed) = Cardinality(Employed) - 1
    BY <1>1, FS_RemoveElement, EmployedFinite
  <1>3. Cardinality(Listed) = n
    BY ListLength
  <1>4. Cardinality(Employed) = video_stream_cnt_ + 1
    BY <1>1 DEF Inductive, ChannelInv, Adding
  <1>5. video_stream_cnt_ \in Nat /\ video_stream_cnt_ < MAX_STREAMS
    BY <1>1, MaxAssumption DEF Inductive, ControlInv, Adding, TypeOK
  <1>6. (video_stream_cnt_ + 1) - 1 = video_stream_cnt_
    BY <1>5
  <1>7. n = video_stream_cnt_
    BY <1>2, <1>3, <1>4, <1>6, Zenon
  <1> QED
    BY <1>1, <1>5, <1>7, MaxAssumption

LEMMA OrderStep ==
  ASSUME "bottom" \notin Opers, Inductive, OrderInv, [Next]_vars
  PROVE  OrderInv'
  <1>1. PICK n \in Slots : Lists(zorder_, n, Listed)
    BY DEF OrderInv
  <1>2. CASE employ
    <2>1. PICK c \in Channels : idle_[c] /\ idle_' = [idle_ EXCEPT ![c] = FALSE] /\ chan' = c
      BY <1>2 DEF employ
    <2>2. Employed' = Employed \cup {c} /\ c \notin Employed
      BY <2>1 DEF Employed, Inductive, TypeOK
    <2>3. Listed' = Listed /\ zorder_' = zorder_
      BY <1>2, <2>1, <2>2 DEF employ, Listed
    <2> QED
      BY <1>1, <2>3 DEF OrderInv
  <1>3. CASE get_channel
    <2>1. chan \in Channels /\ chan \notin Listed /\ n < MAX_CHANNELS
      BY <1>1, <1>3, RoomToPush
    <2>2. Listed' = Listed \cup {chan}
      BY <1>3, <2>1 DEF get_channel, Listed, Employed, Inductive, ChannelInv
    <2>3. Lists(Push(zorder_, chan), n + 1, Listed \cup {chan})
      BY <1>1, <2>1, PushLists
    <2>4. n + 1 \in Slots
      BY <2>1, MaxAssumption DEF Slots
    <2> QED
      BY <1>3, <2>2, <2>3, <2>4 DEF get_channel, OrderInv
  <1>4. CASE free_channel
    <2>1. chan \in Listed
      BY <1>4 DEF free_channel, Listed, Employed, Inductive, ControlInv, ChannelInv
    <2>2. Listed' = Listed \ {chan}
      BY <1>4, <2>1 DEF free_channel, Listed, Employed, Inductive, TypeOK
    <2>3. Lists(Remove(zorder_, chan), n - 1, Listed \ {chan})
      BY <1>1, <2>1, RemoveLists
    <2>4. n - 1 \in Slots
      BY <2>3 DEF Lists
    <2> QED
      BY <1>4, <2>2, <2>3, <2>4 DEF free_channel, OrderInv
  <1>5. CASE serve
    <2>1. Listed' = Listed
      BY <1>5 DEF serve, WorkerLeaves, inputs, control, Listed, Employed
    <2>2. CASE req_ = 2
      <3>1. t_zorder \in [id : Channels, oper : Opers]
        BY <1>5, <2>2 DEF serve, Inductive, HandshakeInv, Answering, ControlInv
      <3>2. t_zorder.id \in Channels /\ t_zorder.oper \in {"up", "down", "top"}
        BY <3>1, OpersAssumption
      <3>3. Lists(zorder_', n, Listed)
        BY <1>1, <1>5, <2>2, <3>2, RezorderLists DEF serve
      <3> QED
        BY <2>1, <3>3 DEF OrderInv
    <2>3. CASE req_ # 2
      BY <1>1, <1>5, <2>1, <2>3 DEF serve, OrderInv
    <2> QED
      BY <2>2, <2>3
  <1>6. ASSUME UNCHANGED <<zorder_, idle_>>, cpc = "push" <=> cpc' = "push",
               cpc = "push" => UNCHANGED chan
        PROVE  OrderInv'
    <2>1. Listed' = Listed
      BY <1>6 DEF Listed, Employed
    <2> QED
      BY <1>1, <1>6, <2>1 DEF OrderInv
  <1>7. CASE Commands
    BY <1>6, <1>7 DEF Commands, add_video_stream, del_video_stream, set_zorder, encoder, uninit,
       req, inputs
  <1>8. CASE get_encoder \/ req_returns \/ resume_video \/ join
    BY <1>6, <1>8 DEF get_encoder, req_returns, AfterReq, resume_video, join, req, inputs
  <1>9. CASE Worker /\ ~serve
    BY <1>6, <1>9 DEF Worker, start, has_req, reply, ReplyLeaves, one_step, push, pending, finish,
       WorkerLeaves, inputs, control
  <1>10. CASE Ticker
    BY <1>6, <1>10 DEF Ticker, channel_process, drain, clear, TickerLeaves, control
  <1>11. CASE UNCHANGED vars
    BY <1>6, <1>11 DEF vars
  <1> QED
    BY <1>2, <1>3, <1>4, <1>5, <1>7, <1>8, <1>9, <1>10, <1>11 DEF Next, Continue, Gone

(* zk.video.mixer.cpp:255, 539: as long as nobody asks for "bottom",       *)
(* zorder_ lists each employed channel once and ends in -1, so no scan     *)
(* leaves the array.                                                       *)
THEOREM ZOrderExactHolds == "bottom" \notin Opers => (Spec => []ZOrderExact)
  <1> SUFFICES ASSUME "bottom" \notin Opers PROVE Spec => []ZOrderExact
    OBVIOUS
  <1>1. Inductive /\ OrderInv /\ [Next]_vars => OrderInv'
    BY OrderStep
  <1>2. OrderInv => ZOrderExact
    <2> SUFFICES ASSUME NEW n \in Slots, Lists(zorder_, n, Listed)
                 PROVE  ZOrderExact
      BY DEF OrderInv
    <2>1. Used(zorder_) = n
      BY UsedFinds
    <2>2. {zorder_[i] : i \in 0 .. n - 1} = Listed
      BY DEF Lists
    <2> QED
      BY <2>1, <2>2 DEF Lists, ZOrderExact, Listed
  <1> QED
    BY <1>1, <1>2, OrderInit, InductiveHolds, PTL DEF Spec

-----------------------------------------------------------------------------
(* What the loops do to the sequence of windows that is drawn. *)

LEMMA DrawnLists ==
  ASSUME NEW z, NEW n, NEW S, Lists(z, n, S)
  PROVE  /\ n \in Nat /\ n <= MAX_CHANNELS /\ 0 .. n - 1 \subseteq Slots
         /\ Drawn(z) = [i \in 1 .. n |-> z[i - 1]]
         /\ Drawn(z) \in Seq(Channels) /\ Len(Drawn(z)) = n /\ DOMAIN Drawn(z) = 1 .. n
         /\ \A i \in 1 .. n : Drawn(z)[i] = z[i - 1] /\ z[i - 1] \in S
  <1>1. n \in Nat /\ n <= MAX_CHANNELS /\ 0 .. n - 1 \subseteq Slots
    BY MaxAssumption DEF Lists, Slots
  <1>2. Drawn(z) = [i \in 1 .. n |-> z[i - 1]]
    BY UsedFinds DEF Drawn
  <1>3. \A i \in 1 .. n : z[i - 1] \in S /\ z[i - 1] \in Channels
    <2> SUFFICES ASSUME NEW i \in 1 .. n PROVE z[i - 1] \in S /\ z[i - 1] \in Channels
      OBVIOUS
    <2>1. i - 1 \in 0 .. n - 1
      BY <1>1
    <2> QED
      BY <2>1 DEF Lists
  <1>4. [i \in 1 .. n |-> z[i - 1]] \in Seq(Channels) /\ Len([i \in 1 .. n |-> z[i - 1]]) = n
    BY <1>1, <1>3
  <1> QED
    BY <1>1, <1>2, <1>3, <1>4

LEMMA AppendIs ==
  ASSUME NEW s \in Seq(Channels), NEW n, Len(s) + 1 = n, NEW c \in Channels
  PROVE  Append(s, c) = [k \in 1 .. n |-> IF k = n THEN c ELSE s[k]]
  <1> DEFINE a == Append(s, c)
             b == [k \in 1 .. n |-> IF k = n THEN c ELSE s[k]]
  <1>1. /\ a \in Seq(Channels) /\ Len(a) = n
        /\ \A k \in 1 .. Len(s) : a[k] = s[k]
        /\ a[n] = c
    BY AppendProperties
  <1>2. n \in Nat /\ Len(s) \in Nat /\ \A k \in 1 .. n : k = n \/ k \in 1 .. Len(s)
    OBVIOUS
  <1>3. b \in Seq(Channels) /\ Len(b) = n
    BY <1>2
  <1>4. \A k \in 1 .. n : a[k] = b[k]
    BY <1>1, <1>2
  <1> HIDE DEF a, b
  <1>5. a = b
    BY <1>1, <1>3, <1>4, SeqEqual
  <1> QED
    BY <1>5 DEF a, b

(* The place of a listed channel in the sequence. *)
LEMMA PlaceFound ==
  ASSUME NEW n, NEW S, Lists(zorder_, n, S), NEW c \in Channels
  PROVE  /\ c \in S => Order!Place(c) = {Pos(zorder_, c) + 1}
         /\ c \notin S => Order!Place(c) = {}
  <1> DEFINE p == Pos(zorder_, c)
  <1>1. /\ n \in Nat /\ DOMAIN Drawn(zorder_) = 1 .. n
        /\ \A i \in 1 .. n : Drawn(zorder_)[i] = zorder_[i - 1] /\ zorder_[i - 1] \in S
    BY DrawnLists
  <1>2. Order!Place(c) = {i \in 1 .. n : zorder_[i - 1] = c}
    BY <1>1 DEF Order!Place
  <1>3. CASE c \in S
    <2>1. p \in 0 .. n - 1 /\ zorder_[p] = c
      BY <1>3, PosFinds
    <2>2. p + 1 \in 1 .. n /\ (p + 1) - 1 = p
      BY <1>1, <2>1
    <2>3. ASSUME NEW i \in 1 .. n, zorder_[i - 1] = c PROVE i = p + 1
      <3>1. i - 1 \in 0 .. n - 1
        BY <1>1
      <3>2. i - 1 = p
        BY <2>1, <2>3, <3>1 DEF Lists
      <3> QED
        BY <1>1, <2>1, <3>2
    <2> HIDE DEF p
    <2> QED
      BY <1>2, <1>3, <2>1, <2>2, <2>3 DEF p
  <1>4. CASE c \notin S
    BY <1>1, <1>2, <1>4
  <1> QED
    BY <1>3, <1>4

(* get_channel opens a window. *)
LEMMA PushDraws ==
  ASSUME NEW n, NEW S, Lists(zorder_, n, S), NEW c \in Channels, c \notin S,
         n < MAX_CHANNELS, zorder_' = Push(zorder_, c)
  PROVE  Order!Open(c)
  <1>1. Lists(zorder_', n + 1, S \cup {c})
    BY PushLists
  <1>2. zorder_' = [zorder_ EXCEPT ![n] = c]
    BY UsedFinds DEF Push
  <1>3. /\ n \in Nat /\ 0 .. n - 1 \subseteq Slots
        /\ Drawn(zorder_) = [i \in 1 .. n |-> zorder_[i - 1]]
        /\ Drawn(zorder_) \in Seq(Channels) /\ Len(Drawn(zorder_)) = n
    BY DrawnLists
  <1>4. Drawn(zorder_') = [i \in 1 .. n + 1 |-> zorder_'[i - 1]]
    BY <1>1, DrawnLists
  <1>5. ASSUME NEW i \in 1 .. n + 1
        PROVE  zorder_'[i - 1] = IF i = n + 1 THEN c ELSE zorder_[i - 1]
    <2>1. i - 1 \in Slots /\ (i - 1 = n <=> i = n + 1)
      BY <1>3, MaxAssumption DEF Slots
    <2> QED
      BY <1>2, <2>1 DEF Lists
  <1>6. Append(Drawn(zorder_), c) = [i \in 1 .. n + 1 |-> IF i = n + 1 THEN c ELSE zorder_[i - 1]]
    BY <1>3
  <1>7. Drawn(zorder_') = Append(Drawn(zorder_), c)
    BY <1>4, <1>5, <1>6
  <1>8. Order!Place(c) = {}
    BY PlaceFound
  <1> QED
    BY <1>7, <1>8 DEF Order!Open

(* free_channel closes one. *)
LEMMA RemoveDraws ==
  ASSUME NEW n, NEW S, Lists(zorder_, n, S), NEW c \in S, zorder_' = Remove(zorder_, c)
  PROVE  Order!Close(c)
  <1> DEFINE p == Pos(zorder_, c)
  <1>0. c \in Channels
    BY DEF Lists
  <1>1. p \in 0 .. n - 1 /\ Order!Place(c) = {p + 1}
    BY <1>0, PosFinds, PlaceFound
  <1>2. Lists(zorder_', n - 1, S \ {c})
    BY RemoveLists
  <1>3. /\ n \in Nat /\ n <= MAX_CHANNELS /\ Len(Drawn(zorder_)) = n
        /\ \A i \in 1 .. n : Drawn(zorder_)[i] = zorder_[i - 1]
    BY DrawnLists
  <1>4. Drawn(zorder_') = [i \in 1 .. n - 1 |-> zorder_'[i - 1]]
    BY <1>2, DrawnLists
  <1>5. \A i \in Slots : zorder_'[i] = IF i < p THEN zorder_[i]
                                ELSE IF i < MAX_CHANNELS THEN zorder_[i + 1] ELSE -1
    BY DEF Remove
  <1> HIDE DEF p
  <1>6. ASSUME NEW i \in 1 .. n - 1
        PROVE  zorder_'[i - 1] = IF i < p + 1 THEN Drawn(zorder_)[i] ELSE Drawn(zorder_)[i + 1]
    <2>1. /\ i - 1 \in Slots /\ i - 1 < MAX_CHANNELS /\ (i - 1 < p <=> i < p + 1)
          /\ i \in 1 .. n /\ i + 1 \in 1 .. n /\ (i - 1) + 1 = i /\ (i + 1) - 1 = i
      BY <1>1, <1>3, MaxAssumption DEF Slots
    <2>2. Drawn(zorder_)[i] = zorder_[i - 1] /\ Drawn(zorder_)[i + 1] = zorder_[i]
      BY <1>3, <2>1
    <2> QED
      BY <1>5, <2>1, <2>2
  <1>7. Drawn(zorder_') = Order!Without(p + 1)
    BY <1>3, <1>4, <1>6 DEF Order!Without
  <1> QED
    BY <1>1, <1>7 DEF Order!Close

(* Two places that change their channels change them in the sequence. *)
LEMMA SwapDraws ==
  ASSUME NEW n, NEW S, Lists(zorder_, n, S), NEW i \in 0 .. n - 1, NEW j \in 0 .. n - 1,
         zorder_' = Swap(zorder_, i, j)
  PROVE  Order!Exchange(i + 1, j + 1) /\ Order!Exchange(j + 1, i + 1)
  <1>1. Lists(zorder_', n, S)
    BY SwapLists
  <1>2. /\ n \in Nat /\ 0 .. n - 1 \subseteq Slots
        /\ Drawn(zorder_) = [k \in 1 .. n |-> zorder_[k - 1]]
    BY DrawnLists
  <1>3. Drawn(zorder_') = [k \in 1 .. n |-> zorder_'[k - 1]]
    BY <1>1, DrawnLists
  <1>4. ASSUME NEW k \in 1 .. n
        PROVE  zorder_'[k - 1] = IF k = i + 1 THEN zorder_[j]
                                 ELSE IF k = j + 1 THEN zorder_[i] ELSE zorder_[k - 1]
    <2>1. k - 1 \in Slots /\ (k - 1 = i <=> k = i + 1) /\ (k - 1 = j <=> k = j + 1)
      BY <1>2
    <2>2. i \in Slots /\ j \in Slots
      BY <1>2
    <2> QED
      BY <2>1, <2>2 DEF Swap, Lists
  <1>5. i + 1 \in 1 .. n /\ j + 1 \in 1 .. n /\ (i + 1) - 1 = i /\ (j + 1) - 1 = j
    BY <1>2
  <1>6. Drawn(zorder_)[i + 1] = zorder_[i] /\ Drawn(zorder_)[j + 1] = zorder_[j]
    BY <1>2, <1>5
  <1> DEFINE y == [k \in 1 .. n |-> IF k = i + 1 THEN zorder_[j]
                                    ELSE IF k = j + 1 THEN zorder_[i] ELSE zorder_[k - 1]]
  <1>7. Drawn(zorder_') = y
    BY <1>3, <1>4
  <1>8. y = [Drawn(zorder_) EXCEPT ![i + 1] = zorder_[j], ![j + 1] = zorder_[i]]
    BY <1>2, <1>5
  <1>9. y = [Drawn(zorder_) EXCEPT ![j + 1] = zorder_[i], ![i + 1] = zorder_[j]]
    BY <1>2, <1>5
  <1> QED
    BY <1>6, <1>7, <1>8, <1>9 DEF Order!Exchange

(* "top" takes a window from its place and puts it on top of the others. *)
LEMMA TopDraws ==
  ASSUME NEW n, NEW S, Lists(zorder_, n, S), NEW c \in S, zorder_' = top(zorder_, c)
  PROVE  Order!Top(c)
  <1> DEFINE p == Pos(zorder_, c)
             w == Order!Without(p + 1)
  <1>0. c \in Channels /\ c # -1
    BY DEF Lists, Channels
  <1>1. p \in 0 .. n - 1 /\ zorder_[p] = c /\ Order!Place(c) = {p + 1} /\ Used(zorder_) = n
    BY <1>0, PosFinds, PlaceFound, UsedFinds
  <1>2. Lists(zorder_', n, S)
    BY TopLists
  <1>3. /\ n \in Nat /\ n <= MAX_CHANNELS /\ Len(Drawn(zorder_)) = n
        /\ Drawn(zorder_) \in Seq(Channels)
        /\ \A i \in 1 .. n : Drawn(zorder_)[i] = zorder_[i - 1]
    BY DrawnLists
  <1>4. Drawn(zorder_') = [i \in 1 .. n |-> zorder_'[i - 1]]
    BY <1>2, DrawnLists
  <1>5. \A k \in Slots : zorder_'[k] = IF k < p \/ k >= n THEN zorder_[k]
                                       ELSE IF k = n - 1 THEN c ELSE zorder_[k + 1]
    BY <1>0, <1>1 DEF top
  <1>6. w = [k \in 1 .. n - 1 |-> IF k < p + 1 THEN Drawn(zorder_)[k] ELSE Drawn(zorder_)[k + 1]]
    BY <1>3 DEF Order!Without
  <1> HIDE DEF p, w
  <1>7. w \in Seq(Channels) /\ Len(w) = n - 1
    <2>1. n - 1 \in Nat
      BY <1>1, <1>3
    <2>2. \A k \in 1 .. n - 1 :
            (IF k < p + 1 THEN Drawn(zorder_)[k] ELSE Drawn(zorder_)[k + 1]) \in Channels
      BY <1>1, <1>3
    <2> QED
      BY <1>6, <2>1, <2>2
  <1>8. Append(w, c) = [k \in 1 .. n |-> IF k = n THEN c ELSE w[k]]
    <2>1. (n - 1) + 1 = n
      BY <1>3
    <2> QED
      BY <1>0, <1>7, <2>1, AppendIs
  <1>9. ASSUME NEW i \in 1 .. n
        PROVE  zorder_'[i - 1] = IF i = n THEN c ELSE w[i]
    <2>1. /\ i - 1 \in Slots /\ (i - 1 < p <=> i < p + 1) /\ i - 1 < n /\ (i - 1 = n - 1 <=> i = n)
          /\ (i - 1) + 1 = i /\ (i + 1) - 1 = i
      BY <1>1, <1>3, MaxAssumption DEF Slots
    <2>2. CASE i = n
      BY <1>1, <1>3, <1>5, <2>1, <2>2
    <2>3. CASE i # n
      <3>1. i \in 1 .. n - 1 /\ i + 1 \in 1 .. n
        BY <1>3, <2>3
      <3>2. w[i] = IF i < p + 1 THEN zorder_[i - 1] ELSE zorder_[i]
        BY <1>3, <1>6, <2>1, <3>1
      <3> QED
        BY <1>3, <1>5, <2>1, <2>3, <3>2
    <2> QED
      BY <2>2, <2>3
  <1>10. Drawn(zorder_') = Append(w, c)
    BY <1>4, <1>8, <1>9
  <1> QED
    BY <1>1, <1>10 DEF Order!Top, w

(* v.zorder moves the window of the channel it names, or nothing at all.   *)
LEMMA RezorderDraws ==
  ASSUME NEW n, NEW S, Lists(zorder_, n, S), NEW c \in Channels,
         NEW oper \in {"up", "down", "top"}, zorder_' = rezorder(zorder_, c, oper)
  PROVE  Order!Next \/ zorder_' = zorder_
  <1> DEFINE p == Pos(zorder_, c)
  <1>1. n \in Nat /\ Len(Drawn(zorder_)) = n /\ zorder_[n] = -1 /\ n \in Slots
    BY DrawnLists, MaxAssumption DEF Lists, Slots
  <1>2. CASE c \notin S
    <2>1. zorder_[p] = -1
      BY <1>1, <1>2, PosFinds
    <2>2. up(zorder_, c) = zorder_ /\ down(zorder_, c) = zorder_ /\ top(zorder_, c) = zorder_
      BY <2>1 DEF up, down, top
    <2> QED
      BY <2>2 DEF rezorder
  <1>3. CASE c \in S
    <2>1. p \in 0 .. n - 1 /\ zorder_[p] = c /\ Order!Place(c) = {p + 1}
      BY <1>3, PosFinds, PlaceFound
    <2>2. CASE oper = "up"
      <3>1. zorder_' = up(zorder_, c)
        BY <2>2 DEF rezorder
      <3>2. CASE zorder_[p] # -1 /\ zorder_[p + 1] # -1
        <4>1. p + 1 \in 0 .. n - 1 /\ (p + 1) + 1 \in Nat /\ p + 1 < n
          BY <1>1, <2>1, <3>2
        <4>2. Order!Exchange(p + 1, (p + 1) + 1)
          BY <2>1, <3>1, <3>2, <4>1, SwapDraws DEF up
        <4>3. Order!Up(c)
          BY <1>1, <2>1, <4>1, <4>2 DEF Order!Up
        <4> QED
          BY <4>3 DEF Order!Next
      <3>3. CASE ~(zorder_[p] # -1 /\ zorder_[p + 1] # -1)
        BY <3>1, <3>3 DEF up
      <3> QED
        BY <3>2, <3>3
    <2>3. CASE oper = "down"
      <3>1. zorder_' = down(zorder_, c)
        BY <2>3 DEF rezorder
      <3>2. CASE zorder_[p] # -1 /\ p > 0
        <4>1. p - 1 \in 0 .. n - 1 /\ (p - 1) + 1 = (p + 1) - 1 /\ p + 1 > 1
          BY <1>1, <2>1, <3>2
        <4>2. Order!Exchange(p + 1, (p + 1) - 1)
          BY <2>1, <3>1, <3>2, <4>1, SwapDraws DEF down
        <4>3. Order!Down(c)
          BY <2>1, <4>1, <4>2 DEF Order!Down
        <4> QED
          BY <4>3 DEF Order!Next
      <3>3. CASE ~(zorder_[p] # -1 /\ p > 0)
        BY <3>1, <3>3 DEF down
      <3> QED
        BY <3>2, <3>3
    <2>4. CASE oper = "top"
      <3>1. zorder_' = top(zorder_, c)
        BY <2>4 DEF rezorder
      <3> QED
        BY <1>3, <3>1, TopDraws DEF Order!Next
    <2> QED
      BY <2>2, <2>3, <2>4
  <1> QED
    BY <1>2, <1>3

LEMMA StepDraws ==
  ASSUME "bottom" \notin Opers, Inductive, OrderInv, [Next]_vars
  PROVE  [Order!Next]_(Drawn(zorder_))
  <1>1. PICK n \in Slots : Lists(zorder_, n, Listed)
    BY DEF OrderInv
  <1>2. CASE get_channel
    <2>1. chan \in Channels /\ chan \notin Listed /\ n < MAX_CHANNELS
      BY <1>1, <1>2, RoomToPush
    <2> QED
      BY <1>1, <1>2, <2>1, PushDraws DEF get_channel, Order!Next
  <1>3. CASE free_channel
    <2>1. chan \in Listed /\ chan \in Channels
      BY <1>3 DEF free_channel, Listed, Employed, Inductive, ControlInv, ChannelInv
    <2> QED
      BY <1>1, <1>3, <2>1, RemoveDraws DEF free_channel, Order!Next
  <1>4. CASE serve /\ req_ = 2
    <2>1. t_zorder \in [id : Channels, oper : Opers]
      BY <1>4 DEF serve, Inductive, HandshakeInv, Answering, ControlInv
    <2>2. t_zorder.id \in Channels /\ t_zorder.oper \in {"up", "down", "top"}
      BY <2>1, OpersAssumption
    <2>3. Order!Next \/ zorder_' = zorder_
      BY <1>1, <1>4, <2>2, RezorderDraws DEF serve
    <2> QED
      BY <2>3
  <1>5. CASE UNCHANGED zorder_
    BY <1>5
  <1>6. CASE Commands \/ employ \/ get_encoder \/ req_returns \/ resume_video \/ join
    BY <1>5, <1>6 DEF Commands, add_video_stream, del_video_stream, set_zorder, encoder, uninit,
       req, inputs, employ, get_encoder, req_returns, AfterReq, resume_video, join
  <1>7. CASE Worker /\ ~(serve /\ req_ = 2)
    BY <1>5, <1>7 DEF Worker, start, has_req, serve, reply, ReplyLeaves, one_step, push, pending,
       finish, WorkerLeaves, inputs, control
  <1>8. CASE Ticker \/ Gone \/ UNCHANGED vars
    BY <1>5, <1>8 DEF Ticker, channel_process, drain, clear, TickerLeaves, control, Gone, vars
  <1> QED
    BY <1>2, <1>3, <1>4, <1>6, <1>7, <1>8 DEF Next, Continue

(* zk.video.mixer.cpp:255, 262, 539: for any numbers of streams and        *)
(* channels, the array zorder_ implements the sequence of windows that     *)
(* DrawingOrder describes, as long as nobody asks for "bottom".            *)
THEOREM DrawsInOrderHolds == "bottom" \notin Opers => (Spec => DrawsInOrder)
  <1> SUFFICES ASSUME "bottom" \notin Opers PROVE Spec => DrawsInOrder
    OBVIOUS
  <1>1. Init => Order!Init
    <2> SUFFICES ASSUME Init PROVE Drawn(zorder_) = <<>>
      BY DEF Order!Init
    <2>1. Lists(zorder_, 0, {})
      BY MaxAssumption DEF Init, Lists, Slots
    <2> QED
      BY <2>1, DrawnLists
  <1>2. Inductive /\ OrderInv /\ [Next]_vars => OrderInv'
    BY OrderStep
  <1>3. Inductive /\ OrderInv /\ [Next]_vars => [Order!Next]_(Drawn(zorder_))
    BY StepDraws
  <1> QED
    BY <1>1, <1>2, <1>3, OrderInit, InductiveHolds, PTL DEF Spec, DrawsInOrder, Order!Spec
=============================================================================
