-------------------------- MODULE ConferenceProofs --------------------------
(***************************************************************************)
(* Proofs about Conference, for any ids, timeouts and modes.  Inductive    *)
(* ties the lists kept by the classes of a conference to each other and    *)
(* its clocks to the silence of the clients; the safety properties follow  *)
(* from it.                                                                *)
(***************************************************************************)
EXTENDS Conference, FiniteSetTheorems, TLAPS

(* An empty server satisfies the invariant. *)
LEMMA InductiveInit == Init => Inductive
  <1> SUFFICES ASSUME Init PROVE Inductive
    OBVIOUS
  <1> USE TypesAssumption, TimesAssumption DEF Init, Objects, Publishers
  <1>1. TypeOK
    <2>1. idle_ \in BOOLEAN
      OBVIOUS
    <2>2. kind \in [SinkIds -> Mixes]
      BY DEF Mixes
    <2>3. idle_age \in 0 .. IdleTime + 1 /\ deletes \in [SourceIds -> 0 .. 2]
      OBVIOUS
    <2> QED
      BY <2>1, <2>2, <2>3 DEF TypeOK
  <1>2. LifeInv
    BY DEF LifeInv, Up, Mixes
  <1>3. WatchersLive /\ GraphPerSource
    BY DEF WatchersLive, GraphPerSource, Up
  <1> QED
    BY <1>1, <1>2, <1>3 DEF Inductive

(* Dropping objects that are up keeps the lists consistent, whether one    *)
(* command or a pass of run_once does it: no publisher keeps a dropped     *)
(* sink, and a dropped source takes its Graph with it.                     *)
LEMMA DropLists ==
  ASSUME Inductive, conf = "up", NEW D \in SUBSET Up(Objects), Drop(D), type' = type
  PROVE  /\ obj' \in [Objects -> {"none", "up", "gone"}]
         /\ kind' \in [SinkIds -> Mixes]
         /\ quiet' \in [Objects -> 0 .. Timeout + 1]
         /\ unread' \in SUBSET SinkIds
         /\ graphics' \in SUBSET SourceIds
         /\ pubs' \in SUBSET StreamIds
         /\ watch' \in [Publishers -> SUBSET SinkIds]
         /\ deletes' \in [SourceIds -> 0 .. 2]
         /\ WatchersLive' /\ GraphPerSource'
         /\ \A k \in SinkIds : \A p \in Mixes : k \in watch'[p] => kind'[k] = p
         /\ \A s \in SourceIds : /\ obj'[s] # "gone" => deletes'[s] = 0
                                 /\ deletes'[s] <= 1
         /\ \A o \in Objects : obj'[o] = "up" <=> obj[o] = "up" /\ o \notin D
  <1> USE TimesAssumption, IdsAssumption
      DEF Inductive, TypeOK, LifeInv, Drop, Forget, Up, Objects, Publishers
  <1>1. /\ obj' \in [Objects -> {"none", "up", "gone"}]
        /\ kind' \in [SinkIds -> Mixes]
        /\ quiet' \in [Objects -> 0 .. Timeout + 1]
        /\ unread' \in SUBSET SinkIds
        /\ graphics' \in SUBSET SourceIds
        /\ pubs' \in SUBSET StreamIds
    BY DEF Mixes
  <1>2. watch' \in [Publishers -> SUBSET SinkIds]
    BY DEF Unwatch
  <1>3. \A o \in Objects : obj'[o] = "up" <=> obj[o] = "up" /\ o \notin D
    OBVIOUS
  <1>4. \A p \in Publishers : \A k \in watch'[p] : k \in watch[p] /\ k \notin D
    BY DEF Unwatch
  <1>5. GraphPerSource'
    BY <1>3 DEF GraphPerSource
  <1>6. WatchersLive'
    <2>1. \A p \in Publishers : watch'[p] \subseteq {k \in SinkIds : obj'[k] = "up"}
      BY <1>2, <1>3, <1>4 DEF WatchersLive
    <2>2. \A p \in Publishers : p \notin Targets' => watch'[p] = {}
      BY DEF WatchersLive, Targets, Unwatch, GraphPerSource
    <2>3. \A p, q \in Publishers : p # q => watch'[p] \cap watch'[q] = {}
      BY <1>4 DEF WatchersLive
    <2> QED
      BY <2>1, <2>2, <2>3 DEF WatchersLive
  <1>7. \A k \in SinkIds : \A p \in Mixes : k \in watch'[p] => kind'[k] = p
    BY <1>4 DEF Mixes
  <1>8. /\ deletes' \in [SourceIds -> 0 .. 2]
        /\ \A s \in SourceIds : /\ obj'[s] # "gone" => deletes'[s] = 0
                                /\ deletes'[s] <= 1
    BY DEF GraphPerSource
  <1> QED
    BY <1>1, <1>2, <1>3, <1>5, <1>6, <1>7, <1>8

(* The destructor leaves an empty conference behind. *)
LEMMA DestroyStep ==
  ASSUME Inductive, conf = "up", Destroy, srv' \in {"run_once", "reap"}
  PROVE  Inductive'
  <1> USE TimesAssumption, IdsAssumption
      DEF Inductive, TypeOK, LifeInv, Destroy, Forget, Up, Objects, Publishers
  <1>1. \A o \in Objects : obj'[o] # "up"
    OBVIOUS
  <1>2. deletes' \in [SourceIds -> 0 .. 2]
    BY DEF GraphPerSource, GraphsLeft
  <1>3. WatchersLive' /\ GraphPerSource'
    BY <1>1 DEF WatchersLive, GraphPerSource
  <1>4. TypeOK'
    <2>1. kind' \in [SinkIds -> Mixes]
      BY DEF Mixes
    <2>2. /\ obj' \in [Objects -> {"none", "up", "gone"}]
          /\ quiet' \in [Objects -> 0 .. Timeout + 1]
          /\ age' \in [Objects -> 0 .. Timeout + 1]
          /\ unread' \in SUBSET SinkIds
      OBVIOUS
    <2>3. idle_' \in BOOLEAN
      OBVIOUS
    <2>4. idle_age' \in 0 .. IdleTime + 1 /\ seen' \in SUBSET Objects
      OBVIOUS
    <2> QED
      BY <1>2, <2>1, <2>2, <2>3, <2>4
  <1>5. LifeInv'
    <2>1. \A s \in SourceIds : obj'[s] # "gone" => deletes'[s] = 0
      BY DEF GraphPerSource, GraphsLeft
    <2>2. /\ conf' = "gone" /\ ~idle_'
          /\ \A k \in SinkIds : \A p \in Mixes : k \notin watch'[p]
          /\ unread' = {}
      OBVIOUS
    <2>3. type' = "director" => \A s \in SourceIds : deletes'[s] <= 1
      BY DEF GraphPerSource, GraphsLeft
    <2> QED
      BY <1>1, <2>1, <2>2, <2>3
  <1> QED
    BY <1>3, <1>4, <1>5

(* Every step preserves the invariant. *)
LEMMA InductiveStep == Inductive /\ [Next]_vars => Inductive'
  <1> SUFFICES ASSUME Inductive, [Next]_vars PROVE Inductive'
    OBVIOUS
  <1> USE TypesAssumption, TimesAssumption, IdsAssumption
  <1>1. CASE create_conference
    BY <1>1 DEF create_conference, Inductive, TypeOK, LifeInv, WatchersLive,
       GraphPerSource, Up, Targets, media
  <1>2. CASE destroy_conference
    BY <1>2, DestroyStep DEF destroy_conference, Inductive, TypeOK
  <1>3. ASSUME NEW s \in SourceIds, addSource(s) PROVE Inductive'
    BY <1>3 DEF addSource, Enter, Inductive, TypeOK, LifeInv, WatchersLive,
       GraphPerSource, Up, Targets, life, Objects, Publishers, Mixes
  <1>4. ASSUME NEW x \in StreamIds, NEW b \in BOOLEAN, addStream(x, b) PROVE Inductive'
    BY <1>4 DEF addStream, Enter, Inductive, TypeOK, LifeInv, WatchersLive,
       GraphPerSource, Up, Targets, life, Objects, Publishers, Mixes
  <1>5. ASSUME NEW k \in SinkIds, NEW p \in Publishers, NEW m \in Mixes, addSink(k, p, m)
        PROVE  Inductive'
    <2> USE <1>5 DEF addSink, Enter, Inductive, life
    <2>1. TypeOK'
      BY DEF TypeOK, Objects, Publishers
    <2>2. \A q \in Publishers : k \notin watch[q]
      BY DEF TypeOK, WatchersLive, Up
    <2>3. WatchersLive'
      BY <2>2 DEF TypeOK, WatchersLive, Up, Targets, Objects, Publishers
    <2>4. GraphPerSource'
      BY DEF TypeOK, GraphPerSource, Up, Objects
    <2>5. LifeInv'
      BY <2>2 DEF TypeOK, LifeInv, Up, Objects, Publishers, Mixes
    <2> QED
      BY <2>1, <2>3, <2>4, <2>5
  <1>6. ASSUME NEW k \in SinkIds, addSink_fails(k) PROVE Inductive'
    BY <1>6 DEF addSink_fails, Inductive, TypeOK, LifeInv, WatchersLive,
       GraphPerSource, Up, Targets, life, Objects, Publishers
  <1>7. ASSUME NEW o \in Objects, delete(o) PROVE Inductive'
    <2> USE <1>7 DEF delete, life
    <2>1. {o} \in SUBSET Up(Objects)
      BY DEF Up
    <2>2. TypeOK'
      BY <2>1, DropLists DEF Inductive, TypeOK
    <2>3. LifeInv'
      <3>1. /\ death' \cup heard' \cup unread' \subseteq {q \in Objects : obj'[q] = "up"}
            /\ conf' = "up"
        BY <2>1, DropLists DEF Inductive, LifeInv, Up, Drop, Forget
      <3>2. \A q \in Objects :
              obj'[q] = "up" /\ q \notin heard' \cup unread' => age'[q] <= quiet'[q]
        BY DEF Inductive, TypeOK, LifeInv, Up, Drop, Forget
      <3>3. idle_' => conf' \in {"up", "aborted"} /\ srv' = "reap" /\ seen' = {}
        BY DEF Inductive, LifeInv
      <3>4. /\ \A k \in SinkIds : \A p \in Mixes : k \in watch'[p] => kind'[k] = p
            /\ \A s \in SourceIds : /\ obj'[s] # "gone" => deletes'[s] = 0
                                    /\ deletes'[s] <= 1
        BY <2>1, DropLists
      <3> QED
        BY <3>1, <3>2, <3>3, <3>4 DEF LifeInv, Up
    <2> QED
      BY <2>1, <2>2, <2>3, DropLists DEF Inductive
  <1>8. CASE run_once
    <2>1. CASE conf # "up"
      BY <1>8, <2>1 DEF run_once, Inductive, TypeOK, LifeInv, WatchersLive,
         GraphPerSource, Up, Targets, media
    <2>2. CASE conf = "up"
      <3> DEFINE dead == Up(Objects) \cap death
                 runs == Up(Objects) \ death
                 restarted == {o \in runs : Restarts(o)}
      <3>1. /\ Drop(dead)
            /\ death' = (death \ dead) \cup {o \in runs : TimesOut(o)}
            /\ heard' = heard \ (restarted \cup dead)
            /\ age' = [o \in Objects |-> IF o \in restarted \cup dead THEN 0 ELSE age[o]]
            /\ idle_' = (idle_ \/ (Empty /\ idle_age > IdleTime))
            /\ idle_age' = (IF Empty THEN idle_age ELSE 0)
            /\ seen' = Members
            /\ UNCHANGED <<conf, type>>
            /\ srv = "run_once" /\ srv' = "reap"
        BY <1>8, <2>2 DEF run_once
      <3>2. dead \in SUBSET Up(Objects)
        OBVIOUS
      <3> HIDE DEF dead
      <3>3. TypeOK'
        BY <2>2, <3>1, <3>2, DropLists DEF Inductive, TypeOK, Members, Up, Objects
      <3>4. LifeInv'
        <4>1. death' \cup heard' \cup unread' \subseteq {o \in Objects : obj'[o] = "up"}
          BY <2>2, <3>1, <3>2, DropLists 
          DEF Inductive, TypeOK, LifeInv, Up, Drop, Forget, dead
        <4>2. \A o \in Objects :
                obj'[o] = "up" /\ o \notin heard' \cup unread' => age'[o] <= quiet'[o]
          BY <2>2, <3>1, <3>2, DropLists
          DEF Inductive, TypeOK, LifeInv, Up, Drop, Forget, Restarts
        <4>3. idle_' => conf' \in {"up", "aborted"} /\ srv' = "reap" /\ seen' = {}
          BY <2>2, <3>1 DEF Inductive, LifeInv, Empty
        <4> QED
          BY <2>2, <3>1, <3>2, <4>1, <4>2, <4>3, DropLists DEF LifeInv, Up
      <3> QED
        BY <2>2, <3>1, <3>2, <3>3, <3>4, DropLists DEF Inductive
    <2> QED
      BY <2>1, <2>2
  <1>9. CASE reap
    <2>1. CASE conf = "up" /\ idle_
      BY <1>9, <2>1, DestroyStep DEF reap
    <2>2. CASE ~(conf = "up" /\ idle_)
      <3> USE <1>9, <2>2 DEF reap, media, Inductive
      <3>1. TypeOK'
        BY DEF TypeOK
      <3>2. WatchersLive' /\ GraphPerSource'
        BY DEF WatchersLive, GraphPerSource, Up, Targets
      <3>3. LifeInv'
        BY DEF LifeInv, Up
      <3> QED
        BY <3>1, <3>2, <3>3
    <2> QED
      BY <2>1, <2>2
  <1>10. ASSUME NEW o \in SourceIds \cup StreamIds, packet(o) PROVE Inductive'
    BY <1>10 DEF packet, Inductive, TypeOK, LifeInv, WatchersLive,
       GraphPerSource, Up, Targets, life, Objects
  <1>11. CASE Tick
    <2> USE <1>11 DEF Tick, Later, Inductive
    <2>1. TypeOK'
      BY DEF TypeOK
    <2>2. LifeInv'
      BY DEF TypeOK, LifeInv, Up
    <2>3. WatchersLive' /\ GraphPerSource'
      BY DEF WatchersLive, GraphPerSource, Up, Targets
    <2> QED
      BY <2>1, <2>2, <2>3
  <1>12. CASE UNCHANGED vars
    BY <1>12 DEF vars, Inductive, TypeOK, LifeInv, WatchersLive, GraphPerSource,
       Up, Targets
  <1>13. ASSUME NEW k \in SinkIds, arrives(k) \/ sendm(k) PROVE Inductive'
    BY <1>13 DEF arrives, sendm, Inductive, TypeOK, LifeInv, WatchersLive,
       GraphPerSource, Up, Targets, life, Objects
  <1>14. CASE addSink_asserts
    BY <1>14 DEF addSink_asserts, Inductive, TypeOK, LifeInv, WatchersLive,
       GraphPerSource, Up, Targets, media
  <1> QED
    BY <1>1, <1>2, <1>3, <1>4, <1>5, <1>6, <1>7, <1>8, <1>9, <1>10, <1>11, <1>12,
       <1>13, <1>14, Zenon
    DEF Next, Command, Aborted, delSource, delStream, delSink, Objects

(* The invariant holds in every reachable state. *)
THEOREM InductiveHolds == Spec => []Inductive
  BY InductiveInit, InductiveStep, PTL DEF Spec

(* Every variable keeps its type, the clocks and the counts of Graph       *)
(* deletions included.                                                     *)
THEOREM TypeCorrect == Spec => []TypeOK
  <1>1. Inductive => TypeOK
    BY DEF Inductive
  <1> QED
    BY <1>1, InductiveHolds, PTL

(* No Graph is deleted twice while its conference lives, nor by the        *)
(* destructor of a DirectorConference.                                     *)
THEOREM GraphDeletedOnceByDirectorHolds == Spec => []GraphDeletedOnceByDirector
  <1>1. Inductive => GraphDeletedOnceByDirector
    BY DEF Inductive, LifeInv, GraphDeletedOnceByDirector
  <1> QED
    BY <1>1, InductiveHolds, PTL

(* No publisher of a conference ever sends to a freed sink. *)
THEOREM WatchersLiveHolds == Spec => []WatchersLive
  <1>1. Inductive => WatchersLive
    BY DEF Inductive
  <1> QED
    BY <1>1, InductiveHolds, PTL

(* sources_ and graphics_ agree: find_graph never fails for a source that  *)
(* find_source found.                                                      *)
THEOREM GraphPerSourceHolds == Spec => []GraphPerSource
  <1>1. Inductive => GraphPerSource
    BY DEF Inductive
  <1> QED
    BY <1>1, InductiveHolds, PTL

(* Nobody who sends at least once per timeout is marked dead, however late *)
(* the passes of Server::run are, except a sink whose RTCP lies unread     *)
(* because nothing was sent to it since.                                   *)
THEOREM DeathOnlyAfterSilenceHolds == Spec => DeathOnlyAfterSilence
  <1> DEFINE Silent == \A o \in Objects : o \in death' \ death =>
                        quiet[o] > Timeout \/ o \in unread
  <1>1. Inductive /\ [Next]_vars => [Silent]_vars
    <2> SUFFICES ASSUME Inductive, Next PROVE Silent
      OBVIOUS
    <2>1. CASE run_once
      BY <2>1, TimesAssumption
      DEF run_once, TimesOut, Inductive, TypeOK, LifeInv, Up, media
    <2>2. CASE death' \subseteq death
      BY <2>2
    <2> QED
      BY <2>1, <2>2
      DEF Next, Command, create_conference, destroy_conference, Destroy, addSource,
          addStream, addSink, addSink_fails, addSink_asserts, delSource, delStream,
          delSink, delete, reap, packet, arrives, sendm, Tick, Aborted, Enter,
          media, life, vars
  <1> QED
    BY <1>1, InductiveHolds, PTL DEF Spec, DeathOnlyAfterSilence

(* The reaper deletes no source or stream that the last run_once counted. *)
THEOREM ReapSparesSeenHolds == Spec => ReapSparesSeen
  <1> DEFINE Spares == conf = "up" /\ conf' = "gone" /\ srv # srv' => Members \cap seen = {}
  <1>1. Inductive /\ [Next]_vars => [Spares]_vars
    <2> SUFFICES ASSUME Inductive, Next PROVE Spares
      OBVIOUS
    <2>1. CASE reap
      BY <2>1 DEF reap, Inductive, LifeInv
    <2>2. CASE srv' = srv
      BY <2>2
    <2>3. CASE conf' = conf
      BY <2>3
    <2> QED
      BY <2>1, <2>2, <2>3
      DEF Next, Command, create_conference, destroy_conference, addSource, addStream,
          addSink, addSink_fails, addSink_asserts, delSource, delStream, delSink,
          delete, run_once, packet, arrives, sendm, Tick, Aborted, life, vars
  <1> QED
    BY <1>1, InductiveHolds, PTL DEF Spec, ReapSparesSeen

-----------------------------------------------------------------------------
(* Sources and streams can be counted, though the ids may have no bound. *)
Counted == IsFiniteSet(Up(SourceIds)) /\ IsFiniteSet(Up(StreamIds))

(* An object that comes is one more. *)
LEMMA CountAdd ==
  ASSUME NEW U, NEW V, IsFiniteSet(U), NEW o, o \notin U, V = U \cup {o}
  PROVE  IsFiniteSet(V) /\ Cardinality(V) = Cardinality(U) + 1
  BY FS_AddElement

(* An object that goes is one less, and there was one. *)
LEMMA CountRemove ==
  ASSUME NEW U, NEW V, IsFiniteSet(U), NEW o, o \in U, V = U \ {o}
  PROVE  /\ IsFiniteSet(V)
         /\ Cardinality(U) > 0 /\ Cardinality(V) = Cardinality(U) - 1
  <1>1. Cardinality(U) \in Nat /\ Cardinality(U) # 0
    BY FS_CardinalityType, FS_EmptySet
  <1> QED
    BY <1>1, FS_RemoveElement

(* Objects that go are not more. *)
LEMMA CountSome ==
  ASSUME NEW U, NEW V, IsFiniteSet(U), V \subseteq U
  PROVE  IsFiniteSet(V) /\ Cardinality(V) <= Cardinality(U)
  BY FS_Subset

(* None are zero. *)
LEMMA CountNone == IsFiniteSet({}) /\ Cardinality({}) = 0
  BY FS_EmptySet

(* An object that a command adds is counted in the sets S it belongs to,   *)
(* and only there.                                                         *)
LEMMA EnterCounts ==
  ASSUME Inductive, NEW S \in SUBSET Objects, IsFiniteSet(Up(S)),
         NEW o \in Objects, obj[o] = "none", obj' = [obj EXCEPT ![o] = "up"]
  PROVE  /\ IsFiniteSet(Up(S)')
         /\ o \in S => Cardinality(Up(S)') = Cardinality(Up(S)) + 1
         /\ o \notin S => Up(S)' = Up(S)
  <1> USE DEF Inductive, TypeOK, Up
  <1>1. CASE o \in S
    <2>1. Up(S)' = Up(S) \cup {o} /\ o \notin Up(S)
      BY <1>1
    <2> QED
      BY <1>1, <2>1, CountAdd
  <1>2. CASE o \notin S
    BY <1>2
  <1> QED
    BY <1>1, <1>2

(* And so is one that a command deletes. *)
LEMMA DeleteCounts ==
  ASSUME Inductive, NEW S \in SUBSET Objects, IsFiniteSet(Up(S)),
         NEW o \in Objects, delete(o)
  PROVE  /\ IsFiniteSet(Up(S)')
         /\ o \in S => /\ Cardinality(Up(S)) > 0
                       /\ Cardinality(Up(S)') = Cardinality(Up(S)) - 1
         /\ o \notin S => Up(S)' = Up(S)
  <1>1. Up(S)' = Up(S) \ {o} /\ (o \in S => o \in Up(S))
    BY DEF delete, Drop, Forget, Inductive, TypeOK, Up
  <1>2. CASE o \in S
    BY <1>1, <1>2, CountRemove
  <1>3. CASE o \notin S
    <2>1. Up(S)' = Up(S)
      BY <1>1, <1>3 DEF Up
    <2> QED
      BY <1>3, <2>1
  <1> QED
    BY <1>2, <1>3

(* Deleted with its conference, nothing is left to count. *)
LEMMA DestroyCounts ==
  ASSUME Inductive, Destroy
  PROVE  Life!Delete /\ Counted'
  <1>1. Up(SourceIds)' = {} /\ Up(StreamIds)' = {}
    BY DEF Destroy, Forget, Up, Objects
  <1> QED
    BY <1>1, CountNone DEF Destroy, Life!Delete, Counted

(* Every step of a conference is a step of its life, or does not show.     *)
LEMMA StepLives ==
  ASSUME Inductive, Counted, [Next]_vars
  PROVE  [Life!Next]_(Life!vars) /\ Counted'
  <1> DEFINE Goal == [Life!Next]_(Life!vars) /\ Counted'
  <1>1. SourceIds \in SUBSET Objects /\ StreamIds \in SUBSET Objects
    BY DEF Objects
  <1>2. SourceIds \cap StreamIds = {} /\ SinkIds \cap (SourceIds \cup StreamIds) = {}
    BY IdsAssumption
  <1>3. ASSUME UNCHANGED <<Up(SourceIds), Up(StreamIds), conf, idle_, srv>>
        PROVE  Goal
    BY <1>3 DEF Counted, Life!vars
  <1>4. CASE create_conference
    <2>1. Up(SourceIds)' = Up(SourceIds) /\ Up(StreamIds)' = Up(StreamIds)
      BY <1>4 DEF create_conference, media, Up
    <2>2. Life!Create
      BY <1>4, <2>1 DEF create_conference, Life!Create
    <2> QED
      BY <2>1, <2>2 DEF Counted, Life!Next
  <1>5. CASE destroy_conference
    BY <1>5, DestroyCounts DEF destroy_conference, Life!Destroy, Life!Next
  <1>6. ASSUME NEW o \in SourceIds \cup StreamIds \cup SinkIds, Enter(o), UNCHANGED life
        PROVE  Goal
    <2>1. /\ o \in Objects /\ conf = "up" /\ obj[o] = "none"
          /\ obj' = [obj EXCEPT ![o] = "up"] /\ UNCHANGED <<conf, idle_, srv>>
      BY <1>6 DEF Enter, life, Objects
    <2>2. /\ IsFiniteSet(Up(SourceIds)')
          /\ o \in SourceIds => Cardinality(Up(SourceIds)') = Cardinality(Up(SourceIds)) + 1
          /\ o \notin SourceIds => Up(SourceIds)' = Up(SourceIds)
      BY <1>1, <2>1, EnterCounts DEF Counted
    <2>3. /\ IsFiniteSet(Up(StreamIds)')
          /\ o \in StreamIds => Cardinality(Up(StreamIds)') = Cardinality(Up(StreamIds)) + 1
          /\ o \notin StreamIds => Up(StreamIds)' = Up(StreamIds)
      BY <1>1, <2>1, EnterCounts DEF Counted
    <2>4. CASE o \in SinkIds
      BY <1>2, <1>3, <2>1, <2>2, <2>3, <2>4
    <2>5. CASE o \in SourceIds \cup StreamIds
      <3>1. Life!Members
        BY <1>2, <2>1, <2>2, <2>3, <2>5 DEF Life!Members, Life!Change
      <3> QED
        BY <2>2, <2>3, <3>1 DEF Counted, Life!Next
    <2> QED
      BY <2>4, <2>5
  <1>7. ASSUME NEW o \in SourceIds \cup StreamIds \cup SinkIds, delete(o) PROVE Goal
    <2>1. /\ o \in Objects /\ conf = "up" /\ UNCHANGED <<conf, idle_, srv>>
      BY <1>7 DEF delete, life, Objects
    <2>2. /\ IsFiniteSet(Up(SourceIds)')
          /\ o \in SourceIds =>
               /\ Cardinality(Up(SourceIds)) > 0
               /\ Cardinality(Up(SourceIds)') = Cardinality(Up(SourceIds)) - 1
          /\ o \notin SourceIds => Up(SourceIds)' = Up(SourceIds)
      BY <1>1, <1>7, <2>1, DeleteCounts DEF Counted
    <2>3. /\ IsFiniteSet(Up(StreamIds)')
          /\ o \in StreamIds =>
               /\ Cardinality(Up(StreamIds)) > 0
               /\ Cardinality(Up(StreamIds)') = Cardinality(Up(StreamIds)) - 1
          /\ o \notin StreamIds => Up(StreamIds)' = Up(StreamIds)
      BY <1>1, <1>7, <2>1, DeleteCounts DEF Counted
    <2>4. CASE o \in SinkIds
      BY <1>2, <1>3, <2>1, <2>2, <2>3, <2>4
    <2>5. CASE o \in SourceIds \cup StreamIds
      <3>1. Life!Members
        BY <1>2, <2>1, <2>2, <2>3, <2>5 DEF Life!Members, Life!Change
      <3> QED
        BY <2>2, <2>3, <3>1 DEF Counted, Life!Next
    <2> QED
      BY <2>4, <2>5
  <1>8. ASSUME NEW k \in SinkIds, addSink_fails(k) PROVE Goal
    <2>1. UNCHANGED <<Up(SourceIds), Up(StreamIds)>>
      BY <1>2, <1>8 DEF addSink_fails, Up, Objects, Inductive, TypeOK
    <2> QED
      BY <1>3, <1>8, <2>1 DEF addSink_fails, life
  <1>9. CASE run_once
    <2>1. Up(SourceIds)' \subseteq Up(SourceIds) /\ Up(StreamIds)' \subseteq Up(StreamIds)
      BY <1>9 DEF run_once, media, Drop, Forget, Up, Objects
    <2>2. /\ Counted'
          /\ Cardinality(Up(SourceIds)') <= Cardinality(Up(SourceIds))
          /\ Cardinality(Up(StreamIds)') <= Cardinality(Up(StreamIds))
      BY <2>1, CountSome DEF Counted
    <2>3. \/ idle_' = idle_
          \/ /\ idle_' = TRUE /\ conf = "up"
             /\ Cardinality(Up(SourceIds)) = 0 /\ Cardinality(Up(StreamIds)) = 0
      <3>1. CASE conf = "up" /\ Empty /\ idle_age > IdleTime
        <4>1. Up(SourceIds) = {} /\ Up(StreamIds) = {}
          BY <3>1 DEF Empty, Members, Up
        <4> QED
          BY <1>9, <3>1, <4>1, CountNone DEF run_once
      <3>2. CASE ~(conf = "up" /\ Empty /\ idle_age > IdleTime)
        <4>1. idle_ \in BOOLEAN
          BY DEF Inductive, TypeOK
        <4> QED
          BY <1>9, <3>2, <4>1, Zenon DEF run_once
      <3> QED
        BY <3>1, <3>2
    <2>4. Life!RunOnce
      BY <1>9, <2>2, <2>3 DEF run_once, Life!RunOnce
    <2> QED
      BY <2>2, <2>4 DEF Life!Next
  <1>10. CASE reap
    <2>1. CASE conf = "up" /\ idle_
      BY <1>10, <2>1, DestroyCounts DEF reap, Life!Reap, Life!Next
    <2>2. CASE ~(conf = "up" /\ idle_)
      <3>1. ~idle_
        BY <1>10, <2>2 DEF reap, Inductive, LifeInv
      <3>2. UNCHANGED <<Up(SourceIds), Up(StreamIds), conf, idle_>>
        BY <1>10, <2>2 DEF reap, media, Up
      <3>3. Life!Reap
        BY <1>10, <3>1, <3>2 DEF reap, Life!Reap
      <3> QED
        BY <3>2, <3>3 DEF Counted, Life!Next
    <2> QED
      BY <2>1, <2>2
  <1>11. CASE \/ Tick \/ \E o \in SourceIds \cup StreamIds : packet(o)
              \/ \E k \in SinkIds : arrives(k) \/ sendm(k)
    <2>1. UNCHANGED <<obj, conf, idle_, srv>>
      BY <1>11 DEF Tick, packet, arrives, sendm, life
    <2> QED
      BY <1>3, <2>1 DEF Up
  <1>12. CASE UNCHANGED vars
    BY <1>3, <1>12 DEF vars, Up
  <1>13. CASE addSink_asserts
    <2>1. Up(SourceIds)' = Up(SourceIds) /\ Up(StreamIds)' = Up(StreamIds)
      BY <1>13 DEF addSink_asserts, media, Up
    <2>2. Life!Abort
      BY <1>13, <2>1 DEF addSink_asserts, Life!Abort
    <2> QED
      BY <2>1, <2>2 DEF Counted, Life!Next
  <1> QED
    BY <1>4, <1>5, <1>6, <1>7, <1>8, <1>9, <1>10, <1>11, <1>12, <1>13
    DEF Next, Command, Aborted, addSource, addStream, addSink, delSource, delStream, delSink

(* Conference.cpp:615: a conference, with its objects, their timeouts and  *)
(* its two classes, does to its counts of sources and streams and to idle_ *)
(* no more than ConferenceLife says, which is what module Server has.      *)
THEOREM LivesAsServedHolds == Spec => LivesAsServed
  <1>1. Init => Life!Init /\ Counted
    <2>1. Init => Up(SourceIds) = {} /\ Up(StreamIds) = {}
      BY DEF Init, Up, Objects
    <2> QED
      BY <2>1, CountNone DEF Init, Life!Init, Counted
  <1>2. Inductive /\ Counted /\ [Next]_vars => [Life!Next]_(Life!vars) /\ Counted'
    BY StepLives
  <1> QED
    BY <1>1, <1>2, InductiveHolds, PTL DEF Spec, LivesAsServed, Life!Spec
=============================================================================
