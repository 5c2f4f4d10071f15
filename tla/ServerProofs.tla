---------------------------- MODULE ServerProofs ----------------------------
(***************************************************************************)
(* Proofs about Server, for any set of requests, any licence and any       *)
(* bounds.  Inductive is shown to hold initially and to be preserved; the  *)
(* licence is a matter of cardinalities and has a lemma of its own, and    *)
(* the deletion of conferences, which destroy_conference and the reaper    *)
(* share, another.                                                         *)
(***************************************************************************)
EXTENDS Server, FiniteSetTheorems, TLAPS

(* Inductive holds before the first command. *)
LEMMA InductiveInit == Init => Inductive
  <1>1. Cardinality({}) = 0
    BY FS_EmptySet
  <1> QED
    BY <1>1, BoundsAssumption
    DEF Init, Inductive, TypeOK, TokensKept, CapRespected, Cids

(* The licence test of create_conference is the only one needed: no other  *)
(* step adds a conference.                                                 *)
LEMMA CapStep ==
  ASSUME TypeOK, CapRespected,
         \/ conferences' \subseteq conferences
         \/ Room /\ \E c \in Cids : conferences' = conferences \cup {c}
  PROVE  CapRespected'
  <1>1. IsFiniteSet(Cids)
    BY FS_Interval, BoundsAssumption DEF Cids
  <1>2. IsFiniteSet(conferences) /\ Cardinality(conferences) \in Nat
    BY <1>1, FS_Subset, FS_CardinalityType DEF TypeOK
  <1>3. CASE conferences' \subseteq conferences
    <2>1. Cardinality(conferences') <= Cardinality(conferences)
          /\ Cardinality(conferences') \in Nat
      BY <1>2, <1>3, FS_Subset, FS_CardinalityType
    <2> QED
      BY <1>2, <2>1, BoundsAssumption DEF CapRespected
  <1>4. CASE Room /\ \E c \in Cids : conferences' = conferences \cup {c}
    <2>1. PICK c \in Cids : conferences' = conferences \cup {c}
      BY <1>4
    <2>2. Cardinality(conferences') =
            IF c \in conferences THEN Cardinality(conferences)
            ELSE Cardinality(conferences) + 1
      BY <1>2, <2>1, FS_AddElement
    <2> QED
      BY <1>2, <1>4, <2>2, BoundsAssumption DEF CapRespected, Room
  <1> QED
    BY <1>3, <1>4

(* Conferences that are deleted, after the tokens they hold have been      *)
(* responded to together with the command R at work, if any, take no token *)
(* with them and no token gets two responses.                              *)
LEMMA DeleteStep ==
  ASSUME Inductive,
         NEW C \in SUBSET conferences,
         NEW R \in SUBSET Requests,
         \A r \in R : req[r] = "sent",
         Delete(C),
         Respond(R \cup FinalResponses(C)),
         srv' = "run_once" => idle \subseteq C,
         srv' \in {"run_once", "reap"},
         stuck = {}, UNCHANGED <<next_id, stuck>>
  PROVE  Inductive'
  <1> USE DEF Inductive, TypeOK
  <1>1. CapRespected'
    BY CapStep DEF Delete
  <1>2. TypeOK'
    <2>1. /\ conferences' \in SUBSET Cids /\ idle' \in SUBSET Cids
          /\ tokens' \in [Cids -> SUBSET Requests]
          /\ sources' \in [Cids -> 0 .. MaxMembers]
          /\ streams' \in [Cids -> 0 .. MaxMembers]
      BY BoundsAssumption DEF Delete
    <2>2. /\ req' \in [Requests -> {"new", "sent", "query", "held", "done"}]
          /\ answers' \in [Requests -> Nat]
      BY DEF Respond
    <2> QED
      BY <2>1, <2>2
  <1>3. TokensKept'
    <2>1. \A r \in FinalResponses(C) : req[r] = "held" /\ r \in Requests
      BY DEF FinalResponses, TokensKept
    <2>2. \A r \in Requests : answers'[r] = (IF req'[r] = "done" THEN 1 ELSE 0)
      BY <2>1 DEF TokensKept, Respond
    <2>3. ASSUME NEW r \in Requests
          PROVE  req'[r] = "held" <=> \E c \in conferences' : r \in tokens'[c]
      <3>1. CASE r \in FinalResponses(C)
        <4>1. req'[r] = "done"
          BY <3>1 DEF Respond
        <4>2. PICK c \in C : r \in tokens[c]
          BY <3>1 DEF FinalResponses
        <4>3. \A d \in conferences' : r \notin tokens'[d]
          BY <4>2 DEF Delete, TokensKept
        <4> QED
          BY <4>1, <4>3
      <3>2. CASE r \in R \ FinalResponses(C)
        <4>1. req'[r] = "done" /\ req[r] = "sent"
          BY <3>2 DEF Respond
        <4> QED
          BY <4>1 DEF Delete, TokensKept
      <3>3. CASE r \notin R \cup FinalResponses(C)
        <4>1. req'[r] = req[r]
          BY <3>3 DEF Respond
        <4>2. \A c \in C : r \notin tokens[c]
          BY <3>3 DEF FinalResponses
        <4> QED
          BY <4>1, <4>2 DEF Delete, TokensKept
      <3> QED
        BY <3>1, <3>2, <3>3
    <2>4. \A c, d \in Cids : c # d => tokens'[c] \cap tokens'[d] = {}
      BY DEF Delete, TokensKept
    <2> QED
      BY <2>2, <2>3, <2>4 DEF TokensKept
  <1> QED
    BY <1>1, <1>2, <1>3 DEF Delete

(* Every step of the server preserves the inductive invariant. *)
LEMMA InductiveStep == Inductive /\ [Next]_vars => Inductive'
  <1> SUFFICES ASSUME Inductive, [Next]_vars PROVE Inductive'
    OBVIOUS
  <1> USE DEF Inductive, TypeOK, members, clients
  <1>1. ASSUME NEW r \in Requests, send(r) PROVE Inductive'
    <2>1. CapRespected'
      BY <1>1, CapStep DEF send
    <2> QED
      BY <1>1, <2>1 DEF send, TokensKept
  <1>2. ASSUME NEW r \in Requests, query(r) PROVE Inductive'
    <2>1. CapRespected'
      BY <1>2, CapStep DEF query
    <2> QED
      BY <1>2, <2>1 DEF query, Respond, TokensKept
  <1>3. ASSUME NEW r \in Requests, create_conference(r) PROVE Inductive'
    <2>1. next_id \in Cids /\ next_id \notin conferences
      BY <1>3, BoundsAssumption DEF create_conference, Cids
    <2>2. CapRespected'
      BY <1>3, <2>1, CapStep DEF create_conference
    <2>3. TypeOK'
      BY <1>3, <2>1, BoundsAssumption DEF create_conference, Respond, Cids
    <2>4. TokensKept'
      BY <1>3, <2>1 DEF create_conference, Handling, Respond, TokensKept
    <2>5. \A c \in conferences' : c < next_id'
      BY <1>3, <2>1, BoundsAssumption DEF create_conference, Cids
    <2> QED
      BY <1>3, <2>2, <2>3, <2>4, <2>5 DEF create_conference, Handling, Respond
  <1>4. ASSUME NEW r \in Requests, other_command(r) PROVE Inductive'
    <2>1. CapRespected'
      BY <1>4, CapStep DEF other_command
    <2> QED
      BY <1>4, <2>1 DEF other_command, Handling, Respond, TokensKept
  <1>5. ASSUME NEW r \in Requests, NEW c \in conferences, destroy_conference(r, c)
        PROVE  Inductive'
    <2>1. {c} \in SUBSET conferences /\ {r} \in SUBSET Requests
      OBVIOUS
    <2>2. \A q \in {r} : req[q] = "sent"
      BY <1>5 DEF destroy_conference, Handling
    <2>3. /\ Delete({c}) /\ Respond({r} \cup FinalResponses({c}))
          /\ stuck = {} /\ UNCHANGED <<next_id, stuck>>
      BY <1>5 DEF destroy_conference, Handling
    <2>4. srv' \in {"run_once", "reap"} /\ (srv' = "run_once" => idle \subseteq {c})
      BY <1>5 DEF destroy_conference
    <2> HIDE DEF Inductive, TypeOK
    <2> QED
      BY <2>1, <2>2, <2>3, <2>4, DeleteStep
  <1>6. ASSUME NEW r \in Requests, NEW c \in conferences, MembersChange(r, c),
               sources' \in [Cids -> 0 .. MaxMembers],
               streams' \in [Cids -> 0 .. MaxMembers],
               \A d \in Cids \ {c} : sources'[d] = sources[d] /\ streams'[d] = streams[d]
        PROVE  Inductive'
    <2>1. CapRespected'
      BY <1>6, CapStep DEF MembersChange
    <2>2. TokensKept'
      BY <1>6 DEF MembersChange, Handling, Respond, TokensKept
    <2> QED
      BY <1>6, <2>1, <2>2 DEF MembersChange, Handling, Respond
  <1>7. ASSUME NEW r \in Requests, NEW c \in conferences,
               add_source(r, c) \/ del_source(r, c) \/ add_stream(r, c) \/ del_stream(r, c)
        PROVE  Inductive'
    <2>1. MembersChange(r, c)
      BY <1>7 DEF add_source, del_source, add_stream, del_stream
    <2>2. /\ sources' \in [Cids -> 0 .. MaxMembers]
          /\ streams' \in [Cids -> 0 .. MaxMembers]
      BY <1>7, BoundsAssumption DEF add_source, del_source, add_stream, del_stream
    <2>3. \A d \in Cids \ {c} : sources'[d] = sources[d] /\ streams'[d] = streams[d]
      BY <1>7 DEF add_source, del_source, add_stream, del_stream
    <2> QED
      BY <1>6, <2>1, <2>2, <2>3
  <1>8. ASSUME NEW r \in Requests, NEW c \in conferences, reg_notify(r, c)
        PROVE  Inductive'
    <2>1. CapRespected'
      BY <1>8, CapStep DEF reg_notify
    <2>2. \A d \in Cids : r \notin tokens[d]
      BY <1>8 DEF reg_notify, Handling, TokensKept
    <2>3. TokensKept'
      BY <1>8, <2>2 DEF reg_notify, Handling, TokensKept
    <2> QED
      BY <1>8, <2>1, <2>3 DEF reg_notify, Handling
  <1>9. ASSUME NEW r \in Requests, NEW c \in conferences, fc_list_sources(r, c)
        PROVE  Inductive'
    <2>1. CapRespected'
      BY <1>9, CapStep DEF fc_list_sources
    <2>2. TokensKept'
      BY <1>9 DEF fc_list_sources, Handling, Respond, TokensKept
    <2> QED
      BY <1>9, <2>1, <2>2 DEF fc_list_sources, Handling, Respond
  <1>10. CASE run_once
    <2>1. CapRespected'
      BY <1>10, CapStep DEF run_once
    <2>2. TokensKept'
      BY <1>10 DEF run_once, TokensKept
    <2>3. \A c \in Cids \ conferences : sources'[c] = 0 /\ streams'[c] = 0
      BY <1>10, BoundsAssumption DEF run_once
    <2>4. idle' \in SUBSET conferences
      BY <1>10 DEF run_once
    <2> QED
      BY <1>10, <2>1, <2>2, <2>3, <2>4 DEF run_once
  <1>11. CASE reap
    <2>1. {} \cup FinalResponses(idle) = FinalResponses(idle)
      OBVIOUS
    <2>2. /\ Delete(idle) /\ Respond({} \cup FinalResponses(idle))
          /\ stuck = {} /\ UNCHANGED <<next_id, stuck>>
          /\ srv' = "run_once"
      BY <1>11, <2>1 DEF reap
    <2>3. idle \in SUBSET conferences /\ {} \in SUBSET Requests
      OBVIOUS
    <2>4. \A q \in {} : req[q] = "sent"
      OBVIOUS
    <2> HIDE DEF Inductive, TypeOK
    <2> QED
      BY <2>2, <2>3, <2>4, DeleteStep
  <1>12. CASE UNCHANGED vars \/ spins
    <2> USE DEF spins
    <2>1. CapRespected'
      BY <1>12, CapStep DEF vars
    <2> QED
      BY <1>12, <2>1 DEF vars, TokensKept
  <1> QED
    BY <1>1, <1>2, <1>3, <1>4, <1>5, <1>7, <1>8, <1>9, <1>10, <1>11, <1>12
    DEF Next, command

(* Inductive is an invariant of the server. *)
THEOREM InductiveHolds == Spec => []Inductive
  BY InductiveInit, InductiveStep, PTL DEF Spec

(* Every variable keeps its type; in particular the counts of a            *)
(* conference's sources and streams never go below zero.                   *)
THEOREM TypeCorrect == Spec => []TypeOK
  <1>1. Inductive => TypeOK
    BY DEF Inductive
  <1> QED
    BY <1>1, InductiveHolds, PTL

(* However conferences end, by a command or by the reaper, each token is   *)
(* responded to once or waits in one conference that exists.               *)
THEOREM TokensKeptHolds == Spec => []TokensKept
  <1>1. Inductive => TokensKept
    BY DEF Inductive
  <1> QED
    BY <1>1, InductiveHolds, PTL

(* The server never runs more conferences than the licence allows. *)
THEOREM CapRespectedHolds == Spec => []CapRespected
  <1>1. Inductive => CapRespected
    BY DEF Inductive
  <1> QED
    BY <1>1, InductiveHolds, PTL

-----------------------------------------------------------------------------
Owed == {r \in Requests : req[r] \in {"sent", "query", "held"}}

(* zkrbt_mse_respond for tokens that are owed is a step of the service. *)
LEMMA RespondServes ==
  ASSUME TypeOK, NEW T \in SUBSET Owed, Respond(T)
  PROVE  Tokens!Next
  <1>1. {r \in Requests : req'[r] \in {"sent", "query", "held"}} = Owed \ T
    BY DEF Respond, Owed
  <1>2. Tokens!Respond(T)
    BY <1>1 DEF Tokens!Respond, Respond, Owed
  <1> QED
    BY <1>2 DEF Tokens!Next, Owed

(* Every step of the server hands a token over, responds to tokens that    *)
(* are owed, or concerns the service not at all.                           *)
LEMMA StepServes ==
  ASSUME Inductive, [Next]_vars
  PROVE  [Tokens!Next]_<<Owed, answers>>
  <1> USE DEF Inductive
  <1>1. CASE \E r \in Requests : send(r)
    <2>1. PICK r \in Requests : send(r)
      BY <1>1
    <2>2. {q \in Requests : req'[q] \in {"sent", "query", "held"}} = Owed \cup {r}
      BY <2>1 DEF send, Owed, TypeOK
    <2>3. Tokens!Receive(r)
      BY <2>1, <2>2 DEF send, Owed, TypeOK, TokensKept, Tokens!Receive
    <2> QED
      BY <2>3 DEF Tokens!Next
  <1>2. CASE \E r \in Requests : command(r)
    <2>1. PICK r \in Requests : command(r)
      BY <1>2
    <2>2. ASSUME Handling(r) \/ req[r] = "query"
          PROVE  {r} \in SUBSET Owed
      BY <2>2 DEF Handling, Owed
    <2>3. CASE Respond({r}) /\ (Handling(r) \/ req[r] = "query")
      BY <2>2, <2>3, RespondServes
    <2>4. ASSUME NEW c \in conferences, destroy_conference(r, c)
          PROVE  Tokens!Next
      <3>1. {r} \cup FinalResponses({c}) \in SUBSET Owed
        BY <2>2, <2>4 DEF destroy_conference, FinalResponses, TypeOK, TokensKept, Owed
      <3> QED
        BY <2>4, <3>1, RespondServes DEF destroy_conference
    <2>5. ASSUME NEW c \in conferences, reg_notify(r, c)
          PROVE  UNCHANGED <<Owed, answers>>
      BY <2>5 DEF reg_notify, Handling, Owed, TypeOK
    <2>6. ASSUME NEW c \in conferences, fc_list_sources(r, c)
          PROVE  \/ Respond({r}) /\ Handling(r)
                 \/ UNCHANGED <<Owed, answers>>
      BY <2>6 DEF fc_list_sources, clients, Owed
    <2> QED
      BY <2>1, <2>3, <2>4, <2>5, <2>6 DEF command, query, create_conference, other_command,
         add_source, del_source, add_stream, del_stream, MembersChange
  <1>3. CASE run_once
    BY <1>3 DEF run_once, clients, Owed
  <1>4. CASE reap
    <2>1. FinalResponses(idle) \in SUBSET Owed
      BY DEF FinalResponses, TypeOK, TokensKept, Owed
    <2> QED
      BY <1>4, <2>1, RespondServes DEF reap
  <1>5. CASE UNCHANGED vars \/ spins
    BY <1>5 DEF vars, spins, Owed
  <1> QED
    BY <1>1, <1>2, <1>3, <1>4, <1>5 DEF Next

(* Conference.cpp:31, Server.cpp:778: the server implements the token      *)
(* service, for every number of commands, conferences and members.         *)
THEOREM ServesTokensHolds == Spec => ServesTokens
  <1>1. Init => Tokens!Init
    BY DEF Init, Tokens!Init
  <1>2. Inductive /\ [Next]_vars => [Tokens!Next]_<<Owed, answers>>
    BY StepServes
  <1> QED
    BY <1>1, <1>2, InductiveHolds, PTL DEF Spec, ServesTokens, Tokens!Spec, Owed

-----------------------------------------------------------------------------
(* A deletion of the conferences C ends those and touches no other. *)
LEMMA DeleteLives ==
  ASSUME Inductive, NEW C \in SUBSET conferences, Delete(C), UNCHANGED next_id,
         NEW c \in Cids
  PROVE  IF c \in C THEN State(c) = "up" /\ Life(c)!Delete
         ELSE UNCHANGED <<State(c), sources[c], streams[c], c \in idle>>
  BY DEF Inductive, TypeOK, Delete, State, Life!Delete

(* To any one conference a step of the server is a step of its life, or    *)
(* nothing.                                                                *)
LEMMA StepLives ==
  ASSUME Inductive, [Next]_vars, NEW c \in Cids
  PROVE  [Life(c)!Next]_(Life(c)!vars)
  <1> USE DEF Inductive
  <1>1. ASSUME UNCHANGED <<conferences, next_id, members, idle, srv>>
        PROVE  UNCHANGED Life(c)!vars
    BY <1>1 DEF members, State, Life!vars
  <1>2. ASSUME NEW r \in Requests, create_conference(r)
        PROVE  [Life(c)!Next]_(Life(c)!vars)
    <2>1. CASE c = next_id
      <3>1. State(c) = "none" /\ State(c)' = "up"
        BY <1>2, <2>1 DEF create_conference, State, TypeOK, Cids
      <3>2. Life(c)!Create
        BY <1>2, <3>1 DEF create_conference, members, Life!Create
      <3> QED
        BY <3>2 DEF Life!Next
    <2>2. CASE c # next_id
      <3>1. State(c)' = State(c)
        BY <1>2, <2>2, BoundsAssumption DEF create_conference, State, TypeOK, Cids
      <3> QED
        BY <1>2, <3>1 DEF create_conference, members, Life!vars
    <2> QED
      BY <2>1, <2>2
  <1>3. ASSUME NEW r \in Requests, NEW d \in conferences, destroy_conference(r, d)
        PROVE  [Life(c)!Next]_(Life(c)!vars)
    <2>1. IF c = d THEN State(c) = "up" /\ Life(c)!Delete
          ELSE UNCHANGED <<State(c), sources[c], streams[c], c \in idle>>
      <3>1. {d} \in SUBSET conferences /\ Delete({d}) /\ UNCHANGED next_id
        BY <1>3 DEF destroy_conference
      <3> QED
        BY <3>1, DeleteLives
    <2>2. UNCHANGED srv
      BY <1>3 DEF destroy_conference
    <2> QED
      BY <2>1, <2>2 DEF Life!Next, Life!Destroy, Life!vars
  <1>4. ASSUME NEW r \in Requests, NEW d \in conferences,
               add_source(r, d) \/ del_source(r, d) \/ add_stream(r, d) \/ del_stream(r, d)
        PROVE  [Life(c)!Next]_(Life(c)!vars)
    <2>1. UNCHANGED <<State(c), c \in idle, srv>>
      BY <1>4 DEF add_source, del_source, add_stream, del_stream, MembersChange, State
    <2>2. CASE c = d
      <3>1. \/ (sources[c]' = sources[c] + 1 \/ (sources[c] > 0 /\ sources[c]' = sources[c] - 1))
               /\ UNCHANGED streams[c]
            \/ (streams[c]' = streams[c] + 1 \/ (streams[c] > 0 /\ streams[c]' = streams[c] - 1))
               /\ UNCHANGED sources[c]
        BY <1>4, <2>2 DEF add_source, del_source, add_stream, del_stream, TypeOK
      <3>2. State(c) = "up"
        BY <2>2 DEF State
      <3>3. Life(c)!Members
        BY <2>1, <3>1, <3>2 DEF Life!Members, Life!Change
      <3> QED
        BY <3>3 DEF Life!Next
    <2>3. CASE c # d
      <3>1. UNCHANGED <<sources[c], streams[c]>>
        BY <1>4, <2>3 DEF add_source, del_source, add_stream, del_stream, TypeOK
      <3> QED
        BY <2>1, <3>1 DEF Life!vars
    <2> QED
      BY <2>2, <2>3
  <1>5. CASE run_once
    <2>1. /\ srv = "run_once" /\ srv' = "reap" /\ State(c)' = State(c)
          /\ sources[c]' <= sources[c] /\ streams[c]' <= streams[c]
      BY <1>5 DEF run_once, State
    <2>2. \/ (c \in idle)' = (c \in idle)
          \/ (c \in idle)' = TRUE /\ c \in conferences /\ sources[c] = 0 /\ streams[c] = 0
      BY <1>5 DEF run_once
    <2>3. Life(c)!RunOnce
      BY <2>1, <2>2 DEF State, Life!RunOnce
    <2> QED
      BY <2>3 DEF Life!Next
  <1>6. CASE reap
    <2>1. IF c \in idle THEN State(c) = "up" /\ Life(c)!Delete
          ELSE UNCHANGED <<State(c), sources[c], streams[c], c \in idle>>
      <3>1. idle \in SUBSET conferences /\ Delete(idle) /\ UNCHANGED next_id
        BY <1>6 DEF reap
      <3> QED
        BY <3>1, DeleteLives
    <2>2. State(c) # "aborted"
      BY DEF State
    <2>3. Life(c)!Reap
      BY <1>6, <2>1, <2>2 DEF reap, Life!Reap
    <2> QED
      BY <2>3 DEF Life!Next
  <1>7. ASSUME NEW r \in Requests,
               \/ send(r) \/ query(r) \/ other_command(r)
               \/ \E d \in conferences : reg_notify(r, d) \/ fc_list_sources(r, d)
        PROVE  UNCHANGED <<conferences, next_id, members, idle, srv>>
    BY <1>7 DEF send, query, other_command, reg_notify, fc_list_sources
  <1>8. CASE UNCHANGED vars \/ spins
    BY <1>1, <1>8 DEF vars, spins, members
  <1> QED
    BY <1>1, <1>2, <1>3, <1>4, <1>5, <1>6, <1>7, <1>8 DEF Next, command

(* Server.cpp:72: whatever commands are sent to the other conferences, the *)
(* server lets each conference live as ConferenceLife says.                *)
THEOREM ConferencesLiveHolds == Spec => ConferencesLive
  <1> SUFFICES ASSUME NEW c \in Cids PROVE Spec => Life(c)!Spec
    BY DEF ConferencesLive
  <1>1. Init => Life(c)!Init
    BY BoundsAssumption DEF Init, Cids, State, Life!Init
  <1>2. Inductive /\ [Next]_vars => [Life(c)!Next]_(Life(c)!vars)
    BY StepLives
  <1> QED
    BY <1>1, <1>2, InductiveHolds, PTL DEF Spec, Life!Spec
=============================================================================
