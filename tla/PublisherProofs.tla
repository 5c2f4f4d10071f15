-------------------------- MODULE PublisherProofs --------------------------
(***************************************************************************)
(* Proofs about Publisher, for any set of sessions and any burst length.   *)
(* The argument: Inductive says where each session is at every point of    *)
(* the two threads.  It holds initially and every step preserves it; the   *)
(* safety properties follow from it.                                       *)
(***************************************************************************)
EXTENDS Publisher, TLAPS

(* Inductive holds before the first receiver is added. *)
LEMMA InductiveInit == Init => Inductive
  BY MaxBurstAssumption
  DEF Init, Inductive, TypeOK, ThreadsInv, SessionInv, ErasedInv, Unvisited,
      Visited, Removing, cs_pendings_free, Port

(* Every step of the publisher keeps each variable in its type. *)
LEMMA TypeStep == TypeOK /\ [Next]_vars => TypeOK'
  <1> SUFFICES ASSUME TypeOK, [Next]_vars PROVE TypeOK'
    OBVIOUS
  <1> USE DEF TypeOK, ctl, lists, ticker
  <1>1. ASSUME NEW rs \in Sessions, add_remote_pending(rs) PROVE TypeOK'
    BY <1>1 DEF add_remote_pending
  <1>2. ASSUME NEW rs \in Sessions, add_remote_sending(rs) PROVE TypeOK'
    BY <1>2 DEF add_remote_sending
  <1>3. ASSUME NEW rs \in Sessions, del_remote_sending(rs) PROVE TypeOK'
    BY <1>3 DEF del_remote_sending
  <1>4. CASE del_remote_pending
    BY <1>4 DEF del_remote_pending
  <1>5. CASE free_sink
    BY <1>5 DEF free_sink
  <1>6. CASE uninit
    BY <1>6 DEF uninit
  <1>7. ASSUME NEW rs \in Sessions, free_orphan_sink(rs) PROVE TypeOK'
    BY <1>7 DEF free_orphan_sink
  <1>8. CASE process_begin
    BY <1>8 DEF process_begin
  <1>9. CASE dispatch_all
    BY <1>9, MaxBurstAssumption DEF dispatch_all
  <1>10. CASE chk_pendings
    BY <1>10 DEF chk_pendings
  <1>11. ASSUME NEW rs \in Sessions, TryRecv(rs) PROVE TypeOK'
    BY <1>11 DEF TryRecv
  <1>12. CASE try_recv_end
    BY <1>12 DEF try_recv_end
  <1>13. CASE erase_recved
    BY <1>13 DEF erase_recved
  <1>14. ASSUME NEW rs \in Sessions, NEW p \in Port, client_datagram(rs, p)
         PROVE TypeOK'
    BY <1>14 DEF client_datagram
  <1>15. CASE UNCHANGED vars
    BY <1>15 DEF vars
  <1> QED
    BY <1>1, <1>2, <1>3, <1>4, <1>5, <1>6, <1>7, <1>8, <1>9, <1>10, <1>11,
       <1>12, <1>13, <1>14, <1>15 DEF Next, Control, Process

(* Every step of the publisher preserves the inductive invariant. *)
LEMMA InductiveStep == Inductive /\ [Next]_vars => Inductive'
  <1> SUFFICES ASSUME Inductive, [Next]_vars PROVE Inductive'
    OBVIOUS
  <1>0. TypeOK /\ TypeOK'
    BY TypeStep DEF Inductive
  <1> SUFFICES ThreadsInv' /\ \A s \in Sessions : SessionInv(s)' /\ ErasedInv(s)'
    BY <1>0 DEF Inductive
  <1> DEFINE Goal == ThreadsInv' /\ \A s \in Sessions : SessionInv(s)' /\ ErasedInv(s)'
  <1> USE <1>0 DEF Inductive, TypeOK, ThreadsInv, SessionInv, ErasedInv, Unvisited,
          Visited, Removing, cs_pendings_free, ctl, lists, ticker, Port
  <1>1. ASSUME NEW rs \in Sessions, add_remote_pending(rs) PROVE Goal
    BY <1>1 DEF add_remote_pending
  <1>2. ASSUME NEW rs \in Sessions, add_remote_sending(rs) PROVE Goal
    BY <1>2 DEF add_remote_sending
  <1>3. ASSUME NEW rs \in Sessions, del_remote_sending(rs) PROVE Goal
    BY <1>3 DEF del_remote_sending
  <1>4. CASE del_remote_pending
    BY <1>4 DEF del_remote_pending
  <1>5. CASE free_sink
    BY <1>5 DEF free_sink
  <1>6. CASE uninit
    BY <1>6 DEF uninit
  <1>7. ASSUME NEW rs \in Sessions, free_orphan_sink(rs) PROVE Goal
    BY <1>7 DEF free_orphan_sink
  <1>8. CASE process_begin
    BY <1>8 DEF process_begin
  <1>9. CASE dispatch_all
    BY <1>9 DEF dispatch_all
  <1>10. CASE chk_pendings
    BY <1>10 DEF chk_pendings
  <1>11. ASSUME NEW rs \in Sessions, TryRecv(rs) PROVE Goal
    BY <1>11 DEF TryRecv, op_chk_recved
  <1>12. CASE try_recv_end
    BY <1>12 DEF try_recv_end
  <1>13. CASE erase_recved
    BY <1>13 DEF erase_recved, op_chk_recved
  <1>14. ASSUME NEW rs \in Sessions, NEW p \in Port, client_datagram(rs, p)
         PROVE Goal
    BY <1>14 DEF client_datagram
  <1>15. CASE UNCHANGED vars
    BY <1>15 DEF vars
  <1> QED
    BY <1>1, <1>2, <1>3, <1>4, <1>5, <1>6, <1>7, <1>8, <1>9, <1>10, <1>11,
       <1>12, <1>13, <1>14, <1>15 DEF Next, Control, Process

(* The inductive invariant holds in every reachable state. *)
THEOREM InductiveHolds == Spec => []Inductive
  BY InductiveInit, InductiveStep, PTL DEF Spec

(* Every variable keeps its type; in particular the count of packets left  *)
(* in inputs[0] and the multiplicities in rtp_sessions_ stay natural.      *)
THEOREM TypeCorrect == Spec => []TypeOK
  <1>1. Inductive => TypeOK
    BY DEF Inductive
  <1> QED
    BY <1>1, InductiveHolds, PTL

(* However removal, promotion and ticks interleave, rtp_sessions_ never    *)
(* holds a session twice: each packet reaches a receiver at most once.     *)
THEOREM SentOnceHolds == Spec => []SentOnce
  <1>1. Inductive => SentOnce
    BY DEF Inductive, SessionInv, SentOnce
  <1> QED
    BY <1>1, InductiveHolds, PTL

(* chk_pendings reads sockets of live sessions only, whatever the control  *)
(* thread deletes during the pass.                                         *)
THEOREM PeekOnlyLiveHolds == Spec => []PeekOnlyLive
  <1>1. Inductive => PeekOnlyLive
    BY DEF Inductive, TypeOK, ThreadsInv, SessionInv, PeekOnlyLive
  <1> QED
    BY <1>1, InductiveHolds, PTL

(* Outside a chk_pendings pass a receiver nobody is removing is in exactly *)
(* one of the two lists.                                                   *)
THEOREM NoLostReceiverHolds == Spec => []NoLostReceiver
  <1>1. Inductive => NoLostReceiver
    BY DEF Inductive, TypeOK, SessionInv, Unvisited, NoLostReceiver
  <1> QED
    BY <1>1, InductiveHolds, PTL

(* A receiver that del_remote found in rtp_sessions_ is never put back by  *)
(* a pass of chk_pendings that was already under way.                      *)
THEOREM RemovedSenderStaysOutHolds == Spec => []RemovedSenderStaysOut
  <1>1. Inductive => RemovedSenderStaysOut
    BY DEF Inductive, TypeOK, ErasedInv, RemovedSenderStaysOut
  <1> QED
    BY <1>1, InductiveHolds, PTL

(* A receiver leaves rtp_sessions_ only by its own removal or with the     *)
(* publisher: every other step leaves its multiplicity or raises it.       *)
THEOREM LeavesOnlyByRemovalHolds == Spec => LeavesOnlyByRemoval
  <1> DEFINE Leaves == \A rs \in Sessions : sending'[rs] < sending[rs] =>
                         rs \in Removing' \/ ~attached'
  <1>1. TypeOK /\ [Next]_vars => [Leaves]_vars
    <2> SUFFICES ASSUME TypeOK, Next PROVE Leaves
      OBVIOUS
    <2> USE DEF TypeOK, ctl, lists, ticker
    <2>1. ASSUME NEW rs \in Sessions, add_remote_sending(rs) PROVE Leaves
      BY <2>1 DEF add_remote_sending
    <2>2. ASSUME NEW rs \in Sessions, del_remote_sending(rs) PROVE Leaves
      BY <2>2 DEF del_remote_sending, Removing
    <2>3. CASE uninit
      BY <2>3 DEF uninit
    <2>4. ASSUME NEW rs \in Sessions, TryRecv(rs) PROVE Leaves
      BY <2>4 DEF TryRecv
    <2>5. CASE UNCHANGED sending
      BY <2>5
    <2> QED
      BY <2>1, <2>2, <2>3, <2>4, <2>5
      DEF Next, Control, Process, add_remote_pending, del_remote_pending,
          free_sink, free_orphan_sink, process_begin, dispatch_all,
          chk_pendings, try_recv_end, erase_recved, client_datagram
  <1> QED
    BY <1>1, TypeCorrect, PTL DEF Spec, LeavesOnlyByRemoval
=============================================================================
