---------------------------- MODULE ViewerProofs ----------------------------
(***************************************************************************)
(* Viewer, for every value of its four timeouts.  What does not depend on  *)
(* them comes first (Base): enough for the contract RelaySession is built  *)
(* on, as long as no viewer is freed under its task.  Then, for a receive  *)
(* and a feed that are shorter than the wait of viewer_close, as they are  *)
(* in the code, whatever a keepalive may take (Timely).                    *)
(***************************************************************************)
EXTENDS Viewer, TLAPS

USE DEF Failures, Bits, Starting, Closing, Phases, RxBlocking, RxInstant,
        RxPlaces, RxRuns

\* The initial state satisfies the inductive invariant.
LEMMA InitIInv == Init => Base /\ Timely
PROOF
  <1> SUFFICES ASSUME Init PROVE Base /\ Timely
    OBVIOUS
  <1> USE DEF Init
  <1>1. TypeOK
    BY DEF TypeOK
  <1>2. CallsAreBounded
    BY TimeoutsAreTicks DEF CallsAreBounded
  <1>3. OwnedByPhase /\ RxIsKnown /\ EndHasReason /\ Timely
    BY DEF OwnedByPhase, RxIsKnown, EndHasReason, Timely
  <1> QED
    BY <1>1, <1>2, <1>3 DEF Base

(* relay_task: viewer_start, the session loop and viewer_close.            *)
LEMMA OwnerStepBase ==
  ASSUME Base, RelayTask
  PROVE  Base'
PROOF
  <1> USE TimeoutsAreTicks DEF Base, TypeOK, CallsAreBounded, OwnedByPhase,
          RxIsKnown, EndHasReason, rxVars, ownerVars
  <1>1. CASE ViewerStart
    BY <1>1 DEF ViewerStart
  <1>2. CASE StartRtspOk
    BY <1>2 DEF StartRtspOk, GiveFrame
  <1>3. CASE StartRtspFails
    BY <1>3 DEF StartRtspFails
  <1>4. CASE StartPeerOk
    BY <1>4 DEF StartPeerOk
  <1>5. CASE StartPeerFails
    BY <1>5 DEF StartPeerFails
  <1>6. CASE StartRxOk
    BY <1>6 DEF StartRxOk
  <1>7. CASE StartRxFails
    BY <1>7 DEF StartRxFails
  <1>8. CASE PeerFails
    BY <1>8 DEF PeerFails
  <1>9. CASE CloseOnFailure
    BY <1>9 DEF CloseOnFailure
  <1>10. CASE CloseByOwner
    BY <1>10 DEF CloseByOwner
  <1>11. CASE CloseAsksRxToStop
    BY <1>11 DEF CloseAsksRxToStop
  <1>12. CASE CloseWithoutRx
    BY <1>12 DEF CloseWithoutRx
  <1>13. CASE CloseWaitEnds
    BY <1>13 DEF CloseWaitEnds
  <1>14. CASE ClosePeer
    BY <1>14 DEF ClosePeer
  <1>15. CASE CloseRtsp
    BY <1>15 DEF CloseRtsp
  <1>16. CASE FreeViewer
    BY <1>16 DEF FreeViewer
  <1> QED
    BY <1>1, <1>2, <1>3, <1>4, <1>5, <1>6, <1>7, <1>8, <1>9, <1>10, <1>11,
       <1>12, <1>13, <1>14, <1>15, <1>16 DEF RelayTask, StartStep, CloseStep

\* rtsp_rx_task.
LEMMA RxStepBase ==
  ASSUME Base, RxTask
  PROVE  Base'
PROOF
  <1> USE TimeoutsAreTicks DEF Base, TypeOK, CallsAreBounded, OwnedByPhase,
          RxIsKnown, EndHasReason, rxVars, ownerVars, RxGoes, GiveFrame
  <1>1. CASE RxBuffered
    BY <1>1 DEF RxBuffered
  <1>2. CASE RxContinues
    BY <1>2 DEF RxContinues
  <1>3. CASE RxStops
    BY <1>3 DEF RxStops
  <1>4. CASE RxReceives
    BY <1>4 DEF RxReceives
  <1>5. CASE RxQuiet
    BY <1>5 DEF RxQuiet
  <1>6. CASE RxLosesCamera
    BY <1>6 DEF RxLosesCamera
  <1>7. CASE RxFeeds
    BY <1>7 DEF RxFeeds
  <1>8. CASE RxSendsKeepalive
    BY <1>8 DEF RxSendsKeepalive
  <1>9. CASE RxSkipsKeepalive
    BY <1>9 DEF RxSkipsKeepalive
  <1>10. CASE RxKeepaliveSent
    BY <1>10 DEF RxKeepaliveSent
  <1>11. CASE RxExits
    BY <1>11 DEF RxExits
  <1> QED
    BY <1>1, <1>2, <1>3, <1>4, <1>5, <1>6, <1>7, <1>8, <1>9, <1>10, <1>11 DEF RxTask

\* A step preserves it whatever the timeouts are.
LEMMA NextBase ==
  ASSUME Base, [Next]_vars
  PROVE  Base'
PROOF
  <1> USE TimeoutsAreTicks DEF Base, TypeOK, CallsAreBounded, OwnedByPhase,
          RxIsKnown, EndHasReason
  <1>1. CASE Tick
    BY <1>1 DEF Tick, OneLess
  <1>2. CASE UNCHANGED vars
    BY <1>2 DEF vars, ownerVars, rxVars
  <1> QED
    BY <1>1, <1>2, OwnerStepBase, RxStepBase DEF Next

\* It holds of every behaviour.
LEMMA AlwaysBase == Spec => []Base
PROOF
  <1>1. Base /\ [Next]_vars => Base'
    BY NextBase
  <1> QED
    BY <1>1, InitIInv, PTL DEF Spec

(* Whatever the timeouts, the variables keep to their ranges.              *)
THEOREM ViewerTypeCorrect == Spec => []TypeOK
PROOF
  <1>1. Base => TypeOK
    BY DEF Base
  <1> QED
    BY <1>1, AlwaysBase, PTL

(* relay_task preserves Timely: the wait starts longer than what is left   *)
(* of the stream's part of the task's round, so the task is past that part *)
(* when the wait is given up.                                              *)
LEMMA OwnerStepTimely ==
  ASSUME Base, Timely, StreamIsShort, RelayTask
  PROVE  Timely'
PROOF
  <1> USE TimeoutsAreTicks DEF Base, TypeOK, Timely
  <1>1. CASE CloseAsksRxToStop
    <2>1. RxRuns => StreamBudget < CloseWait
      BY DEF StreamIsShort, StreamBudget, CallsAreBounded
    <2>2. RxRuns /\ WaitIsLongEnough => RxBudget < CloseWait
      BY DEF WaitIsLongEnough, RxBudget, CallsAreBounded
    <2>3. StreamBudget' = StreamBudget /\ RxBudget' = RxBudget
      BY <1>1 DEF CloseAsksRxToStop, RxBudget, StreamBudget, rxVars
    <2> QED
      BY <1>1, <2>1, <2>2, <2>3 DEF CloseAsksRxToStop, rxVars
  <1>2. CASE CloseWaitEnds
    <2>1. RxRuns => waitLeft = 0
      BY <1>2 DEF CloseWaitEnds, RxIsKnown
    <2>2. RxRuns => ~WaitIsLongEnough
      BY <1>2, <2>1 DEF CloseWaitEnds, RxBudget
    <2>3. RxRuns => rx \in {"send", "test", "exit"}
      BY <1>2, <2>1 DEF CloseWaitEnds, StreamBudget
    <2> QED
      BY <1>2, <2>2, <2>3 DEF CloseWaitEnds, rxVars
  <1>3. CASE ViewerStart
    BY <1>3 DEF ViewerStart, OwnedByPhase, rxVars
  <1>4. CASE StartRtspOk \/ StartRtspFails \/ StartPeerOk \/ StartPeerFails
             \/ StartRxOk \/ StartRxFails
    BY <1>4 DEF StartRtspOk, StartRtspFails, StartPeerOk, StartPeerFails,
       StartRxOk, StartRxFails, OwnedByPhase, rxVars
  <1>5. CASE PeerFails \/ CloseOnFailure \/ CloseByOwner
    BY <1>5 DEF PeerFails, CloseOnFailure, CloseByOwner, OwnedByPhase, ownerVars, rxVars
  <1>6. CASE CloseWithoutRx \/ ClosePeer \/ CloseRtsp \/ FreeViewer
    BY <1>6 DEF CloseWithoutRx, ClosePeer, CloseRtsp, FreeViewer, rxVars
  <1> QED
    BY <1>1, <1>2, <1>3, <1>4, <1>5, <1>6 DEF RelayTask, StartStep, CloseStep

(* rtsp_rx_task preserves it: no step of it makes what is left of its      *)
(* round longer once the stop flag is up.                                  *)
LEMMA RxStepTimely ==
  ASSUME Base, Timely, StreamIsShort, RxTask
  PROVE  Timely'
PROOF
  <1> USE TimeoutsAreTicks DEF Base, TypeOK, CallsAreBounded, OwnedByPhase,
          RxIsKnown, EndHasReason, Timely, ownerVars, RxGoes, RxBudget, StreamBudget
  <1>1. CASE RxBuffered
    BY <1>1 DEF RxBuffered
  <1>2. CASE RxContinues
    BY <1>2 DEF RxContinues
  <1>3. CASE RxStops
    BY <1>3 DEF RxStops
  <1>4. CASE RxReceives
    BY <1>4 DEF RxReceives
  <1>5. CASE RxQuiet
    BY <1>5 DEF RxQuiet
  <1>6. CASE RxLosesCamera
    BY <1>6 DEF RxLosesCamera
  <1>7. CASE RxFeeds
    BY <1>7 DEF RxFeeds
  <1>8. CASE RxSendsKeepalive
    BY <1>8 DEF RxSendsKeepalive
  <1>9. CASE RxSkipsKeepalive
    BY <1>9 DEF RxSkipsKeepalive
  <1>10. CASE RxKeepaliveSent
    BY <1>10 DEF RxKeepaliveSent
  <1>11. CASE RxExits
    BY <1>11 DEF RxExits
  <1> QED
    BY <1>1, <1>2, <1>3, <1>4, <1>5, <1>6, <1>7, <1>8, <1>9, <1>10, <1>11 DEF RxTask

(* A tick preserves it: it shortens the task's call and the wait alike.    *)
LEMMA TickTimely ==
  ASSUME Base, Timely, Tick
  PROVE  Timely'
PROOF
  <1> USE TimeoutsAreTicks DEF Base, TypeOK, Tick, OneLess, Timely
  <1>1. CASE phase = "wait" /\ RxRuns
    <2>1. rx \in RxBlocking /\ rxLeft' = rxLeft - 1 /\ waitLeft' = waitLeft - 1
      BY <1>1
    <2>2. RxBudget' = RxBudget - 1
      BY <1>1, <2>1 DEF RxBudget
    <2>3. rx # "send" => StreamBudget' = StreamBudget - 1
      BY <1>1, <2>1 DEF StreamBudget
    <2>4. RxBudget \in Nat /\ StreamBudget \in Nat
      BY <1>1 DEF RxBudget, StreamBudget
    <2> QED
      BY <1>1, <2>1, <2>2, <2>3, <2>4
  <1>2. CASE ~(phase = "wait" /\ RxRuns)
    BY <1>2
  <1> QED
    BY <1>1, <1>2

\* A step preserves both parts when a receive and its feed are short.
LEMMA NextIInv ==
  ASSUME Base /\ Timely, StreamIsShort, [Next]_vars
  PROVE  (Base /\ Timely)'
PROOF
  <1>1. CASE UNCHANGED vars
    BY <1>1, NextBase DEF vars, ownerVars, rxVars, Timely, RxBudget, StreamBudget
  <1> QED
    BY <1>1, NextBase, OwnerStepTimely, RxStepTimely, TickTimely DEF Next

(* With a receive and a feed shorter than the wait, as relay.c:337-339 has *)
(* it, whatever rtsp_rx_task uses is there as long as it runs, but for one *)
(* way out: a keepalive too slow for the wait, at whose end the task finds *)
(* the stop flag.  It never receives from a client or feeds a peer that    *)
(* viewer_close has closed.                                                *)
THEOREM ReceiverIsSafe ==
  ASSUME StreamIsShort
  PROVE  Spec => [](RxOwnsViewer \/ /\ ~WaitIsLongEnough
                                    /\ should_stop
                                    /\ rx \in {"send", "test", "exit"})
PROOF
  <1> DEFINE Late == ~WaitIsLongEnough /\ should_stop /\ rx \in {"send", "test", "exit"}
  <1>1. Base /\ Timely => RxOwnsViewer \/ Late
    BY DEF Base, Timely, OwnedByPhase, RxIsKnown, RxOwnsViewer
  <1>2. (Base /\ Timely) /\ [Next]_vars => (Base /\ Timely)'
    BY NextIInv
  <1> QED
    BY <1>1, <1>2, InitIInv, PTL DEF Spec

(* Whatever the timeouts, a viewer that is not freed under its task keeps  *)
(* the contract its owner relies on: every step of its two tasks is a step *)
(* of the contract or invisible to it.                                     *)
THEOREM ViewerImplementsContract ==
  Spec /\ [](phase # "undefined") => KeepsContract
PROOF
  <1>1. Init => Contract!ViewerInit
    BY DEF Init, Contract!ViewerInit, VStateOf
  <1>2. Base /\ (phase # "undefined") /\ (phase # "undefined")' /\ [Next]_vars
          => [Contract!ViewerNext]_(Contract!viewerVars)
    <2> SUFFICES ASSUME Base, phase # "undefined", phase' # "undefined", [Next]_vars
                 PROVE  Contract!ViewerNext \/ UNCHANGED Contract!viewerVars
      BY DEF Contract!viewerVars
    <2> USE DEF Base, TypeOK, OwnedByPhase, RxIsKnown, EndHasReason, VStateOf, Contract!viewerVars,
            ownerVars, rxVars
    <2>1. CASE ViewerStart
      BY <2>1 DEF ViewerStart, Contract!ViewerNext, Contract!BeginStart
    <2>2. CASE StartRtspOk
      BY <2>2 DEF StartRtspOk
    <2>3. CASE StartRtspFails \/ StartPeerFails \/ StartRxFails
      BY <2>3 DEF StartRtspFails, StartPeerFails, StartRxFails,
         Contract!ViewerNext, Contract!StartFails
    <2>4. CASE StartPeerOk \/ PeerFails
      BY <2>4 DEF StartPeerOk, PeerFails, Contract!ViewerNext, Contract!ViewerFails
    <2>5. CASE StartRxOk
      BY <2>5 DEF StartRxOk, Contract!ViewerNext, Contract!StartSucceeds
    <2>6. CASE CloseOnFailure \/ CloseByOwner
      BY <2>6 DEF CloseOnFailure, CloseByOwner, Contract!ViewerNext, Contract!BeginClose
    <2>7. CASE CloseAsksRxToStop \/ CloseWithoutRx \/ CloseWaitEnds \/ CloseRtsp
      BY <2>7 DEF CloseAsksRxToStop, CloseWithoutRx, CloseWaitEnds, CloseRtsp
    <2>8. CASE ClosePeer
      BY <2>8 DEF ClosePeer, Contract!ViewerNext, Contract!ViewerFails
    <2>9. CASE FreeViewer
      BY <2>9 DEF FreeViewer, Contract!ViewerNext, Contract!EndClose
    <2>10. CASE RxLosesCamera
      BY <2>10 DEF RxLosesCamera, RxGoes, Contract!ViewerNext, Contract!ViewerFails
    <2>11. CASE RxExits
      BY <2>11 DEF RxExits, RxGoes, Contract!ViewerNext, Contract!ReceiverEnds
    <2>12. CASE RxBuffered \/ RxContinues \/ RxStops \/ RxReceives \/ RxQuiet \/ RxFeeds
                \/ RxSendsKeepalive \/ RxSkipsKeepalive \/ RxKeepaliveSent
      BY <2>12 DEF RxGoes, RxBuffered, RxContinues, RxStops, RxReceives, RxQuiet, RxFeeds,
         RxSendsKeepalive, RxSkipsKeepalive, RxKeepaliveSent
    <2>13. CASE Tick \/ UNCHANGED vars
      BY <2>13 DEF Tick, vars
    <2> QED
      BY <2>1, <2>2, <2>3, <2>4, <2>5, <2>6, <2>7, <2>8, <2>9, <2>10, <2>11, <2>12, <2>13
      DEF Next, RelayTask, StartStep, CloseStep, RxTask
  <1> QED
    BY <1>1, <1>2, AlwaysBase, PTL DEF Spec, KeepsContract, Contract!ViewerSpec
=============================================================================
