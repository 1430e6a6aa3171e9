----------------------------- MODULE RelayProofs -----------------------------
(***************************************************************************)
(* RelaySession, for every queue length, backoff range and number of       *)
(* faults: type correctness, the order in which a session's parts are      *)
(* closed, a viewer only for an admin who is there, the pacing of retries, *)
(* and that nothing the event task says is forgotten.  The session keeps   *)
(* to ViewerContract, which ViewerProofs shows Viewer to implement.        *)
(***************************************************************************)
EXTENDS RelaySession, TLAPS

USE DEF VStates, Pcs, BetweenSessions, InLoop

\* The doubled backoff stays in its range and never shrinks.
LEMMA DoubledInRange ==
  ASSUME NEW ms \in MinBackoff..MaxBackoff
  PROVE  Doubled(ms) \in MinBackoff..MaxBackoff /\ Doubled(ms) >= ms
  BY RelayAssumption DEF Doubled

\* The values the ranges start with.
LEMMA MinInRange == MinBackoff \in MinBackoff..MaxBackoff
  BY RelayAssumption

LEMMA BoundsInRange == MaxFaults \in 0..MaxFaults /\ MaxMoves \in 0..MaxMoves
  BY RelayAssumption

\* What is left of a bound stays in its range.
LEMMA FaultInRange ==
  ASSUME OutsideTypes, Fault \/ Move
  PROVE  faults' \in 0..MaxFaults /\ moves' \in 0..MaxMoves
  BY RelayAssumption DEF OutsideTypes, Fault, Move

\* A queue nobody touches, or a new one, is a queue.
LEMMA SameQueue ==
  ASSUME QueueOK, q' = q \/ q' = <<>>
  PROVE  QueueOK'
PROOF
  <1>1. <<>> \in Seq(Msgs) /\ Len(<<>>) = 0
    OBVIOUS
  <1>2. CASE q' = q
    BY <1>2 DEF QueueOK
  <1>3. CASE q' = <<>>
    BY <1>1, <1>3, RelayAssumption DEF QueueOK
  <1> QED
    BY <1>2, <1>3

\* A queue that a message is put on, or dropped before, stays a queue.
LEMMA EnqueueKeepsQueue ==
  ASSUME QueueOK, NEW m \in Msgs, Enqueue(m)
  PROVE  QueueOK'
PROOF
  <1>1. CASE Len(q) < QueueCap
    <2>1. q' = Append(q, m)
      BY <1>1 DEF Enqueue
    <2>2. Append(q, m) \in Seq(Msgs) /\ Len(Append(q, m)) = Len(q) + 1
      BY DEF QueueOK
    <2>3. Len(q) \in Nat
      BY DEF QueueOK
    <2> QED
      BY <1>1, <2>1, <2>2, <2>3, RelayAssumption DEF QueueOK
  <1>2. CASE ~(Len(q) < QueueCap)
    BY <1>2 DEF Enqueue, QueueOK
  <1> QED
    BY <1>1, <1>2

\* What else putting a message on the queue changes.
LEMMA EnqueueTouches ==
  ASSUME NEW m, Enqueue(m), dropped \in BOOLEAN
  PROVE  dropped' \in BOOLEAN /\ has_q' = has_q
  BY DEF Enqueue

\* Taking its head off a queue leaves a queue.
LEMMA TailIsQueue ==
  ASSUME QueueOK, q # <<>>, q' = Tail(q)
  PROVE  QueueOK'
  BY RelayAssumption DEF QueueOK

\* Marking answers as stale leaves a queue.
LEMMA StaleIsQueue ==
  ASSUME QueueOK, AnswersGoStale
  PROVE  QueueOK'
PROOF
  <1>1. \A m \in Msgs : Outdate(m) \in Msgs
    BY DEF Outdate, Msgs
  <1>2. q' = [i \in 1..Len(q) |-> Outdate(q[i])]
    BY DEF AnswersGoStale, QueueOK
  <1>3. q' \in Seq(Msgs) /\ Len(q') = Len(q)
    BY <1>1, <1>2 DEF QueueOK
  <1> QED
    BY <1>3 DEF QueueOK

\* No session is open at the start.
LEMMA InitIInv == Init => IInv
PROOF
  <1> SUFFICES ASSUME Init PROVE IInv
    OBVIOUS
  <1> USE DEF Init, ViewerInit
  <1>1. ViewerTypes /\ RelayTypes
    BY MinInRange DEF ViewerTypes, RelayTypes
  <1>2. SessionTypes
    BY MinInRange DEF SessionTypes
  <1>3. OutsideTypes
    BY BoundsInRange DEF OutsideTypes
  <1>4. QueueOK
    BY RelayAssumption DEF QueueOK
  <1>5. PlaceOfSession /\ PlaceOfViewer /\ AdminOfViewer /\ CoolingIsArmed
    BY DEF PlaceOfSession, PlaceOfViewer, AdminOfViewer, CoolingIsArmed
  <1> QED
    BY <1>1, <1>2, <1>3, <1>4, <1>5 DEF IInv, TypeOK

\* relay_task outside of a session preserves the inductive invariant.
LEMMA OutsideStepIInv ==
  ASSUME IInv, OutsideSession
  PROVE  IInv'
PROOF
  <1> USE DEF IInv, TypeOK, ViewerTypes, RelayTypes, SessionTypes, OutsideTypes, PlaceOfSession,
          PlaceOfViewer, AdminOfViewer, CoolingIsArmed, relayVars, sessionVars, queueVars,
          outsideVars, boundVars, viewerVars, retryVars, elsewhere
  <1>1. CASE OuterLoop
    BY <1>1, SameQueue DEF OuterLoop, Passes, Goto
  <1>2. CASE OpenSession
    <2> USE <1>2 DEF OpenSession, Goto
    <2>1. ViewerTypes' /\ RelayTypes'
      BY MinInRange
    <2>2. SessionTypes'
      BY MinInRange
    <2>3. OutsideTypes'
      OBVIOUS
    <2>4. QueueOK'
      BY SameQueue
    <2>5. PlaceOfSession' /\ PlaceOfViewer' /\ AdminOfViewer' /\ CoolingIsArmed'
      OBVIOUS
    <2> QED
      BY <2>1, <2>2, <2>3, <2>4, <2>5
  <1>3. CASE OpenFails
    <2> USE <1>3 DEF OpenFails, Goto
    <2>1. ViewerTypes' /\ RelayTypes'
      OBVIOUS
    <2>2. SessionTypes'
      OBVIOUS
    <2>3. OutsideTypes'
      BY FaultInRange
    <2>4. QueueOK'
      BY SameQueue
    <2>5. PlaceOfSession' /\ PlaceOfViewer' /\ AdminOfViewer' /\ CoolingIsArmed'
      OBVIOUS
    <2> QED
      BY <2>1, <2>2, <2>3, <2>4, <2>5
  <1>4. CASE SessionReturns
    BY <1>4, MinInRange, SameQueue DEF SessionReturns
  <1>5. CASE DelayEnds
    BY <1>5, DoubledInRange, SameQueue DEF DelayEnds
  <1> QED
    BY <1>1, <1>2, <1>3, <1>4, <1>5
    DEF OutsideSession

\* The end of a session preserves the inductive invariant.
LEMMA EndStepIInv ==
  ASSUME IInv, CloseSignaling \/ DeleteQueue
  PROVE  IInv'
PROOF
  <1> USE DEF IInv, TypeOK, ViewerTypes, RelayTypes, SessionTypes, OutsideTypes, PlaceOfSession,
          PlaceOfViewer, AdminOfViewer, CoolingIsArmed, relayVars, sessionVars, queueVars,
          outsideVars, boundVars, viewerVars, retryVars, elsewhere
  <1>1. CASE CloseSignaling
    <2> USE <1>1 DEF CloseSignaling, Goto
    <2>1. ViewerTypes' /\ RelayTypes'
      OBVIOUS
    <2>2. SessionTypes'
      OBVIOUS
    <2>3. OutsideTypes'
      OBVIOUS
    <2>4. QueueOK'
      BY SameQueue
    <2>5. PlaceOfSession' /\ PlaceOfViewer' /\ AdminOfViewer' /\ CoolingIsArmed'
      OBVIOUS
    <2> QED
      BY <2>1, <2>2, <2>3, <2>4, <2>5
  <1>2. CASE DeleteQueue
    <2> USE <1>2 DEF DeleteQueue, Goto
    <2>1. ViewerTypes' /\ RelayTypes'
      OBVIOUS
    <2>2. SessionTypes'
      OBVIOUS
    <2>3. OutsideTypes'
      OBVIOUS
    <2>4. QueueOK'
      BY SameQueue
    <2>5. PlaceOfSession' /\ PlaceOfViewer' /\ AdminOfViewer' /\ CoolingIsArmed'
      OBVIOUS
    <2> QED
      BY <2>1, <2>2, <2>3, <2>4, <2>5
  <1> QED
    BY <1>1, <1>2

\* The switch on the queue's messages preserves the inductive invariant.
LEMMA HandleStepIInv ==
  ASSUME IInv, Handle
  PROVE  IInv'
PROOF
  <1> USE DEF IInv, TypeOK, ViewerTypes, RelayTypes, SessionTypes, OutsideTypes, PlaceOfSession,
          PlaceOfViewer, AdminOfViewer, CoolingIsArmed, relayVars, sessionVars, queueVars,
          outsideVars, boundVars, viewerVars, retryVars, elsewhere
  <1>1. CASE ReceiveNothing
    BY <1>1, SameQueue DEF ReceiveNothing, Passes, Goto
  <1>2. CASE HandleConnected
    BY <1>2, TailIsQueue DEF HandleConnected, Goto, Receive
  <1>3. CASE HandleDisconnected
    BY <1>3, TailIsQueue DEF HandleDisconnected, EndSession, CloseViewerThen, Goto,
       Call, BeginClose, Receive
  <1>4. CASE HandleJoined
    <2> USE <1>4 DEF HandleJoined, Goto, Call, Receive, BeginStart
    <2>1. ViewerTypes' /\ RelayTypes'
      BY MinInRange
    <2>2. SessionTypes'
      BY MinInRange
    <2>3. OutsideTypes'
      OBVIOUS
    <2>4. QueueOK'
      BY TailIsQueue
    <2>5. PlaceOfSession' /\ PlaceOfViewer' /\ AdminOfViewer' /\ CoolingIsArmed'
      OBVIOUS
    <2> QED
      BY <2>1, <2>2, <2>3, <2>4, <2>5
  <1>5. CASE HandleLeft
    <2> USE <1>5 DEF HandleLeft, CloseViewerThen, Goto, Call, BeginClose, Receive
    <2>1. ViewerTypes' /\ RelayTypes'
      OBVIOUS
    <2>2. SessionTypes'
      OBVIOUS
    <2>3. OutsideTypes'
      OBVIOUS
    <2>4. QueueOK'
      BY TailIsQueue
    <2>5. PlaceOfSession' /\ PlaceOfViewer' /\ AdminOfViewer' /\ CoolingIsArmed'
      OBVIOUS
    <2> QED
      BY <2>1, <2>2, <2>3, <2>4, <2>5
  <1>6. CASE HandleAnswer
    <2> USE <1>6 DEF HandleAnswer, Goto, Receive, ViewerFails
    <2>1. ViewerTypes' /\ RelayTypes'
      OBVIOUS
    <2>2. SessionTypes'
      OBVIOUS
    <2>3. OutsideTypes'
      OBVIOUS
    <2>4. QueueOK'
      BY TailIsQueue
    <2>5. PlaceOfSession' /\ PlaceOfViewer' /\ AdminOfViewer' /\ CoolingIsArmed'
      OBVIOUS
    <2> QED
      BY <2>1, <2>2, <2>3, <2>4, <2>5
  <1>7. CASE HandleServerError
    BY <1>7, TailIsQueue DEF HandleServerError, Goto, Receive
  <1> QED
    BY <1>1, <1>2, <1>3, <1>4, <1>5, <1>6, <1>7
    DEF Handle

\* The rest of the session loop preserves the inductive invariant.
LEMMA IterationStepIInv ==
  ASSUME IInv, Iteration
  PROVE  IInv'
PROOF
  <1> USE DEF IInv, TypeOK, ViewerTypes, RelayTypes, SessionTypes, OutsideTypes, PlaceOfSession,
          PlaceOfViewer, AdminOfViewer, CoolingIsArmed, relayVars, sessionVars, queueVars,
          outsideVars, boundVars, viewerVars, retryVars, elsewhere
  <1>1. CASE PauseEndsSession
    <2> USE <1>1 DEF PauseEndsSession, EndSession, CloseViewerThen, Goto, Call,
           BeginClose
    <2>1. ViewerTypes' /\ RelayTypes'
      OBVIOUS
    <2>2. SessionTypes'
      OBVIOUS
    <2>3. OutsideTypes'
      OBVIOUS
    <2>4. QueueOK'
      BY SameQueue
    <2>5. PlaceOfSession' /\ PlaceOfViewer' /\ AdminOfViewer' /\ CoolingIsArmed'
      OBVIOUS
    <2> QED
      BY <2>1, <2>2, <2>3, <2>4, <2>5
  <1>2. CASE LoopHead
    BY <1>2, SameQueue DEF LoopHead, Passes, Goto
  <1>3. CASE ConnectTimesOut
    BY <1>3, SameQueue DEF ConnectTimesOut, EndSession, CloseViewerThen, Goto, Call,
       BeginClose
  <1>4. CASE ConnectInTime
    BY <1>4, SameQueue DEF ConnectInTime, Passes, Goto
  <1>5. CASE PumpSendsOffer
    <2> USE <1>5 DEF PumpSendsOffer, Goto, ViewerFails
    <2>1. ViewerTypes' /\ RelayTypes'
      OBVIOUS
    <2>2. SessionTypes'
      OBVIOUS
    <2>3. OutsideTypes'
      OBVIOUS
    <2>4. QueueOK'
      BY SameQueue
    <2>5. PlaceOfSession' /\ PlaceOfViewer' /\ AdminOfViewer' /\ CoolingIsArmed'
      OBVIOUS
    <2> QED
      BY <2>1, <2>2, <2>3, <2>4, <2>5
  <1>6. CASE PumpQuiet
    BY <1>6, SameQueue DEF PumpQuiet, Passes, Goto
  <1>7. CASE ViewerIsFine
    BY <1>7, SameQueue DEF ViewerIsFine, Passes, Goto
  <1>8. CASE ViewerHasFailed
    BY <1>8, SameQueue DEF ViewerHasFailed, CloseViewerThen, Goto, Call, BeginClose
  <1>9. CASE RetryStartsViewer
    <2> USE <1>9 DEF RetryStartsViewer, Call, BeginStart
    <2>1. ViewerTypes' /\ RelayTypes'
      OBVIOUS
    <2>2. SessionTypes'
      OBVIOUS
    <2>3. OutsideTypes'
      OBVIOUS
    <2>4. QueueOK'
      BY SameQueue
    <2>5. PlaceOfSession' /\ PlaceOfViewer' /\ AdminOfViewer' /\ CoolingIsArmed'
      OBVIOUS
    <2> QED
      BY <2>1, <2>2, <2>3, <2>4, <2>5
  <1>10. CASE NothingToRetry
    BY <1>10, SameQueue DEF NothingToRetry, Passes, Goto
  <1>11. CASE TokenEndsSession
    BY <1>11, SameQueue DEF TokenEndsSession, EndSession, CloseViewerThen, Goto, Call,
       BeginClose
  <1>12. CASE TokenIsFine
    BY <1>12, SameQueue DEF TokenIsFine, Passes, Goto
  <1> QED
    BY HandleStepIInv, <1>1, <1>2, <1>3, <1>4, <1>5, <1>6, <1>7, <1>8, <1>9, <1>10,
       <1>11, <1>12
    DEF Iteration

\* The return of viewer_start and viewer_close preserves the inductive invariant.
LEMMA CallStepIInv ==
  ASSUME IInv, ViewerCalls
  PROVE  IInv'
PROOF
  <1> USE DEF IInv, TypeOK, ViewerTypes, RelayTypes, SessionTypes, OutsideTypes, PlaceOfSession,
          PlaceOfViewer, AdminOfViewer, CoolingIsArmed, relayVars, sessionVars, queueVars,
          outsideVars, boundVars, viewerVars, retryVars, elsewhere
  <1>1. CASE StartGivesViewer
    <2> USE <1>1 DEF StartGivesViewer, Goto, StartSucceeds
    <2>1. ViewerTypes' /\ RelayTypes'
      OBVIOUS
    <2>2. SessionTypes'
      OBVIOUS
    <2>3. OutsideTypes'
      OBVIOUS
    <2>4. QueueOK'
      BY SameQueue
    <2>5. PlaceOfSession' /\ PlaceOfViewer' /\ AdminOfViewer' /\ CoolingIsArmed'
      OBVIOUS
    <2> QED
      BY <2>1, <2>2, <2>3, <2>4, <2>5
  <1>2. CASE StartGivesUp
    BY <1>2, FaultInRange, SameQueue DEF StartGivesUp, StartFails
  <1>3. CASE StartGivesNothing
    <2> USE <1>3 DEF StartGivesNothing, Goto, ArmRetry, EndClose
    <2>1. ViewerTypes' /\ RelayTypes'
      BY DoubledInRange
    <2>2. SessionTypes'
      BY DoubledInRange
    <2>3. OutsideTypes'
      OBVIOUS
    <2>4. QueueOK'
      BY SameQueue
    <2>5. PlaceOfSession' /\ PlaceOfViewer' /\ AdminOfViewer' /\ CoolingIsArmed'
      OBVIOUS
    <2> QED
      BY <2>1, <2>2, <2>3, <2>4, <2>5
  <1>4. CASE CloseReturns
    <2> USE <1>4 DEF CloseReturns, Goto, ArmRetry, AnswersGoStale, EndClose
    <2>1. ViewerTypes' /\ RelayTypes'
      BY DoubledInRange
    <2>2. SessionTypes'
      BY DoubledInRange
    <2>3. OutsideTypes'
      OBVIOUS
    <2>4. QueueOK'
      BY StaleIsQueue
    <2>5. PlaceOfSession' /\ PlaceOfViewer' /\ AdminOfViewer' /\ CoolingIsArmed'
      OBVIOUS
    <2> QED
      BY <2>1, <2>2, <2>3, <2>4, <2>5
  <1> QED
    BY <1>1, <1>2, <1>3, <1>4
    DEF ViewerCalls

\* The event task preserves the inductive invariant.
LEMMA EventTaskStepIInv ==
  ASSUME IInv, EventTask
  PROVE  IInv'
PROOF
  <1> USE DEF IInv, TypeOK, ViewerTypes, RelayTypes, SessionTypes, OutsideTypes, PlaceOfSession,
          PlaceOfViewer, AdminOfViewer, CoolingIsArmed, relayVars, sessionVars, queueVars,
          outsideVars, boundVars, viewerVars, retryVars, elsewhere
  <1>1. CASE WsConnects
    BY <1>1, EnqueueKeepsQueue, EnqueueTouches DEF WsConnects, Msgs
  <1>2. CASE WsBreaks
    <2> USE <1>2 DEF WsBreaks
    <2>1. ViewerTypes' /\ RelayTypes'
      OBVIOUS
    <2>2. SessionTypes'
      BY EnqueueTouches
    <2>3. OutsideTypes'
      BY FaultInRange, EnqueueTouches
    <2>4. QueueOK'
      BY EnqueueKeepsQueue DEF Msgs
    <2>5. PlaceOfSession' /\ PlaceOfViewer' /\ AdminOfViewer' /\ CoolingIsArmed'
      BY EnqueueTouches
    <2> QED
      BY <2>1, <2>2, <2>3, <2>4, <2>5
  <1>3. CASE RoomGreets
    <2> USE <1>3 DEF RoomGreets
    <2>1. ViewerTypes' /\ RelayTypes'
      OBVIOUS
    <2>2. SessionTypes'
      BY EnqueueTouches
    <2>3. OutsideTypes'
      BY EnqueueTouches
    <2>4. QueueOK'
      BY EnqueueKeepsQueue DEF Msgs
    <2>5. PlaceOfSession' /\ PlaceOfViewer' /\ AdminOfViewer' /\ CoolingIsArmed'
      BY EnqueueTouches
    <2> QED
      BY <2>1, <2>2, <2>3, <2>4, <2>5
  <1>4. CASE AdminJoins
    BY <1>4, FaultInRange, EnqueueKeepsQueue, EnqueueTouches, SameQueue DEF
       AdminJoins, ToDevice, Msgs
  <1>5. CASE AdminLeaves
    <2> USE <1>5 DEF AdminLeaves, ToDevice
    <2>1. ViewerTypes' /\ RelayTypes'
      OBVIOUS
    <2>2. SessionTypes'
      BY EnqueueTouches
    <2>3. OutsideTypes'
      BY FaultInRange, EnqueueTouches
    <2>4. QueueOK'
      BY EnqueueKeepsQueue, SameQueue DEF Msgs
    <2>5. PlaceOfSession' /\ PlaceOfViewer' /\ AdminOfViewer' /\ CoolingIsArmed'
      BY EnqueueTouches
    <2> QED
      BY <2>1, <2>2, <2>3, <2>4, <2>5
  <1>6. CASE AdminAnswers
    BY <1>6, EnqueueKeepsQueue, EnqueueTouches DEF AdminAnswers, Msgs
  <1>7. CASE ServerReportsError
    BY <1>7, FaultInRange, EnqueueKeepsQueue, EnqueueTouches DEF ServerReportsError,
       Msgs
  <1> QED
    BY <1>1, <1>2, <1>3, <1>4, <1>5, <1>6, <1>7
    DEF EventTask

\* The viewer on its own, time, and the OTA worker preserves the inductive invariant.
LEMMA OtherStepIInv ==
  ASSUME IInv, ViewerBreaks \/ ReceiverStops \/ Time \/ relay_pause \/ relay_resume
  PROVE  IInv'
PROOF
  <1> USE DEF IInv, TypeOK, ViewerTypes, RelayTypes, SessionTypes, OutsideTypes, PlaceOfSession,
          PlaceOfViewer, AdminOfViewer, CoolingIsArmed, relayVars, sessionVars, queueVars,
          outsideVars, boundVars, viewerVars, retryVars, elsewhere
  <1>1. CASE ViewerBreaks
    BY <1>1, FaultInRange, SameQueue DEF ViewerBreaks, ViewerFails
  <1>2. CASE ReceiverStops
    <2> USE <1>2 DEF ReceiverStops, ReceiverEnds
    <2>1. ViewerTypes' /\ RelayTypes'
      OBVIOUS
    <2>2. SessionTypes'
      OBVIOUS
    <2>3. OutsideTypes'
      OBVIOUS
    <2>4. QueueOK'
      BY SameQueue
    <2>5. PlaceOfSession' /\ PlaceOfViewer' /\ AdminOfViewer' /\ CoolingIsArmed'
      OBVIOUS
    <2> QED
      BY <2>1, <2>2, <2>3, <2>4, <2>5
  <1>3. CASE ConnectDeadlinePasses
    BY <1>3, FaultInRange, SameQueue DEF ConnectDeadlinePasses
  <1>4. CASE TokenComesDue
    BY <1>4, FaultInRange, SameQueue DEF TokenComesDue
  <1>5. CASE RetryBackoffPasses
    BY <1>5, SameQueue DEF RetryBackoffPasses
  <1>6. CASE relay_pause
    BY <1>6, FaultInRange, SameQueue DEF relay_pause
  <1>7. CASE relay_resume
    <2> USE <1>7 DEF relay_resume
    <2>1. ViewerTypes' /\ RelayTypes'
      OBVIOUS
    <2>2. SessionTypes'
      OBVIOUS
    <2>3. OutsideTypes'
      OBVIOUS
    <2>4. QueueOK'
      BY SameQueue
    <2>5. PlaceOfSession' /\ PlaceOfViewer' /\ AdminOfViewer' /\ CoolingIsArmed'
      OBVIOUS
    <2> QED
      BY <2>1, <2>2, <2>3, <2>4, <2>5
  <1> QED
    BY <1>1, <1>2, <1>3, <1>4, <1>5, <1>6, <1>7
    DEF Time

\* Every step preserves the inductive invariant.
LEMMA NextIInv ==
  ASSUME IInv, [Next]_vars
  PROVE  IInv'
PROOF
  <1>1. CASE UNCHANGED vars
    <2> USE <1>1 DEF vars, elsewhere, relayVars, sessionVars, retryVars, queueVars, outsideVars,
            boundVars, viewerVars, IInv, TypeOK
    <2>1. ViewerTypes' /\ RelayTypes'
      BY DEF ViewerTypes, RelayTypes
    <2>2. SessionTypes'
      BY DEF SessionTypes
    <2>3. OutsideTypes'
      BY DEF OutsideTypes
    <2>4. QueueOK'
      BY SameQueue
    <2>5. PlaceOfSession' /\ PlaceOfViewer' /\ AdminOfViewer' /\ CoolingIsArmed'
      BY DEF PlaceOfSession, PlaceOfViewer, AdminOfViewer, CoolingIsArmed
    <2> QED
      BY <2>1, <2>2, <2>3, <2>4, <2>5
  <1>2. CASE RelayTask
    BY <1>2, OutsideStepIInv, EndStepIInv, IterationStepIInv, CallStepIInv DEF RelayTask
  <1> QED
    BY <1>1, <1>2, EventTaskStepIInv, OtherStepIInv DEF Next

\* It holds of every behaviour.
LEMMA AlwaysIInv == Spec => []IInv
PROOF
  <1>1. IInv /\ [Next]_vars => IInv'
    BY NextIInv
  <1> QED
    BY <1>1, InitIInv, PTL DEF Spec

-----------------------------------------------------------------------------
(* What the session is told *)

Joined == "PEER_JOINED_ADMIN"
Left   == "PEER_LEFT_ADMIN"

\* Nothing is said by a queue that was read.
LEMMA EmptyTells ==
  ASSUME NEW was
  PROVE  /\ \A m : ~Holds(<<>>, m)
         /\ was => Told(<<>>, was)
         /\ Told(<<>>, was) => was
  BY DEF Holds, Told

\* A message that is put on a queue has the last word.
LEMMA AppendTells ==
  ASSUME NEW s \in Seq(Msgs), NEW m \in Msgs, NEW was
  PROVE  /\ \A x : Holds(s, x) \/ x = m => Holds(Append(s, m), x)
         /\ Told(Append(s, m), was) <=> m = Joined \/ (m # Left /\ Told(s, was))
PROOF
  <1> DEFINE n == Len(s) + 1
             t == Append(s, m)
  <1>1. n \in Nat \ {0} /\ DOMAIN s = 1..(n - 1) /\ DOMAIN t = 1..n
    OBVIOUS
  <1>2. t[n] = m /\ \A i \in 1..(n - 1) : t[i] = s[i]
    OBVIOUS
  <1> HIDE DEF n, t
  <1>3. /\ n \in 1..n /\ \A i \in 1..n : i = n \/ i \in 1..(n - 1)
        /\ \A i \in 1..(n - 1) : i \in 1..n /\ i < n /\ ~(n < i)
    BY <1>1
  <1>4. ~(n < n)
    BY <1>1
  <1>5. \A x : Holds(t, x) <=> Holds(s, x) \/ x = m
    BY <1>1, <1>2, <1>3 DEF Holds
  <1>6. Told(t, was) <=> m = Joined \/ (m # Left /\ Told(s, was))
    <2>1. CASE m = Joined
      BY <1>1, <1>2, <1>3, <1>4, <2>1 DEF Told, Joined
    <2>2. CASE m = Left
      BY <1>1, <1>2, <1>3, <1>5, <2>2 DEF Told, Joined, Left
    <2>3. CASE m # Joined /\ m # Left
      BY <1>1, <1>2, <1>3, <1>5, <2>3 DEF Told, Joined, Left
    <2> QED
      BY <2>1, <2>2, <2>3 DEF Joined, Left
  <1> QED
    BY <1>5, <1>6 DEF t

\* Reading a message changes what is known as the queue said it would.
LEMMA TailTells ==
  ASSUME NEW s \in Seq(Msgs), s # <<>>, NEW was
  PROVE  /\ \A x : Holds(s, x) => Holds(Tail(s), x) \/ x = Head(s)
         /\ Told(s, was) <=> Told(Tail(s), Head(s) = Joined \/ (was /\ Head(s) # Left))
PROOF
  <1> DEFINE n == Len(s)
             t == Tail(s)
             m == Head(s)
  <1>1. n \in Nat \ {0} /\ DOMAIN s = 1..n /\ DOMAIN t = 1..(n - 1)
    OBVIOUS
  <1>2. s[1] = m /\ \A i \in 1..(n - 1) : t[i] = s[i + 1]
    OBVIOUS
  <1> HIDE DEF n, t, m
  <1>3. 1 \in 1..n /\ \A i \in 1..(n - 1) : i + 1 \in 1..n /\ 1 < i + 1
    BY <1>1
  <1>4. \A i \in 1..n : i = 1 \/ (i - 1 \in 1..(n - 1) /\ s[i] = t[i - 1])
    BY <1>1, <1>2
  <1>5. \A x : Holds(s, x) <=> Holds(t, x) \/ x = m
    BY <1>1, <1>2, <1>3, <1>4 DEF Holds
  <1>6. Told(s, was) => Told(t, m = Joined \/ (was /\ m # Left))
    <2> SUFFICES ASSUME Told(s, was) PROVE Told(t, m = Joined \/ (was /\ m # Left))
      OBVIOUS
    <2>1. CASE was /\ ~Holds(s, Left)
      BY <1>5, <2>1 DEF Told, Left
    <2>2. CASE ~(was /\ ~Holds(s, Left))
      <3>1. PICK i \in 1..n : s[i] = Joined /\ \A j \in 1..n : i < j => s[j] # Left
        BY <1>1, <2>2 DEF Told, Joined, Left
      <3>2. CASE i = 1
        <4>1. ~Holds(t, Left)
          BY <1>1, <1>2, <1>3, <3>1, <3>2 DEF Holds
        <4> QED
          BY <1>2, <3>1, <3>2, <4>1 DEF Told, Left
      <3>3. CASE i # 1
        <4>1. i - 1 \in 1..(n - 1) /\ t[i - 1] = Joined
          BY <1>4, <3>1, <3>3
        <4>2. \A j \in 1..(n - 1) : i - 1 < j => t[j] # Left
          BY <1>1, <1>2, <1>3, <3>1
        <4> QED
          BY <1>1, <4>1, <4>2 DEF Told, Joined, Left
      <3> QED
        BY <3>2, <3>3
    <2> QED
      BY <2>1, <2>2
  <1>7. Told(t, m = Joined \/ (was /\ m # Left)) => Told(s, was)
    <2> SUFFICES ASSUME Told(t, m = Joined \/ (was /\ m # Left)) PROVE Told(s, was)
      OBVIOUS
    <2>1. CASE \E i \in 1..(n - 1) : t[i] = Joined /\ \A j \in 1..(n - 1) : i < j => t[j] # Left
      <3>1. PICK i \in 1..(n - 1) : t[i] = Joined /\ \A j \in 1..(n - 1) : i < j => t[j] # Left
        BY <2>1
      <3>2. i + 1 \in 1..n /\ s[i + 1] = Joined
        BY <1>2, <1>3, <3>1
      <3>3. \A j \in 1..n : i + 1 < j => s[j] # Left
        BY <1>1, <1>4, <3>1
      <3> QED
        BY <1>1, <3>2, <3>3 DEF Told, Joined, Left
    <2>2. CASE (m = Joined \/ (was /\ m # Left)) /\ ~Holds(t, Left)
      <3>1. CASE m = Joined
        <4>1. \A j \in 1..n : 1 < j => s[j] # Left
          BY <1>1, <1>4, <2>2 DEF Holds
        <4> QED
          BY <1>1, <1>2, <3>1, <4>1 DEF Told, Joined, Left
      <3>2. CASE was /\ m # Left
        BY <1>5, <2>2, <3>2 DEF Told, Left
      <3> QED
        BY <2>2, <3>1, <3>2
    <2> QED
      BY <1>1, <2>1, <2>2 DEF Told, Joined, Left
  <1> QED
    BY <1>5, <1>6, <1>7 DEF t, m

\* Answers that have become stale say the same of everything else.
LEMMA StaleTells ==
  ASSUME NEW s \in Seq(Msgs), NEW was
  PROVE  LET t == [i \in DOMAIN s |-> Outdate(s[i])] IN
         /\ \A x \in {"CONNECTED", "DISCONNECTED"} : Holds(s, x) => Holds(t, x)
         /\ Told(t, was) <=> Told(s, was)
PROOF
  <1> DEFINE t == [i \in DOMAIN s |-> Outdate(s[i])]
  <1>1. DOMAIN t = DOMAIN s /\ \A i \in DOMAIN s : t[i] = Outdate(s[i])
    OBVIOUS
  <1>2. \A x \in {"CONNECTED", "DISCONNECTED", Joined, Left} : \A y : Outdate(y) = x <=> y = x
    BY DEF Outdate, Joined, Left
  <1> HIDE DEF t
  <1>3. \A x \in {"CONNECTED", "DISCONNECTED", Joined, Left} : Holds(t, x) <=> Holds(s, x)
    BY <1>1, <1>2 DEF Holds
  <1>4. Told(t, was) <=> Told(s, was)
    BY <1>1, <1>2, <1>3 DEF Told, Joined, Left
  <1> QED
    BY <1>3, <1>4 DEF t

TellInv == SessionIsTold /\ GreetingIsDue

\* All that TellInv is about.
tellVars == <<ws, q, dropped, signaling_up, admin_present, admin, greeting>>

\* A step that is not about them, or that ends the session.
LEMMA UntoldStep ==
  ASSUME TellInv, UNCHANGED tellVars, Listening' => Listening
  PROVE  TellInv'
  BY DEF TellInv, SessionIsTold, GreetingIsDue, tellVars, Told, Holds

LEMMA DeafStep ==
  ASSUME TellInv, ~Listening', greeting' => ws' = "up" /\ admin'
  PROVE  TellInv'
  BY DEF TellInv, SessionIsTold, GreetingIsDue

\* A message is put on the queue that says how things are now.
LEMMA ToldStep ==
  ASSUME IInv, TellInv, NEW m \in Msgs, Enqueue(m),
         UNCHANGED <<pc, after, signaling_up, admin_present>>,
         ws' \in {"up", "down"},
         greeting' => ws' = "up" /\ admin',
         ws' = "up" => ws = "up" \/ (ws = "connecting" /\ m = "CONNECTED"),
         ws' = "down" => m = "DISCONNECTED",
         ws' = "up" =>
           (admin' /\ ~greeting' <=>
              m = Joined \/ (m # Left /\ (ws = "up" /\ admin /\ ~greeting)))
  PROVE  TellInv'
PROOF
  <1>1. GreetingIsDue'
    BY DEF GreetingIsDue
  <1>2. SessionIsTold'
    <2> SUFFICES ASSUME Listening', ~dropped'
                 PROVE  /\ ws' = "up" => signaling_up' \/ Holds(q', "CONNECTED")
                        /\ ws' = "down" => Holds(q', "DISCONNECTED")
                        /\ ws' = "up" =>
                             (Told(q', admin_present') <=> admin' /\ ~greeting')
      BY DEF SessionIsTold
    <2>1. Listening
      BY DEF Listening
    <2>2. PICK s \in Seq(Msgs) : s = q
      BY DEF IInv, TypeOK, QueueOK
    <2>3. q' = Append(s, m) /\ ~dropped
      BY <2>2, RelayAssumption DEF Enqueue, IInv, TypeOK, OutsideTypes
    <2>4. /\ \A x : Holds(s, x) \/ x = m => Holds(q', x)
          /\ Told(q', admin_present) <=> m = Joined \/ (m # Left /\ Told(s, admin_present))
      BY <2>3, AppendTells
    <2>5. ws = "up" => /\ signaling_up \/ Holds(s, "CONNECTED")
                       /\ Told(s, admin_present) <=> admin /\ ~greeting
      BY <2>1, <2>2, <2>3 DEF TellInv, SessionIsTold
    <2>6. ws = "connecting" => ~Told(s, admin_present)
      BY <2>1, <2>2, EmptyTells DEF TellInv, GreetingIsDue
    <2>7. ws' = "up" => signaling_up' \/ Holds(q', "CONNECTED")
      BY <2>4, <2>5
    <2>8. ws' = "down" => Holds(q', "DISCONNECTED")
      BY <2>4
    <2>9. ws' = "up" => (Told(q', admin_present) <=> admin' /\ ~greeting')
      BY <2>4, <2>5, <2>6
    <2> QED
      BY <2>7, <2>8, <2>9
  <1> QED
    BY <1>1, <1>2 DEF TellInv

\* A message is read, and what it says is known from then on.
LEMMA HeardStep ==
  ASSUME IInv, TellInv, NEW m \in Msgs, Receive(m), m # "DISCONNECTED",
         signaling_up \/ m = "CONNECTED" => signaling_up',
         admin_present' = (m = Joined \/ (admin_present /\ m # Left))
  PROVE  TellInv'
PROOF
  <1>1. PICK s \in Seq(Msgs) : s = q
    BY DEF IInv, TypeOK, QueueOK
  <1>2. s # <<>> /\ m = Head(s) /\ q' = Tail(s)
    BY <1>1 DEF Receive
  <1>3. UNCHANGED <<ws, admin, greeting, dropped>> /\ pc = "recv"
    BY DEF Receive, outsideVars
  <1>4. Listening
    BY <1>3 DEF Listening, InLoop
  <1>5. GreetingIsDue'
    BY <1>1, <1>2, <1>3, <1>4 DEF TellInv, GreetingIsDue
  <1>6. /\ \A x : Holds(s, x) => Holds(q', x) \/ x = m
        /\ Told(s, admin_present) <=> Told(q', admin_present')
    BY <1>2, TailTells
  <1>7. SessionIsTold'
    BY <1>1, <1>3, <1>4, <1>6 DEF TellInv, SessionIsTold
  <1> QED
    BY <1>5, <1>7 DEF TellInv

\* The answers in the queue become stale.
LEMMA StaleStep ==
  ASSUME IInv, TellInv, AnswersGoStale, Listening' => Listening,
         UNCHANGED <<ws, dropped, signaling_up, admin_present>>
  PROVE  TellInv'
PROOF
  <1>1. PICK s \in Seq(Msgs) : s = q
    BY DEF IInv, TypeOK, QueueOK
  <1>2. q' = [i \in DOMAIN s |-> Outdate(s[i])] /\ UNCHANGED <<admin, greeting>>
    BY <1>1 DEF AnswersGoStale
  <1>3. /\ \A x \in {"CONNECTED", "DISCONNECTED"} : Holds(s, x) => Holds(q', x)
        /\ Told(q', admin_present) <=> Told(s, admin_present)
    BY <1>2, StaleTells
  <1>4. SessionIsTold'
    BY <1>1, <1>2, <1>3 DEF TellInv, SessionIsTold
  <1>5. GreetingIsDue'
    BY <1>1, <1>2 DEF TellInv, GreetingIsDue
  <1> QED
    BY <1>4, <1>5 DEF TellInv

LEMMA InitTell == Init => TellInv
  BY DEF Init, TellInv, SessionIsTold, GreetingIsDue, Listening

\* A session begins with nothing to read; outside of one nobody listens.
LEMMA OutsideTell ==
  ASSUME IInv, TellInv, OutsideSession
  PROVE  TellInv'
PROOF
  <1>1. pc \in BetweenSessions /\ ws = "none" /\ ~greeting
    BY DEF OutsideSession, OuterLoop, OpenSession, OpenFails, SessionReturns, DelayEnds, Passes,
       IInv, PlaceOfSession, TellInv, GreetingIsDue
  <1>2. CASE OpenSession
    BY <1>1, <1>2 DEF OpenSession, TellInv, SessionIsTold, GreetingIsDue, outsideVars
  <1>3. CASE OuterLoop \/ OpenFails \/ SessionReturns \/ DelayEnds
    <2>1. ~greeting' /\ pc' \in BetweenSessions
      BY <1>1, <1>3 DEF OuterLoop, Passes, OpenFails, Fault, SessionReturns, DelayEnds, Goto, elsewhere, outsideVars
    <2> QED
      BY <2>1, DeafStep DEF Listening
  <1> QED
    BY <1>2, <1>3 DEF OutsideSession

\* Nobody listens to a session that ends.
LEMMA EndTell ==
  ASSUME IInv, TellInv,
         PauseEndsSession \/ ConnectTimesOut \/ TokenEndsSession \/ HandleDisconnected
           \/ CloseSignaling \/ DeleteQueue
  PROVE  TellInv'
PROOF
  <1>1. \/ pc' = "close" /\ after' = "close_sig"
        \/ pc' \in {"close_sig", "delete_q", "returned"}
    BY DEF PauseEndsSession, ConnectTimesOut, TokenEndsSession, HandleDisconnected, EndSession,
       CloseViewerThen, Call, Goto, CloseSignaling, DeleteQueue
  <1>2. ~Listening'
    BY <1>1 DEF Listening
  <1>3. greeting' => ws' = "up" /\ admin'
    BY DEF PauseEndsSession, ConnectTimesOut, TokenEndsSession, HandleDisconnected, Receive,
       CloseSignaling, DeleteQueue, outsideVars, TellInv, GreetingIsDue
  <1> QED
    BY <1>2, <1>3, DeafStep

\* What the session reads, it knows.
LEMMA HandleTell ==
  ASSUME IInv, TellInv, Handle
  PROVE  TellInv'
PROOF
  <1> USE DEF IInv, TypeOK, SessionTypes, Msgs, Joined, Left, sessionVars, retryVars
  <1>1. CASE ReceiveNothing
    BY <1>1, UntoldStep DEF ReceiveNothing, Passes, Goto, elsewhere, queueVars, outsideVars,
       tellVars, Listening
  <1>2. CASE HandleConnected
    BY <1>2, HeardStep DEF HandleConnected
  <1>3. CASE HandleDisconnected
    BY <1>3, EndTell
  <1>4. CASE HandleJoined
    BY <1>4, HeardStep DEF HandleJoined
  <1>5. CASE HandleLeft
    BY <1>5, HeardStep DEF HandleLeft
  <1>6. CASE HandleAnswer
    BY <1>6, HeardStep DEF HandleAnswer
  <1>7. CASE HandleServerError
    BY <1>7, HeardStep DEF HandleServerError
  <1> QED
    BY <1>1, <1>2, <1>3, <1>4, <1>5, <1>6, <1>7 DEF Handle

\* The rest of an iteration tells nobody anything.
LEMMA IterationTell ==
  ASSUME IInv, TellInv, Iteration
  PROVE  TellInv'
PROOF
  <1> USE DEF tellVars, Listening, elsewhere, sessionVars, retryVars, queueVars, outsideVars,
          Passes, Goto, Call
  <1>1. CASE PauseEndsSession \/ ConnectTimesOut \/ TokenEndsSession
    BY <1>1, EndTell
  <1>2. CASE Handle
    BY <1>2, HandleTell
  <1>3. CASE LoopHead \/ ConnectInTime \/ PumpQuiet \/ ViewerIsFine \/ NothingToRetry
             \/ TokenIsFine
    BY <1>3, UntoldStep DEF LoopHead, ConnectInTime, PumpQuiet, ViewerIsFine, NothingToRetry,
       TokenIsFine
  <1>4. CASE PumpSendsOffer
    BY <1>4, UntoldStep DEF PumpSendsOffer
  <1>5. CASE ViewerHasFailed
    BY <1>5, UntoldStep DEF ViewerHasFailed, CloseViewerThen
  <1>6. CASE RetryStartsViewer
    BY <1>6, UntoldStep DEF RetryStartsViewer
  <1> QED
    BY <1>1, <1>2, <1>3, <1>4, <1>5, <1>6 DEF Iteration

\* Nothing is lost while a viewer is started or closed.
LEMMA CallTell ==
  ASSUME IInv, TellInv, ViewerCalls
  PROVE  TellInv'
PROOF
  <1> USE DEF tellVars, Listening, sessionVars, retryVars, queueVars, outsideVars, relayVars,
          Goto, ArmRetry, IInv, TypeOK, RelayTypes, PlaceOfViewer
  <1>1. CASE StartGivesViewer
    BY <1>1, UntoldStep DEF StartGivesViewer
  <1>2. CASE StartGivesUp
    BY <1>2, UntoldStep DEF StartGivesUp
  <1>3. CASE StartGivesNothing
    BY <1>3, UntoldStep DEF StartGivesNothing
  <1>4. CASE CloseReturns
    <2>1. Listening' => Listening
      BY <1>4 DEF CloseReturns
    <2>2. UNCHANGED <<ws, dropped, signaling_up, admin_present>> /\ AnswersGoStale
      BY <1>4 DEF CloseReturns
    <2> QED
      BY <2>1, <2>2, StaleStep
  <1> QED
    BY <1>1, <1>2, <1>3, <1>4 DEF ViewerCalls

\* Whatever happens outside is put on the queue.
LEMMA EventTell ==
  ASSUME IInv, TellInv, EventTask
  PROVE  TellInv'
PROOF
  <1> USE DEF sessionVars, retryVars, queueVars, outsideVars, relayVars, Joined, Left
  <1>1. greeting => ws = "up" /\ admin
    BY DEF TellInv, GreetingIsDue
  <1>2. admin \in BOOLEAN /\ greeting \in BOOLEAN
    BY DEF IInv, TypeOK, OutsideTypes
  <1>3. CASE WsConnects
    BY <1>1, <1>2, <1>3, ToldStep DEF WsConnects, Msgs
  <1>4. CASE WsBreaks
    BY <1>1, <1>2, <1>4, ToldStep DEF WsBreaks, Msgs
  <1>5. CASE RoomGreets
    BY <1>1, <1>2, <1>5, ToldStep DEF RoomGreets, Msgs
  <1>6. CASE AdminJoins
    <2>1. CASE ws = "up"
      BY <1>1, <1>2, <1>6, <2>1, ToldStep DEF AdminJoins, Msgs, ToDevice
    <2>2. CASE ws # "up"
      BY <1>1, <1>6, <2>2 DEF AdminJoins, ToDevice, TellInv, SessionIsTold, GreetingIsDue, Listening
    <2> QED
      BY <2>1, <2>2
  <1>7. CASE AdminLeaves
    <2>1. CASE ws = "up"
      BY <1>1, <1>2, <1>7, <2>1, ToldStep DEF AdminLeaves, Msgs, ToDevice
    <2>2. CASE ws # "up"
      BY <1>1, <1>7, <2>2 DEF AdminLeaves, ToDevice, TellInv, SessionIsTold, GreetingIsDue, Listening
    <2> QED
      BY <2>1, <2>2
  <1>8. CASE AdminAnswers
    BY <1>1, <1>2, <1>8, ToldStep DEF AdminAnswers, Msgs
  <1>9. CASE ServerReportsError
    BY <1>1, <1>2, <1>9, ToldStep DEF ServerReportsError, Msgs
  <1> QED
    BY <1>3, <1>4, <1>5, <1>6, <1>7, <1>8, <1>9 DEF EventTask

\* What the session was told, always.
LEMMA AlwaysTell == Spec => []TellInv
PROOF
  <1>1. IInv /\ TellInv /\ [Next]_vars => TellInv'
    <2> SUFFICES ASSUME IInv, TellInv, [Next]_vars PROVE TellInv'
      OBVIOUS
    <2>1. CASE RelayTask
      BY <2>1, OutsideTell, IterationTell, CallTell, EndTell DEF RelayTask
    <2>2. CASE EventTask
      BY <2>2, EventTell
    <2>3. CASE ViewerBreaks \/ ReceiverStops \/ Time \/ relay_pause \/ relay_resume
               \/ UNCHANGED vars
      <3>1. UNCHANGED tellVars /\ (Listening' => Listening)
        BY <2>3 DEF ViewerBreaks, ReceiverStops, Time, ConnectDeadlinePasses, TokenComesDue,
           RetryBackoffPasses, relay_pause, relay_resume, tellVars, vars, elsewhere, Listening,
           sessionVars, retryVars, queueVars, outsideVars, relayVars
      <3> QED
        BY <3>1, UntoldStep
    <2> QED
      BY <2>1, <2>2, <2>3 DEF Next
  <1> QED
    BY <1>1, InitTell, AlwaysIInv, PTL DEF Spec

-----------------------------------------------------------------------------
(* Theorems *)

(* Type correctness; in particular the queue never holds more than it can  *)
(* and the backoffs never leave their range.                               *)
THEOREM RelayTypeCorrect == Spec => []TypeOK
PROOF
  <1>1. IInv => TypeOK
    BY DEF IInv
  <1> QED
    BY <1>1, AlwaysIInv, PTL

(* The event task never writes to a deleted queue, and no viewer outlives  *)
(* the signaling client it sends its offer with.                           *)
THEOREM SessionPartsEndInOrder == Spec => []OwnersOutlive
PROOF
  <1>1. IInv => OwnersOutlive
    BY DEF IInv, TypeOK, RelayTypes, PlaceOfSession, PlaceOfViewer, OwnersOutlive
  <1> QED
    BY <1>1, AlwaysIInv, PTL

\* There is no viewer without an admin.
THEOREM ViewerOnlyForAdmin == Spec => []ViewerNeedsAdmin
PROOF
  <1>1. IInv /\ TellInv => ViewerNeedsAdmin
    BY EmptyTells DEF IInv, PlaceOfViewer, AdminOfViewer, TellInv, SessionIsTold, Listening,
       ViewerNeedsAdmin
  <1> QED
    BY <1>1, AlwaysIInv, AlwaysTell, PTL

(* However long viewer_start and viewer_close block: what the session      *)
(* knows of its link and of the admin, with what it has yet to read, is    *)
(* how things are, unless its queue was full (signaling_client.c enqueue). *)
(* The liveness properties of the session rest on this.                    *)
THEOREM NothingIsForgotten == Spec => []SessionIsTold
  BY AlwaysTell, PTL DEF TellInv

(* The session moves its viewer only as ViewerContract has it, which       *)
(* Viewer implements: a step of the session is a step of the contract, or  *)
(* none of its concern.                                                    *)
THEOREM SessionKeepsContract == Spec => ViewerSpec
PROOF
  <1>1. Init => ViewerInit
    BY DEF Init
  <1>2. [Next]_vars => [ViewerNext]_viewerVars
    <2> SUFFICES ASSUME [Next]_vars PROVE ViewerNext \/ UNCHANGED viewerVars
      OBVIOUS
    <2> USE DEF ViewerNext, Passes, elsewhere
    <2>1. CASE OutsideSession \/ CloseSignaling \/ DeleteQueue
      BY <2>1 DEF OutsideSession, OuterLoop, OpenSession, OpenFails, SessionReturns, DelayEnds,
         CloseSignaling, DeleteQueue
    <2>2. CASE Handle
      BY <2>2 DEF Handle, ReceiveNothing, HandleConnected, HandleDisconnected, HandleJoined,
         HandleLeft, HandleAnswer, HandleServerError, EndSession, CloseViewerThen
    <2>3. CASE Iteration /\ ~Handle
      BY <2>3 DEF Iteration, PauseEndsSession, LoopHead, ConnectTimesOut, ConnectInTime,
         PumpSendsOffer, PumpQuiet, ViewerIsFine, ViewerHasFailed, RetryStartsViewer,
         NothingToRetry, TokenEndsSession, TokenIsFine, EndSession, CloseViewerThen
    <2>4. CASE ViewerCalls \/ ViewerBreaks \/ ReceiverStops
      BY <2>4 DEF ViewerCalls, StartGivesViewer, StartGivesUp, StartGivesNothing, CloseReturns,
         ViewerBreaks, ReceiverStops
    <2>5. CASE EventTask \/ Time
      BY <2>5 DEF EventTask, WsConnects, WsBreaks, RoomGreets, AdminJoins, AdminLeaves,
         AdminAnswers, ServerReportsError, Time, ConnectDeadlinePasses, TokenComesDue,
         RetryBackoffPasses
    <2>6. CASE relay_pause \/ relay_resume \/ UNCHANGED vars
      BY <2>6 DEF relay_pause, relay_resume, vars
    <2> QED
      BY <2>1, <2>2, <2>3, <2>4, <2>5, <2>6 DEF Next, RelayTask
  <1> QED
    BY <1>1, <1>2, PTL DEF Spec, ViewerSpec

(* A live viewer whose receive task is gone has a failure bit, which the   *)
(* loop sees in its next iteration: the stream never stops in silence      *)
(* (rtsp_rx_task raises EVT_RTSP_ERROR before it ends).                    *)
THEOREM StreamEndsAloud == Spec => []EndIsTold
PROOF
  <1>1. ViewerInit => EndIsTold
    BY DEF ViewerInit, EndIsTold
  <1>2. EndIsTold /\ [ViewerNext]_viewerVars => EndIsTold'
    BY DEF ViewerNext, viewerVars, EndIsTold, BeginStart, StartSucceeds, StartFails, ViewerFails,
       ReceiverEnds, BeginClose, EndClose
  <1> QED
    BY <1>1, <1>2, SessionKeepsContract, PTL DEF ViewerSpec

\* The retry of a failed viewer always waits for its backoff.
THEOREM RetryWaits == Spec => RetriesArePaced
PROOF
  <1>1. IInv /\ [Next]_vars => [pc = "retry" /\ pc' = "start" => cooling # "after_viewer"]_vars
    <2> SUFFICES ASSUME IInv, Next, pc = "retry", pc' = "start"
                 PROVE  cooling # "after_viewer"
      OBVIOUS
    <2> USE DEF Passes, Goto, Call, relayVars
    <2>1. CASE RetryStartsViewer
      BY <2>1 DEF RetryStartsViewer, IInv, CoolingIsArmed
    <2>2. CASE OutsideSession \/ CloseSignaling \/ DeleteQueue \/ ViewerCalls
      BY <2>2 DEF OutsideSession, OuterLoop, OpenSession, OpenFails, SessionReturns, DelayEnds,
         CloseSignaling, DeleteQueue, ViewerCalls, StartGivesViewer, StartGivesUp,
         StartGivesNothing, CloseReturns
    <2>3. CASE Iteration /\ ~RetryStartsViewer
      BY <2>3 DEF Iteration, PauseEndsSession, LoopHead, Handle, ReceiveNothing, HandleConnected,
         HandleDisconnected, HandleJoined, HandleLeft, HandleAnswer, HandleServerError, Receive,
         ConnectTimesOut, ConnectInTime, PumpSendsOffer, PumpQuiet, ViewerIsFine,
         ViewerHasFailed, NothingToRetry, TokenEndsSession, TokenIsFine
    <2>4. CASE EventTask \/ Time
      BY <2>4 DEF EventTask, WsConnects, WsBreaks, RoomGreets, AdminJoins, AdminLeaves,
         AdminAnswers, ServerReportsError, Time, ConnectDeadlinePasses, TokenComesDue,
         RetryBackoffPasses
    <2>5. CASE ViewerBreaks \/ ReceiverStops \/ relay_pause \/ relay_resume
      BY <2>5 DEF ViewerBreaks, ReceiverStops, relay_pause, relay_resume
    <2> QED
      BY <2>1, <2>2, <2>3, <2>4, <2>5 DEF Next, RelayTask
  <1> QED
    BY <1>1, AlwaysIInv, PTL DEF Spec, RetriesArePaced
=============================================================================
