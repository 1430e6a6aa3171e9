---------------------------- MODULE GatewayProofs ----------------------------
(***************************************************************************)
(* What holds of the firmware update for any number of workers, any queue  *)
(* and any number of commands, faults and power losses.                    *)
(***************************************************************************)
EXTENDS Gateway, HubServerProofs

Msgs == {"CONNECTED", "DISCONNECTED", "OTA", "OTHER"}
WorkerStates == [at : Ats, live : BOOLEAN, alone : BOOLEAN]

LinkTypes ==
  /\ rec \in {"off", "idle", "waiting", "up"} /\ overdue \in BOOLEAN
  /\ link \in {"none", "trying", "open", "lost"}
QueueTypes == queue \in Seq(Msgs) /\ Len(queue) <= QueueCap
WorkerTypes == worker \in [Workers -> WorkerStates]
SlotTypes == running \in Slots /\ boot \in Slots /\ image \in [Slots -> Images]
FlagTypes ==
  /\ s_relay_paused \in BOOLEAN /\ confirmed \in BOOLEAN
  /\ trial \in BOOLEAN /\ proved \in BOOLEAN /\ mark_failed \in BOOLEAN
BoundTypes == commands \in Nat /\ faults \in Nat /\ outages \in Nat

\* Beside a lonely update there is no other.
AloneInv ==
  /\ rec = "off" => \A w \in Workers : worker[w] = Idle
  /\ \A w \in Workers : worker[w].alone =>
       /\ \A v \in Workers : v # w => worker[v].at = "none"
       /\ worker[w].at # "none"

\* An image on trial has a whole one to fall back to; it is no longer on
\* trial in the flash exactly when it was marked.
TrialInv ==
  /\ confirmed = proved /\ (mark_failed => proved)
  /\ image[running].whole
  /\ image[running].state = IF trial /\ (proved => mark_failed) THEN "pending" ELSE "valid"
  /\ image[running].state = "pending" =>
       boot = running /\ image[Other].whole /\ image[Other].state = "valid"
  /\ boot # running /\ image[Other].whole => image[Other].state = "new"

\* Only beside an image that is no longer on trial is a new one written.
WritingInv ==
  \A w \in Workers :
    /\ worker[w].at \in {"download", "finish", "ok", "restart"} =>
         image[running].state # "pending"
    /\ worker[w].alone /\ worker[w].at \in {"ok", "restart"} =>
         boot = Other /\ image[Other].whole

IInv == TypeOK /\ AloneInv /\ TrialInv /\ WritingInv

LEMMA TypeParts ==
  TypeOK <=> /\ HubTypeOK /\ LinkTypes /\ QueueTypes /\ WorkerTypes /\ SlotTypes
             /\ FlagTypes /\ BoundTypes
  BY DEF TypeOK, LinkTypes, QueueTypes, WorkerTypes, SlotTypes, FlagTypes, BoundTypes,
     Msgs, WorkerStates

LEMMA IdleType == Idle \in WorkerStates /\ Idle.at = "none" /\ ~Idle.alone
  BY DEF Idle, WorkerStates, Ats

-----------------------------------------------------------------------------
(* Operators *)

\* A full queue stays as it is.
LEMMA EnqueueType ==
  ASSUME NEW q \in Seq(Msgs), Len(q) <= QueueCap, NEW m \in Msgs
  PROVE  Enqueue(q, m) \in Seq(Msgs) /\ Len(Enqueue(q, m)) <= QueueCap
PROOF
  <1>1. CASE Len(q) < QueueCap
    <2>1. Append(q, m) \in Seq(Msgs) /\ Len(Append(q, m)) = Len(q) + 1
      OBVIOUS
    <2> QED
      BY <1>1, <2>1, GatewayAssumption DEF Enqueue
  <1>2. CASE ~(Len(q) < QueueCap)
    BY <1>2 DEF Enqueue
  <1> QED
    BY <1>1, <1>2

LEMMA TailType ==
  ASSUME QueueTypes, queue # <<>>, queue' = Tail(queue)
  PROVE  QueueTypes'
PROOF
  <1>1. Tail(queue) \in Seq(Msgs) /\ Len(Tail(queue)) = Len(queue) - 1
    BY DEF QueueTypes
  <1>2. Len(queue) \in Nat /\ QueueCap \in Nat
    BY GatewayAssumption DEF QueueTypes
  <1> QED
    BY <1>1, <1>2 DEF QueueTypes

LEMMA EmptyQueue ==
  ASSUME queue' = <<>>
  PROVE  QueueTypes'
  BY GatewayAssumption DEF QueueTypes

\* A worker goes on; the others stay where they are.
LEMMA GoesOn ==
  ASSUME WorkerTypes, NEW w \in Workers, NEW from, NEW to \in Ats, Goes(w, from, to)
  PROVE  /\ WorkerTypes'
         /\ worker[w].at = from /\ worker'[w].at = to
         /\ worker'[w].alone = worker[w].alone
         /\ \A v \in Workers : v # w => worker'[v] = worker[v]
  BY DEF Goes, WorkerTypes, WorkerStates

\* A start that succeeds, or one fault more.
LEMMA StartsHubType ==
  ASSUME HubTypeOK, faults \in Nat, StartsHub
  PROVE  HubTypeOK' /\ faults' \in Nat
PROOF
  <1>1. \E o \in StartOutcomes : hub_link_start(o)
    BY DEF StartsHub, StartOutcomes
  <1>2. faults' \in Nat
    BY DEF StartsHub
  <1> QED
    BY <1>1, <1>2, StartType

\* The first start.
LEMMA InitIInv == Init => IInv
PROOF
  <1> SUFFICES ASSUME Init PROVE IInv
    OBVIOUS
  <1>1. HubTypeOK
    BY OffType DEF Init
  <1>2. LinkTypes /\ FlagTypes /\ BoundTypes
    BY GatewayAssumption DEF Init, LinkTypes, FlagTypes, BoundTypes
  <1>3. QueueTypes
    BY GatewayAssumption DEF Init, QueueTypes
  <1>4. WorkerTypes /\ \A w \in Workers : worker[w] = Idle
    BY IdleType DEF Init, WorkerTypes
  <1>5. SlotTypes
    BY DEF Init, SlotTypes, Slots, Images
  <1>6. AloneInv /\ WritingInv
    BY <1>4, IdleType DEF AloneInv, WritingInv
  <1>7. TrialInv
    BY DEF Init, TrialInv, Slots, Other
  <1> QED
    BY <1>1, <1>2, <1>3, <1>4, <1>5, <1>6, <1>7, TypeParts DEF IInv

-----------------------------------------------------------------------------
(* Restarts *)

\* The bootloader starts a whole image, and tells what it is on.
LEMMA BootloaderTrial ==
  ASSUME SlotTypes, FlagTypes, TrialInv, Bootloader, confirmed' = FALSE
  PROVE  SlotTypes' /\ TrialInv'
PROOF
  <1> USE DEF Slots
  <1>1. running \in {0, 1} /\ boot \in {0, 1} /\ image \in [{0, 1} -> Images]
    BY DEF SlotTypes
  <1>2. proved' = FALSE /\ mark_failed' = FALSE
    BY DEF Bootloader
  <1>3. CASE ~image[boot].whole
    <2>1. boot # running /\ image[running].whole /\ image[running].state = "valid"
      BY <1>1, <1>3 DEF TrialInv
    <2>2. 1 - boot = running
      BY <1>1, <2>1
    <2>3. /\ running' = running /\ boot' = running /\ trial' = FALSE
          /\ image' = [image EXCEPT ![boot].state = "aborted"]
      BY <1>3, <2>1, <2>2 DEF Bootloader, Runs
    <2>4. SlotTypes'
      BY <1>1, <2>3 DEF SlotTypes, Images
    <2>5. image'[running] = image[running]
      BY <1>1, <2>1, <2>3
    <2> QED
      BY <1>2, <2>1, <2>3, <2>4, <2>5 DEF TrialInv
  <1>4. CASE image[boot].whole /\ image[boot].state = "pending"
    <2>1. boot = running /\ image[Other].whole /\ image[Other].state = "valid"
      BY <1>1, <1>4 DEF TrialInv, Other
    <2>2. 1 - boot = Other /\ Other # boot /\ Other \in {0, 1}
      BY <1>1, <2>1 DEF Other
    <2>3. /\ running' = Other /\ boot' = Other /\ trial' = FALSE
          /\ image' = [image EXCEPT ![boot].state = "aborted"]
      BY <1>4, <2>1, <2>2 DEF Bootloader, Runs
    <2>4. SlotTypes'
      BY <1>1, <2>2, <2>3 DEF SlotTypes, Images
    <2>5. image'[Other] = image[Other]
      BY <1>1, <2>2, <2>3
    <2> QED
      BY <1>2, <2>1, <2>3, <2>4, <2>5 DEF TrialInv
  <1>5. CASE image[boot].whole /\ image[boot].state # "pending" /\ boot = running
    <2>1. image[running].state = "valid"
      BY <1>1, <1>5 DEF TrialInv
    <2>2. /\ running' = running /\ boot' = running /\ trial' = FALSE
          /\ image' = [image EXCEPT ![boot].state = "valid"]
      BY <1>5, <2>1 DEF Bootloader, Runs
    <2>3. SlotTypes'
      BY <1>1, <2>2 DEF SlotTypes, Images
    <2>4. image'[running].whole /\ image'[running].state = "valid"
      BY <1>1, <1>5, <2>2
    <2> QED
      BY <1>2, <2>2, <2>3, <2>4 DEF TrialInv
  <1>6. CASE image[boot].whole /\ image[boot].state # "pending" /\ boot # running
    <2>1. boot = Other /\ image[boot].state = "new"
      BY <1>1, <1>6 DEF TrialInv, Other
    <2>2. image[running].whole /\ image[running].state = "valid"
      BY <1>1, <1>6 DEF TrialInv
    <2>3. /\ running' = boot /\ boot' = boot /\ trial' = TRUE
          /\ image' = [image EXCEPT ![boot].state = "pending"]
      BY <1>6, <2>1 DEF Bootloader, Runs
    <2>4. SlotTypes'
      BY <1>1, <2>3 DEF SlotTypes, Images
    <2>5. /\ image'[boot].whole /\ image'[boot].state = "pending"
          /\ image'[running] = image[running]
      BY <1>1, <1>6, <2>3
    <2>6. Other' = running
      BY <1>1, <1>6, <2>3 DEF Other
    <2> QED
      BY <1>2, <2>2, <2>3, <2>4, <2>5, <2>6 DEF TrialInv
  <1> QED
    BY <1>3, <1>4, <1>5, <1>6

LEMMA RestartIInv ==
  ASSUME IInv, Restart, BoundTypes'
  PROVE  IInv'
PROOF
  <1>1. HubTypeOK'
    BY LostType DEF Restart
  <1>2. LinkTypes'
    BY DEF Restart, LinkTypes
  <1>3. QueueTypes'
    BY EmptyQueue DEF Restart
  <1>4. WorkerTypes' /\ \A w \in Workers : worker'[w] = Idle
    BY IdleType DEF Restart, WorkerTypes
  <1>5. SlotTypes' /\ TrialInv'
    BY BootloaderTrial, TypeParts DEF IInv, Restart
  <1>6. trial' \in BOOLEAN
    BY DEF Restart, Bootloader, Runs
  <1>7. FlagTypes'
    BY <1>6 DEF Restart, Bootloader, FlagTypes
  <1>8. AloneInv' /\ WritingInv'
    BY <1>4, IdleType DEF AloneInv, WritingInv
  <1>9. TypeOK'
    BY <1>1, <1>2, <1>3, <1>4, <1>5, <1>7 DEF TypeOK, LinkTypes, QueueTypes, WorkerTypes,
       SlotTypes, FlagTypes, BoundTypes, Msgs, WorkerStates
  <1> QED
    BY <1>5, <1>8, <1>9 DEF IInv
-----------------------------------------------------------------------------
(* The recorder session *)

\* What the event task and the clock leave alone.
LEMMA OffDeviceIInv ==
  ASSUME IInv, UNCHANGED offDevice, LinkTypes', QueueTypes', BoundTypes',
         rec' = rec \/ rec' # "off"
  PROVE  IInv'
PROOF
  <1> USE DEF offDevice, hubVars, beaconVars, slots, history
  <1>1. HubTypeOK' /\ WorkerTypes' /\ SlotTypes' /\ FlagTypes'
    BY TypeParts DEF IInv, HubTypeOK, WorkerTypes, SlotTypes, FlagTypes
  <1>2. TypeOK'
    BY <1>1 DEF TypeOK, LinkTypes, QueueTypes, WorkerTypes, SlotTypes, FlagTypes,
       BoundTypes, Msgs, WorkerStates
  <1>3. AloneInv' /\ TrialInv' /\ WritingInv'
    BY DEF IInv, AloneInv, TrialInv, WritingInv, Other
  <1> QED
    BY <1>2, <1>3 DEF IInv

LEMMA EventTaskIInv ==
  ASSUME IInv, LinkUp \/ LinkLost \/ OtaCommand \/ OtherFrame
  PROVE  IInv'
PROOF
  <1>1. LinkTypes /\ QueueTypes /\ BoundTypes
    BY TypeParts DEF IInv
  <1>2. UNCHANGED <<rec, offDevice>>
    BY DEF LinkUp, LinkLost, OtaCommand, OtherFrame
  <1>3. LinkTypes'
    BY <1>1 DEF LinkUp, LinkLost, OtaCommand, OtherFrame, LinkTypes
  <1>4. BoundTypes'
    BY <1>1 DEF LinkUp, LinkLost, OtaCommand, OtherFrame, BoundTypes, bounds
  <1>5. \A m \in Msgs : /\ Enqueue(queue, m) \in Seq(Msgs)
                       /\ Len(Enqueue(queue, m)) <= QueueCap
    BY <1>1, EnqueueType DEF QueueTypes
  <1>6. \A m \in Msgs : /\ Enqueue(Enqueue(queue, m), m) \in Seq(Msgs)
                       /\ Len(Enqueue(Enqueue(queue, m), m)) <= QueueCap
    BY <1>5, EnqueueType
  <1>7. \E m \in Msgs : queue' \in {Enqueue(queue, m), Enqueue(Enqueue(queue, m), m)}
    BY DEF LinkUp, LinkLost, OtaCommand, OtherFrame, Msgs
  <1>8. QueueTypes'
    BY <1>5, <1>6, <1>7 DEF QueueTypes
  <1> QED
    BY <1>2, <1>3, <1>4, <1>8, OffDeviceIInv

LEMMA QuietSessionIInv ==
  ASSUME IInv, OpenSession \/ ReceiveOther \/ TimePasses
  PROVE  IInv'
PROOF
  <1>1. LinkTypes /\ QueueTypes /\ BoundTypes
    BY TypeParts DEF IInv
  <1>2. UNCHANGED <<bounds, offDevice>> /\ (rec' = rec \/ rec' # "off")
    BY DEF OpenSession, ReceiveOther, TimePasses
  <1>3. LinkTypes' /\ BoundTypes'
    BY <1>1, <1>2 DEF OpenSession, ReceiveOther, TimePasses, LinkTypes, BoundTypes, bounds
  <1>4. QueueTypes'
    <2>1. CASE OpenSession
      BY <2>1, EmptyQueue DEF OpenSession
    <2>2. CASE ReceiveOther
      BY <1>1, <2>2, TailType DEF ReceiveOther, Receives
    <2>3. CASE TimePasses
      BY <1>1, <2>3 DEF TimePasses, QueueTypes
    <2> QED
      BY <2>1, <2>2, <2>3
  <1> QED
    BY <1>2, <1>3, <1>4, OffDeviceIInv

\* The ways out of a session: the workers go on, with a socket that is gone.
LEMMA CloseIInv ==
  ASSUME IInv, ReceiveDisconnected \/ ConnectTimesOut \/ TokenRunsOut
  PROVE  IInv'
PROOF
  <1>1. /\ CloseSession /\ rec # "off"
        /\ UNCHANGED <<hubVars, s_relay_paused, confirmed, slots, bounds, history>>
    BY DEF ReceiveDisconnected, ConnectTimesOut, TokenRunsOut, Receives
  <1>2. /\ HubTypeOK' /\ SlotTypes' /\ FlagTypes' /\ BoundTypes'
    BY <1>1, TypeParts DEF IInv, HubTypeOK, SlotTypes, FlagTypes, BoundTypes, hubVars,
       beaconVars, slots, bounds, history
  <1>3. LinkTypes' /\ rec' # "off"
    BY <1>1 DEF CloseSession, LinkTypes
  <1>4. QueueTypes'
    BY <1>1, EmptyQueue DEF CloseSession
  <1>5. /\ WorkerTypes'
        /\ \A w \in Workers :
             worker'[w].at = worker[w].at /\ worker'[w].alone = worker[w].alone
    BY <1>1, TypeParts DEF IInv, CloseSession, WorkerTypes, WorkerStates
  <1>6. TypeOK'
    BY <1>2, <1>3, <1>4, <1>5 DEF TypeOK, LinkTypes, QueueTypes, WorkerTypes,
       SlotTypes, FlagTypes, BoundTypes, Msgs, WorkerStates
  <1>7. UNCHANGED <<s_server, s_relay_paused>>
    BY <1>1 DEF hubVars
  <1>8. AloneInv'
    BY <1>3, <1>5, <1>7 DEF IInv, AloneInv
  <1>9. TrialInv' /\ WritingInv'
    BY <1>1, <1>5 DEF IInv, TrialInv, WritingInv, Other, slots, history
  <1> QED
    BY <1>6, <1>8, <1>9 DEF IInv

\* The first connection decides the trial, if the flash takes the mark.
LEMMA ConnectedIInv ==
  ASSUME IInv, ReceiveConnected
  PROVE  IInv'
PROOF
  <1>1. /\ ota_link_confirm_running_app /\ proved' = TRUE
        /\ UNCHANGED <<hubVars, worker, s_relay_paused, running, boot, trial>>
        /\ rec # "off"
    BY DEF ReceiveConnected, Receives
  <1>2. HubTypeOK' /\ WorkerTypes'
    BY <1>1, TypeParts DEF IInv, HubTypeOK, WorkerTypes, hubVars, beaconVars
  <1>3. LinkTypes' /\ rec' # "off"
    BY TypeParts DEF IInv, ReceiveConnected, LinkTypes
  <1>4. QueueTypes'
    BY TypeParts, TailType DEF IInv, ReceiveConnected, Receives
  <1>5. BoundTypes'
    BY TypeParts DEF IInv, ReceiveConnected, ota_link_confirm_running_app, BoundTypes
  <1>6. /\ running \in Slots /\ image \in [Slots -> Images] /\ Other # running
        /\ Other \in Slots /\ Other' = Other
    BY <1>1, TypeParts DEF IInv, SlotTypes, Slots, Other
  <1> DEFINE marked == [image EXCEPT ![running].state = "valid"]
  <1>16. /\ marked \in [Slots -> Images] /\ marked[Other] = image[Other]
         /\ marked[running].whole = image[running].whole
         /\ marked[running].state = "valid"
    BY <1>6 DEF Images
  <1>17. image' = image \/ image' = marked
    BY <1>1 DEF ota_link_confirm_running_app
  <1> HIDE DEF marked
  <1>7. /\ image' \in [Slots -> Images]
        /\ image'[Other] = image[Other]
        /\ image'[running].whole = image[running].whole
        /\ image'[running].state \in {image[running].state, "valid"}
    BY <1>6, <1>16, <1>17
  <1>8. SlotTypes'
    BY <1>1, <1>7, TypeParts DEF IInv, SlotTypes
  <1>9. confirmed' = TRUE /\ mark_failed' \in BOOLEAN
    BY <1>1, TypeParts DEF IInv, FlagTypes, ota_link_confirm_running_app
  <1>10. FlagTypes'
    BY <1>1, <1>9, TypeParts DEF IInv, FlagTypes
  <1>11. TypeOK'
    BY <1>2, <1>3, <1>4, <1>5, <1>8, <1>10 DEF TypeOK, LinkTypes, QueueTypes, WorkerTypes,
       SlotTypes, FlagTypes, BoundTypes, Msgs, WorkerStates
  <1>12. AloneInv'
    BY <1>1, <1>3 DEF IInv, AloneInv, hubVars
  <1>13. WritingInv'
    BY <1>1, <1>6, <1>7 DEF IInv, WritingInv
  <1>14. image'[running].state = IF trial /\ mark_failed' THEN "pending" ELSE "valid"
    <2>1. confirmed = proved /\ (mark_failed => proved)
      BY DEF IInv, TrialInv
    <2>2. image[running].state = IF trial /\ (proved => mark_failed) THEN "pending" ELSE "valid"
      BY DEF IInv, TrialInv
    <2>3. CASE confirmed
      BY <1>1, <2>1, <2>2, <2>3 DEF ota_link_confirm_running_app
    <2>4. CASE ~confirmed /\ image[running].state # "pending"
      BY <1>1, <2>1, <2>2, <2>4 DEF ota_link_confirm_running_app
    <2>5. CASE ~confirmed /\ image[running].state = "pending"
      <3>1. trial /\ ~mark_failed
        BY <2>1, <2>2, <2>5
      <3>2. CASE image' = marked /\ UNCHANGED mark_failed
        BY <1>16, <3>1, <3>2
      <3>3. CASE mark_failed' = TRUE /\ UNCHANGED image
        BY <2>5, <3>1, <3>3
      <3> QED
        BY <1>1, <2>5, <3>2, <3>3 DEF ota_link_confirm_running_app, marked
    <2> QED
      BY <2>3, <2>4, <2>5
  <1>15. TrialInv'
    BY <1>1, <1>6, <1>7, <1>9, <1>14 DEF IInv, TrialInv
  <1> QED
    BY <1>11, <1>12, <1>13, <1>15 DEF IInv

\* A new worker: whoever ran before is no longer alone.
LEMMA OtaIInv ==
  ASSUME IInv, ReceiveOta
  PROVE  IInv'
PROOF
  <1>1. /\ UNCHANGED <<rec, overdue, link, hubVars, s_relay_paused, confirmed, slots,
                       bounds, history>>
        /\ rec # "off" /\ rec' = rec
    BY DEF ReceiveOta, Receives
  <1>2. HubTypeOK' /\ LinkTypes' /\ SlotTypes' /\ FlagTypes' /\ BoundTypes'
    BY <1>1, TypeParts DEF IInv, HubTypeOK, LinkTypes, SlotTypes, FlagTypes, BoundTypes,
       hubVars, beaconVars, slots, bounds, history
  <1>3. QueueTypes'
    BY TypeParts, TailType DEF IInv, ReceiveOta, Receives
  <1>4. TrialInv'
    BY <1>1 DEF IInv, TrialInv, Other, slots, history
  <1>5. CASE UNCHANGED worker
    <2>1. WorkerTypes'
      BY <1>5, TypeParts DEF IInv, WorkerTypes
    <2>2. TypeOK'
      BY <1>2, <1>3, <2>1 DEF TypeOK, LinkTypes, QueueTypes, WorkerTypes,
         SlotTypes, FlagTypes, BoundTypes, Msgs, WorkerStates
    <2>3. AloneInv' /\ WritingInv'
      BY <1>1, <1>5 DEF IInv, AloneInv, WritingInv, Other, hubVars, slots
    <2> QED
      BY <1>4, <2>2, <2>3 DEF IInv
  <1>6. CASE ~UNCHANGED worker
    <2> DEFINE idle == {w \in Workers : worker[w].at = "none"}
               new == CHOOSE v \in idle : TRUE
    <2>1. /\ idle # {}
          /\ worker' = [w \in Workers |->
               IF w = new
                 THEN [at |-> "pause", live |-> TRUE, alone |-> idle = Workers]
                 ELSE [worker[w] EXCEPT !.alone = FALSE]]
      BY <1>6 DEF ReceiveOta
    <2>2. new \in Workers /\ worker[new].at = "none"
      BY <2>1
    <2>3. worker \in [Workers -> WorkerStates]
      BY TypeParts DEF IInv, WorkerTypes
    <2>4. /\ worker'[new].at = "pause"
          /\ worker'[new].alone => \A v \in Workers : worker[v].at = "none"
      BY <2>1, <2>2
    <2>5. \A w \in Workers : w # new => worker'[w].at = worker[w].at /\ ~worker'[w].alone
      BY <2>1, <2>3 DEF WorkerStates
    <2>6. WorkerTypes'
      <3>1. (idle = Workers) \in BOOLEAN
        OBVIOUS
      <3>2. [at |-> "pause", live |-> TRUE, alone |-> idle = Workers] \in WorkerStates
        BY <3>1 DEF WorkerStates, Ats
      <3>3. \A w \in Workers : [worker[w] EXCEPT !.alone = FALSE] \in WorkerStates
        BY <2>3 DEF WorkerStates
      <3> HIDE DEF idle, new
      <3> QED
        BY <2>1, <3>2, <3>3 DEF WorkerTypes
    <2>7. TypeOK'
      BY <1>2, <1>3, <2>6 DEF TypeOK, LinkTypes, QueueTypes, WorkerTypes,
         SlotTypes, FlagTypes, BoundTypes, Msgs, WorkerStates
    <2> HIDE DEF idle, new
    <2>8. AloneInv'
      BY <1>1, <2>4, <2>5 DEF AloneInv
    <2>9. WritingInv'
      BY <1>1, <2>4, <2>5 DEF IInv, WritingInv, Other, slots
    <2> QED
      BY <1>4, <2>7, <2>8, <2>9 DEF IInv
  <1> QED
    BY <1>5, <1>6

-----------------------------------------------------------------------------
(* The workers *)

\* What a step of a worker that leaves the images alone has to show.
LEMMA WorkerStepIInv ==
  ASSUME IInv, UNCHANGED <<session, confirmed, commands, outages, history, slots>>,
         HubTypeOK', WorkerTypes', faults' \in Nat, s_relay_paused' \in BOOLEAN,
         AloneInv', WritingInv'
  PROVE  IInv'
PROOF
  <1>1. /\ LinkTypes' /\ QueueTypes' /\ SlotTypes' /\ FlagTypes' /\ BoundTypes'
    BY TypeParts DEF IInv, LinkTypes, QueueTypes, SlotTypes, FlagTypes, BoundTypes,
       session, slots, history
  <1>2. TypeOK'
    BY <1>1 DEF TypeOK, LinkTypes, QueueTypes, WorkerTypes,
       SlotTypes, FlagTypes, BoundTypes, Msgs, WorkerStates
  <1>3. TrialInv'
    BY DEF IInv, TrialInv, Other, slots, history
  <1> QED
    BY <1>2, <1>3 DEF IInv

\* Only a running device has workers.
LEMMA Running ==
  ASSUME IInv, NEW w \in Workers, worker[w].at # "none"
  PROVE  /\ rec # "off"
         /\ \A v \in Workers : v # w => ~worker[v].alone
  BY IdleType DEF IInv, AloneInv

LEMMA PauseIInv ==
  ASSUME IInv, NEW w \in Workers, relay_pause(w)
  PROVE  IInv'
PROOF
  <1>1. /\ Goes(w, "pause", "stop") /\ s_relay_paused' = TRUE
        /\ UNCHANGED <<onlyWorkers, faults, hubVars, slots>>
    BY DEF relay_pause
  <1>2. /\ WorkerTypes' /\ worker[w].at = "pause" /\ worker'[w].at = "stop"
        /\ worker'[w].alone = worker[w].alone
        /\ \A v \in Workers : v # w => worker'[v] = worker[v]
    BY <1>1, GoesOn, TypeParts DEF IInv, Ats
  <1>3. rec' # "off" /\ \A v \in Workers : v # w => ~worker[v].alone
    BY <1>1, <1>2, Running DEF onlyWorkers, session
  <1>4. AloneInv'
    BY <1>1, <1>2, <1>3 DEF IInv, AloneInv
  <1>5. WritingInv'
    BY <1>1, <1>2 DEF IInv, WritingInv, Other, slots
  <1>6. HubTypeOK' /\ faults' \in Nat
    BY <1>1, TypeParts DEF IInv, HubTypeOK, hubVars, beaconVars, BoundTypes
  <1> QED
    BY <1>1, <1>2, <1>4, <1>5, <1>6, WorkerStepIInv DEF onlyWorkers

LEMMA StopsIInv ==
  ASSUME IInv, NEW w \in Workers, StopsHub(w)
  PROVE  IInv'
PROOF
  <1>1. UNCHANGED <<onlyWorkers, s_relay_paused, slots>>
    BY DEF StopsHub
  <1>2. PICK from \in {"stop", "stopping"}, to \in {"stopping", "started"} :
          Goes(w, from, to)
    BY DEF StopsHub
  <1>3. /\ WorkerTypes' /\ worker[w].at = from /\ worker'[w].at = to
        /\ worker'[w].alone = worker[w].alone
        /\ \A v \in Workers : v # w => worker'[v] = worker[v]
    BY <1>2, GoesOn, TypeParts DEF IInv, Ats
  <1>4. rec' # "off" /\ \A v \in Workers : v # w => ~worker[v].alone
    BY <1>1, <1>3, Running DEF onlyWorkers, session
  <1>5. AloneInv'
    BY <1>1, <1>2, <1>3, <1>4 DEF IInv, AloneInv
  <1>6. WritingInv'
    BY <1>1, <1>3 DEF IInv, WritingInv, Other, slots
  <1>7. HubTypeOK'
    BY StopType, StandsType, TypeParts DEF IInv, StopsHub
  <1>8. faults' \in Nat
    BY TypeParts DEF IInv, BoundTypes, StopsHub
  <1>9. s_relay_paused' \in BOOLEAN
    BY <1>1, TypeParts DEF IInv, FlagTypes
  <1> QED
    BY <1>1, <1>3, <1>5, <1>6, <1>7, <1>8, <1>9, WorkerStepIInv DEF onlyWorkers

\* Reports, and the end of a download.
LEMMA GoesOnIInv ==
  ASSUME IInv, NEW w \in Workers, Reports(w) \/ Downloaded(w)
  PROVE  IInv'
PROOF
  <1>1. UNCHANGED <<onlyWorkers, faults, s_relay_paused, hubVars, slots>>
    BY DEF Reports, Downloaded
  <1>2. PICK from \in {"started", "ok", "error", "download"},
             to \in {"begin", "restart", "resume_hub", "error", "finish"} :
          /\ Goes(w, from, to)
          /\ (to = "restart" => from = "ok") /\ (to = "finish" => from = "download")
    BY DEF Reports, Downloaded
  <1>3. /\ WorkerTypes' /\ worker[w].at = from /\ worker'[w].at = to
        /\ worker'[w].alone = worker[w].alone
        /\ \A v \in Workers : v # w => worker'[v] = worker[v]
    BY <1>2, GoesOn, TypeParts DEF IInv, Ats
  <1>4. rec' # "off" /\ \A v \in Workers : v # w => ~worker[v].alone
    BY <1>1, <1>3, Running DEF onlyWorkers, session
  <1>5. AloneInv'
    BY <1>1, <1>3, <1>4 DEF IInv, AloneInv, hubVars
  <1>6. WritingInv'
    BY <1>1, <1>2, <1>3 DEF IInv, WritingInv, Other, slots
  <1>7. HubTypeOK' /\ faults' \in Nat /\ s_relay_paused' \in BOOLEAN
    BY <1>1, TypeParts DEF IInv, HubTypeOK, hubVars, beaconVars, BoundTypes, FlagTypes
  <1> QED
    BY <1>1, <1>3, <1>5, <1>6, <1>7, WorkerStepIInv DEF onlyWorkers

\* The steps that touch the other slot: the running image stays, and is not
\* on trial.
LEMMA WriterIInv ==
  ASSUME IInv, NEW w \in Workers, NEW to \in {"download", "ok"},
         worker[w].at \in {"begin", "download", "finish"},
         worker' = [worker EXCEPT ![w].at = to],
         UNCHANGED <<onlyWorkers, faults, s_relay_paused, hubVars, running>>,
         SlotTypes', image[running].state # "pending", image'[running] = image[running],
         to = "ok" => boot' = Other /\ image'[Other].whole,
         boot' # running /\ image'[Other].whole => image'[Other].state = "new"
  PROVE  IInv'
PROOF
  <1>1. Goes(w, worker[w].at, to) /\ to \in Ats
    BY DEF Goes, Ats
  <1>2. /\ WorkerTypes' /\ worker'[w].at = to
        /\ worker'[w].alone = worker[w].alone
        /\ \A v \in Workers : v # w => worker'[v] = worker[v]
    BY <1>1, GoesOn, TypeParts DEF IInv
  <1>3. rec' # "off" /\ \A v \in Workers : v # w => ~worker[v].alone
    BY <1>1, Running DEF onlyWorkers, session
  <1>4. /\ HubTypeOK' /\ LinkTypes' /\ QueueTypes' /\ FlagTypes' /\ BoundTypes'
    BY TypeParts DEF IInv, HubTypeOK, LinkTypes, QueueTypes, FlagTypes, BoundTypes,
       hubVars, beaconVars, onlyWorkers, session, history
  <1>5. TypeOK'
    BY <1>2, <1>4 DEF TypeOK, LinkTypes, QueueTypes, WorkerTypes,
       SlotTypes, FlagTypes, BoundTypes, Msgs, WorkerStates
  <1>6. AloneInv'
    BY <1>2, <1>3 DEF IInv, AloneInv, hubVars
  <1>7. Other' = Other
    BY DEF Other
  <1>8. TrialInv'
    BY <1>7 DEF IInv, TrialInv, onlyWorkers, history
  <1>9. WritingInv'
    BY <1>2, <1>3, <1>7 DEF IInv, WritingInv
  <1> QED
    BY <1>5, <1>6, <1>8, <1>9 DEF IInv

\* An update that fails on the way.
LEMMA ErrorIInv ==
  ASSUME IInv, NEW w \in Workers, NEW from \in {"begin", "finish"}, Goes(w, from, "error"),
         UNCHANGED <<onlyWorkers, faults, s_relay_paused, hubVars, slots>>
  PROVE  IInv'
PROOF
  <1>1. /\ WorkerTypes' /\ worker[w].at = from /\ worker'[w].at = "error"
        /\ worker'[w].alone = worker[w].alone
        /\ \A v \in Workers : v # w => worker'[v] = worker[v]
    BY GoesOn, TypeParts DEF IInv, Ats
  <1>2. rec' # "off" /\ \A v \in Workers : v # w => ~worker[v].alone
    BY <1>1, Running DEF onlyWorkers, session
  <1>3. AloneInv'
    BY <1>1, <1>2 DEF IInv, AloneInv, hubVars
  <1>4. WritingInv'
    BY <1>1 DEF IInv, WritingInv, Other, slots
  <1>5. HubTypeOK' /\ faults' \in Nat /\ s_relay_paused' \in BOOLEAN
    BY TypeParts DEF IInv, HubTypeOK, hubVars, beaconVars, BoundTypes, FlagTypes
  <1> QED
    BY <1>1, <1>3, <1>4, <1>5, WorkerStepIInv DEF onlyWorkers

\* The other slot is another one, and what is written there stays there.
LEMMA OtherSlot ==
  ASSUME IInv, NEW i \in Images
  PROVE  /\ [image EXCEPT ![Other] = i] \in [Slots -> Images]
         /\ [image EXCEPT ![Other] = i][running] = image[running]
         /\ [image EXCEPT ![Other] = i][Other] = i
         /\ image[Other] \in Images
         /\ running \in Slots /\ boot \in Slots /\ Other \in Slots /\ Other # running
  BY TypeParts DEF IInv, SlotTypes, Slots, Other

LEMMA BeginsIInv ==
  ASSUME IInv, NEW w \in Workers, Begins(w)
  PROVE  IInv'
PROOF
  <1>1. UNCHANGED <<onlyWorkers, faults, s_relay_paused, hubVars, running, boot>>
    BY DEF Begins
  <1>2. CASE Goes(w, "begin", "error") /\ UNCHANGED image
    BY <1>1, <1>2, ErrorIInv DEF slots
  <1>3. CASE /\ Goes(w, "begin", "download") /\ image[running].state # "pending"
             /\ image' = [image EXCEPT ![Other] = [state |-> "none", whole |-> FALSE]]
    <2>1. [state |-> "none", whole |-> FALSE] \in Images
      BY DEF Images
    <2>2. /\ SlotTypes' /\ image'[running] = image[running] /\ ~image'[Other].whole
      BY <1>1, <1>3, <2>1, OtherSlot DEF SlotTypes
    <2> QED
      BY <1>1, <1>3, <2>2, WriterIInv DEF Goes
  <1> QED
    BY <1>2, <1>3 DEF Begins

LEMMA WritesIInv ==
  ASSUME IInv, NEW w \in Workers, Writes(w)
  PROVE  IInv'
PROOF
  <1>1. /\ worker[w].at = "download"
        /\ UNCHANGED <<onlyWorkers, faults, worker, s_relay_paused, hubVars, running, boot>>
    BY DEF Writes
  <1>2. image[running].state # "pending"
    BY <1>1 DEF IInv, WritingInv
  <1> DEFINE torn == [image[Other] EXCEPT !.whole = FALSE]
  <1>3. image[Other] \in Images
    BY TypeParts DEF IInv, SlotTypes, Slots, Other
  <1>4. torn \in Images /\ ~torn.whole
    BY <1>3 DEF Images
  <1>5. image' = [image EXCEPT ![Other] = torn]
    BY DEF Writes
  <1> HIDE DEF torn
  <1>6. SlotTypes' /\ image'[running] = image[running] /\ ~image'[Other].whole
    BY <1>1, <1>4, <1>5, OtherSlot DEF SlotTypes
  <1>7. worker' = [worker EXCEPT ![w].at = "download"]
    BY <1>1, TypeParts DEF IInv, WorkerTypes, WorkerStates
  <1> QED
    BY <1>1, <1>2, <1>6, <1>7, WriterIInv

LEMMA FinishesIInv ==
  ASSUME IInv, NEW w \in Workers, Finishes(w)
  PROVE  IInv'
PROOF
  <1>1. UNCHANGED <<onlyWorkers, faults, s_relay_paused, hubVars, running>>
    BY DEF Finishes
  <1>2. CASE Goes(w, "finish", "error") /\ UNCHANGED <<boot, image>>
    BY <1>1, <1>2, ErrorIInv DEF slots
  <1>3. CASE /\ Goes(w, "finish", "ok") /\ boot' = Other
             /\ image' = [image EXCEPT ![Other] = [state |-> "new", whole |-> TRUE]]
    <2>1. [state |-> "new", whole |-> TRUE] \in Images
      BY DEF Images
    <2>2. /\ SlotTypes' /\ image'[running] = image[running]
          /\ image'[Other].whole /\ image'[Other].state = "new"
      BY <1>1, <1>3, <2>1, OtherSlot DEF SlotTypes
    <2>3. image[running].state # "pending"
      BY <1>3 DEF IInv, WritingInv, Goes
    <2> QED
      BY <1>1, <1>3, <2>2, <2>3, WriterIInv DEF Goes
  <1> QED
    BY <1>2, <1>3 DEF Finishes

LEMMA ResumesIInv ==
  ASSUME IInv, NEW w \in Workers, Resumes(w)
  PROVE  IInv'
PROOF
  <1>1. UNCHANGED <<onlyWorkers, slots>>
    BY DEF Resumes
  <1>2. HubTypeOK /\ WorkerTypes /\ faults \in Nat /\ s_relay_paused \in BOOLEAN
    BY TypeParts DEF IInv, BoundTypes, FlagTypes
  <1>3. CASE Goes(w, "resume_hub", "resume") /\ StartsHub /\ UNCHANGED s_relay_paused
    <2>1. /\ WorkerTypes' /\ worker[w].at = "resume_hub" /\ worker'[w].at = "resume"
          /\ worker'[w].alone = worker[w].alone
          /\ \A v \in Workers : v # w => worker'[v] = worker[v]
      BY <1>2, <1>3, GoesOn DEF Ats
    <2>2. rec' # "off" /\ \A v \in Workers : v # w => ~worker[v].alone
      BY <1>1, <2>1, Running DEF onlyWorkers, session
    <2>3. AloneInv'
      BY <1>3, <2>1, <2>2 DEF IInv, AloneInv
    <2>4. WritingInv'
      BY <1>1, <2>1 DEF IInv, WritingInv, Other, slots
    <2> QED
      BY <1>1, <1>2, <1>3, <2>1, <2>3, <2>4, StartsHubType, WorkerStepIInv DEF onlyWorkers
  <1>4. CASE /\ worker[w].at = "resume" /\ worker' = [worker EXCEPT ![w] = Idle]
             /\ s_relay_paused' = FALSE /\ UNCHANGED <<hubVars, faults>>
    <2>1. /\ WorkerTypes' /\ worker'[w] = Idle
          /\ \A v \in Workers : v # w => worker'[v] = worker[v]
      BY <1>2, <1>4, IdleType DEF WorkerTypes
    <2>2. rec' # "off" /\ \A v \in Workers : v # w => ~worker[v].alone
      BY <1>1, <1>4, Running DEF onlyWorkers, session
    <2>3. AloneInv'
      BY <2>1, <2>2, IdleType DEF AloneInv
    <2>4. WritingInv'
      BY <1>1, <2>1, IdleType DEF IInv, WritingInv, Other, slots
    <2>5. HubTypeOK' /\ faults' \in Nat
      BY <1>2, <1>4 DEF HubTypeOK, hubVars, beaconVars
    <2> QED
      BY <1>1, <1>4, <2>1, <2>3, <2>4, <2>5, WorkerStepIInv DEF onlyWorkers
  <1> QED
    BY <1>3, <1>4 DEF Resumes

-----------------------------------------------------------------------------
(* The device, and all steps together *)

LEMMA BootIInv ==
  ASSUME IInv, app_main
  PROVE  IInv'
PROOF
  <1>1. /\ rec = "off" /\ rec' = "idle" /\ StartsHub
        /\ UNCHANGED <<overdue, link, queue, worker, s_relay_paused, confirmed,
                       slots, commands, outages, history>>
    BY DEF app_main
  <1>2. HubTypeOK' /\ faults' \in Nat
    BY <1>1, StartsHubType, TypeParts DEF IInv, BoundTypes
  <1>3. /\ LinkTypes' /\ QueueTypes' /\ WorkerTypes' /\ SlotTypes' /\ FlagTypes'
        /\ BoundTypes'
    BY <1>1, <1>2, TypeParts DEF IInv, LinkTypes, QueueTypes, WorkerTypes, SlotTypes,
       FlagTypes, BoundTypes, slots, history
  <1>4. TypeOK'
    BY <1>2, <1>3 DEF TypeOK, LinkTypes, QueueTypes, WorkerTypes,
       SlotTypes, FlagTypes, BoundTypes, Msgs, WorkerStates
  <1>5. \A w \in Workers : worker'[w] = Idle
    BY <1>1 DEF IInv, AloneInv
  <1>6. AloneInv' /\ WritingInv'
    BY <1>1, <1>5, IdleType DEF AloneInv, WritingInv
  <1>7. TrialInv'
    BY <1>1 DEF IInv, TrialInv, Other, slots, history
  <1> QED
    BY <1>4, <1>6, <1>7 DEF IInv

LEMMA BeaconsIInv ==
  ASSUME IInv, Beacons
  PROVE  IInv'
PROOF
  <1>1. HubTypeOK' /\ UNCHANGED s_server
    BY BeaconType, TypeParts DEF IInv, Beacons
  <1>2. UNCHANGED <<session, worker, s_relay_paused, confirmed, slots, bounds, history>>
    BY DEF Beacons
  <1>3. /\ WorkerTypes' /\ faults' \in Nat /\ s_relay_paused' \in BOOLEAN
    BY <1>2, TypeParts DEF IInv, WorkerTypes, BoundTypes, FlagTypes, bounds
  <1>4. AloneInv' /\ WritingInv'
    BY <1>1, <1>2 DEF IInv, AloneInv, WritingInv, Other, session, slots
  <1> QED
    BY <1>1, <1>2, <1>3, <1>4, WorkerStepIInv DEF bounds

LEMMA OutageIInv ==
  ASSUME IInv, Outage \/ \E w \in Workers : esp_restart(w)
  PROVE  IInv'
PROOF
  <1>1. Restart
    BY DEF Outage, esp_restart
  <1>2. BoundTypes'
    BY TypeParts DEF IInv, Outage, esp_restart, bounds, BoundTypes
  <1> QED
    BY <1>1, <1>2, RestartIInv

LEMMA StutterIInv ==
  ASSUME IInv, UNCHANGED vars
  PROVE  IInv'
PROOF
  <1> USE DEF vars, session, bounds
  <1>1. LinkTypes' /\ QueueTypes' /\ BoundTypes'
    BY TypeParts DEF IInv, LinkTypes, QueueTypes, BoundTypes
  <1> QED
    BY <1>1, OffDeviceIInv DEF offDevice

LEMMA NextIInv == IInv /\ [Next]_vars => IInv'
PROOF
  <1> SUFFICES ASSUME IInv, [Next]_vars PROVE IInv'
    OBVIOUS
  <1>1. ASSUME NEW w \in Workers, OtaStep(w) \/ Writes(w) PROVE IInv'
    BY <1>1, PauseIInv, StopsIInv, GoesOnIInv, BeginsIInv, WritesIInv, FinishesIInv,
       ResumesIInv, OutageIInv DEF OtaStep
  <1>2. CASE Session
    BY <1>2, ConnectedIInv, CloseIInv, QuietSessionIInv, OtaIInv DEF Session
  <1> QED
    BY <1>1, <1>2, OutageIInv, BootIInv, EventTaskIInv, QuietSessionIInv, BeaconsIInv,
       StutterIInv DEF Next

LEMMA AlwaysIInv == Spec => []IInv
  BY InitIInv, NextIInv, PTL DEF Spec

-----------------------------------------------------------------------------
(* Theorems *)

(* The state of the gateway and its update is of its type, the queue never *)
(* longer than the code makes it.                                          *)
THEOREM GatewayTypes == Spec => []TypeOK
  BY AlwaysIInv, PTL DEF IInv

\* A step into a restart is one of two.
LEMMA RestartedBy ==
  ASSUME IInv, [Next]_vars, Restarted
  PROVE  Restart
PROOF
  <1> USE DEF Restarted
  <1>1. ASSUME NEW w \in Workers, OtaStep(w) \/ Writes(w) PROVE Restart
    BY <1>1 DEF OtaStep, esp_restart, relay_pause, StopsHub, Reports, Begins, Downloaded,
       Finishes, Resumes, Writes, onlyWorkers, session
  <1>2. CASE Session
    BY <1>2 DEF Session, ReceiveConnected, ReceiveDisconnected, ReceiveOther, ReceiveOta,
       ConnectTimesOut, TokenRunsOut, CloseSession
  <1>3. CASE Outage
    BY <1>3 DEF Outage
  <1> QED
    BY <1>1, <1>2, <1>3 DEF Next, app_main, OpenSession, LinkUp, LinkLost, OtaCommand,
       OtherFrame, TimePasses, Beacons, session, vars

(* What was announced as installed is what starts next, on trial, by       *)
(* esp_restart or by a power loss between the report and esp_restart.      *)
THEOREM AnnouncedImageRuns == Spec => OkIsRun
PROOF
  <1> DEFINE Kept ==
        Restarted =>
          \A w \in Workers : worker[w].alone /\ worker[w].at \in {"ok", "restart"} =>
            running' # running /\ trial'
  <1>1. IInv /\ [Next]_vars => Kept
    <2> SUFFICES ASSUME IInv, [Next]_vars, Restarted, NEW w \in Workers,
                        worker[w].alone, worker[w].at \in {"ok", "restart"}
                 PROVE  running' # running /\ trial'
      OBVIOUS
    <2>1. Bootloader
      BY RestartedBy DEF Restart
    <2>2. boot = Other /\ image[Other].whole
      BY DEF IInv, WritingInv
    <2>3. Other # running
      BY TypeParts DEF IInv, SlotTypes, Slots, Other
    <2>4. image[boot].state = "new"
      BY <2>2, <2>3 DEF IInv, TrialInv
    <2>5. Runs(boot, "pending")
      BY <2>1, <2>2, <2>4 DEF Bootloader
    <2> QED
      BY <2>2, <2>3, <2>5 DEF Runs
  <1>2. Spec => [][Kept]_vars
    BY <1>1, AlwaysIInv, PTL DEF Spec
  <1> QED
    BY <1>2 DEF OkIsRun

(* An image on trial is the one that runs after the next restart if and    *)
(* only if it reached the recorder and the flash took the mark.            *)
THEOREM TrialIsDecided == Spec => TrialDecides
PROOF
  <1> DEFINE Decided ==
        Restarted /\ trial /\ boot = running =>
          ((running' = running) <=> (proved /\ ~mark_failed))
  <1>1. IInv /\ [Next]_vars => Decided
    <2> SUFFICES ASSUME IInv, [Next]_vars, Restarted, trial, boot = running
                 PROVE  (running' = running) <=> (proved /\ ~mark_failed)
      OBVIOUS
    <2>1. Bootloader
      BY RestartedBy DEF Restart
    <2>2. running \in {0, 1} /\ 1 - running # running
      BY TypeParts DEF IInv, SlotTypes, Slots
    <2>3. image[boot].whole
      BY DEF IInv, TrialInv
    <2>4. CASE proved /\ ~mark_failed
      <3>1. image[boot].state = "valid"
        BY <2>4 DEF IInv, TrialInv
      <3>2. Runs(boot, "valid")
        BY <2>1, <2>3, <3>1 DEF Bootloader
      <3> QED
        BY <2>4, <3>2 DEF Runs
    <2>5. CASE ~(proved /\ ~mark_failed)
      <3>1. image[boot].state = "pending"
        BY <2>5 DEF IInv, TrialInv
      <3>2. Runs(1 - boot, "valid")
        BY <2>1, <2>3, <3>1 DEF Bootloader
      <3> QED
        BY <2>2, <2>5, <3>2 DEF Runs
    <2> QED
      BY <2>4, <2>5
  <1>2. Spec => [][Decided]_vars
    BY <1>1, AlwaysIInv, PTL DEF Spec
  <1> QED
    BY <1>2 DEF TrialDecides

-----------------------------------------------------------------------------
(* What is brought back *)

\* A step after which no worker owes less, and nothing more is stopped.
LEMMA OwedKept ==
  ASSUME StoppedIsOwed, s_relay_paused' => s_relay_paused,
         rec' # "off" /\ ~s_server' => rec # "off" /\ ~s_server /\ last_start' = last_start,
         \A w \in Workers : /\ worker[w].at \in OwesRelay => worker'[w].at \in OwesRelay
                            /\ worker[w].at \in OwesHub => worker'[w].at \in OwesHub
  PROVE  StoppedIsOwed'
  BY DEF StoppedIsOwed

\* A step of one worker after which it owes both.
LEMMA OwesBoth ==
  ASSUME NEW w \in Workers, worker'[w].at \in OwesHub
  PROVE  StoppedIsOwed'
PROOF
  <1>1. worker'[w].at \in OwesRelay
    BY DEF OwesHub, OwesRelay, Ats
  <1> QED
    BY <1>1 DEF StoppedIsOwed

LEMMA WorkerOwed ==
  ASSUME IInv, StoppedIsOwed, NEW w \in Workers, OtaStep(w) \/ Writes(w)
  PROVE  StoppedIsOwed'
PROOF
  <1>1. WorkerTypes
    BY TypeParts DEF IInv
  <1>2. CASE relay_pause(w)
    <2>1. /\ worker'[w].at = "stop" /\ worker[w].at = "pause"
          /\ \A v \in Workers : v # w => worker'[v] = worker[v]
      BY <1>1, <1>2, GoesOn DEF relay_pause, Ats
    <2>2. "stop" \in OwesRelay /\ "pause" \notin OwesHub
      BY DEF OwesRelay, OwesHub, Ats
    <2>3. UNCHANGED <<rec, s_server, last_start>>
      BY <1>2 DEF relay_pause, onlyWorkers, session, hubVars, beaconVars
    <2> QED
      BY <2>1, <2>2, <2>3 DEF StoppedIsOwed
  <1>3. CASE StopsHub(w)
    <2>1. CASE worker'[w].at = "started"
      BY <2>1, OwesBoth DEF OwesHub
    <2>2. CASE worker'[w].at # "started"
      <3>1. Goes(w, "stop", "stopping") /\ hub_link_stop_asks
        BY <1>1, <1>3, <2>2, GoesOn DEF StopsHub, Ats
      <3>2. /\ worker'[w].at = "stopping" /\ worker[w].at = "stop"
            /\ \A v \in Workers : v # w => worker'[v] = worker[v]
        BY <1>1, <3>1, GoesOn DEF Ats
      <3>3. "stopping" \in OwesRelay /\ "stop" \notin OwesHub
        BY DEF OwesRelay, OwesHub, Ats
      <3>4. UNCHANGED <<rec, s_server, last_start, s_relay_paused>>
        BY <1>3, <3>1 DEF StopsHub, hub_link_stop_asks, onlyWorkers, session
      <3> QED
        BY <3>2, <3>3, <3>4, OwedKept
    <2> QED
      BY <2>1, <2>2
  <1>4. CASE Reports(w) \/ Begins(w) \/ Downloaded(w) \/ Finishes(w)
    <2>1. PICK from \in {"started", "begin", "download", "finish", "ok", "error"},
               to \in {"begin", "restart", "resume_hub", "error", "download", "finish", "ok"} :
            Goes(w, from, to)
      BY <1>4 DEF Reports, Begins, Downloaded, Finishes
    <2>2. worker'[w].at = to
      BY <1>1, <2>1, GoesOn DEF Ats
    <2> QED
      BY <2>2, OwesBoth DEF OwesHub
  <1>5. CASE esp_restart(w)
    BY <1>5 DEF esp_restart, Restart, StoppedIsOwed
  <1>6. CASE Writes(w)
    <2>1. UNCHANGED <<worker, rec, s_server, last_start, s_relay_paused>>
      BY <1>6 DEF Writes, onlyWorkers, session, hubVars, beaconVars
    <2> QED
      BY <2>1, OwedKept
  <1>7. CASE Goes(w, "resume_hub", "resume") /\ StartsHub /\ UNCHANGED s_relay_paused
    <2>1. /\ worker'[w].at = "resume"
          /\ \A v \in Workers : v # w => worker'[v] = worker[v]
      BY <1>1, <1>7, GoesOn DEF Ats
    <2>2. "resume" \in OwesRelay
      BY DEF OwesRelay, Ats
    <2>3. s_server' \/ last_start' = "fails"
      BY <1>7 DEF StartsHub, hub_link_start, hubVars
    <2> QED
      BY <2>1, <2>2, <2>3 DEF StoppedIsOwed
  <1>8. CASE /\ worker[w].at = "resume" /\ worker' = [worker EXCEPT ![w] = Idle]
             /\ s_relay_paused' = FALSE /\ UNCHANGED <<hubVars, faults>>
             /\ UNCHANGED onlyWorkers
    <2>1. \A v \in Workers : v # w => worker'[v] = worker[v]
      BY <1>1, <1>8 DEF WorkerTypes
    <2>2. "resume" \notin OwesHub
      BY DEF OwesHub
    <2>3. UNCHANGED <<rec, s_server, last_start>>
      BY <1>8 DEF onlyWorkers, session, hubVars, beaconVars
    <2> QED
      BY <1>8, <2>1, <2>2, <2>3 DEF StoppedIsOwed
  <1> QED
    BY <1>2, <1>3, <1>4, <1>5, <1>6, <1>7, <1>8 DEF OtaStep, Resumes

\* A new worker owes nothing yet; the end of a session changes no worker's place.
LEMMA SessionOwed ==
  ASSUME IInv, StoppedIsOwed, Session
  PROVE  StoppedIsOwed'
PROOF
  <1>1. /\ UNCHANGED <<s_relay_paused, s_server, last_start>> /\ rec # "off"
    BY DEF Session, ReceiveConnected, ReceiveDisconnected, ReceiveOther, ReceiveOta,
       ConnectTimesOut, TokenRunsOut, Receives, offDevice, hubVars, beaconVars
  <1>2. ASSUME NEW w \in Workers
        PROVE  worker'[w].at = worker[w].at \/ worker[w].at = "none"
    <2>1. worker[w] \in WorkerStates /\ worker \in [Workers -> WorkerStates]
      BY TypeParts DEF IInv, WorkerTypes
    <2>2. CASE ReceiveOta
      <3> DEFINE idle == {v \in Workers : worker[v].at = "none"}
                 new == CHOOSE v \in idle : TRUE
      <3>1. CASE UNCHANGED worker
        BY <3>1
      <3>2. CASE ~UNCHANGED worker
        <4>1. /\ idle # {}
              /\ worker' = [v \in Workers |->
                   IF v = new
                     THEN [at |-> "pause", live |-> TRUE, alone |-> idle = Workers]
                     ELSE [worker[v] EXCEPT !.alone = FALSE]]
          BY <2>2, <3>2 DEF ReceiveOta
        <4>2. new \in Workers /\ worker[new].at = "none"
          BY <4>1
        <4>3. w # new => worker'[w].at = worker[w].at
          BY <2>1, <4>1 DEF WorkerStates
        <4> QED
          BY <4>2, <4>3
      <3> QED
        BY <3>1, <3>2
    <2>3. CASE ReceiveDisconnected \/ ConnectTimesOut \/ TokenRunsOut
      <3>1. worker' = [v \in Workers |-> [worker[v] EXCEPT !.live = FALSE]]
        BY <2>3 DEF ReceiveDisconnected, ConnectTimesOut, TokenRunsOut, CloseSession
      <3> QED
        BY <2>1, <3>1 DEF WorkerStates
    <2>4. CASE ReceiveConnected \/ ReceiveOther
      BY <2>4 DEF ReceiveConnected, ReceiveOther, offDevice
    <2> QED
      BY <2>2, <2>3, <2>4 DEF Session
  <1>3. "none" \notin OwesRelay /\ "none" \notin OwesHub
    BY DEF OwesRelay, OwesHub
  <1> QED
    BY <1>1, <1>2, <1>3, OwedKept

LEMMA NextOwed == IInv /\ StoppedIsOwed /\ [Next]_vars => StoppedIsOwed'
PROOF
  <1> SUFFICES ASSUME IInv, StoppedIsOwed, [Next]_vars PROVE StoppedIsOwed'
    OBVIOUS
  <1>1. CASE Outage
    BY <1>1 DEF Outage, Restart, StoppedIsOwed
  <1>2. CASE app_main
    <2>1. s_server' \/ last_start' = "fails"
      BY <1>2 DEF app_main, StartsHub, hub_link_start, hubVars
    <2>2. UNCHANGED <<worker, s_relay_paused>>
      BY <1>2 DEF app_main
    <2> QED
      BY <2>1, <2>2 DEF StoppedIsOwed
  <1>3. CASE OpenSession \/ LinkUp \/ LinkLost \/ OtaCommand \/ OtherFrame \/ TimePasses
               \/ Beacons \/ UNCHANGED vars
    <2>1. UNCHANGED <<worker, s_relay_paused, s_server, last_start>>
      BY <1>3 DEF OpenSession, LinkUp, LinkLost, OtaCommand, OtherFrame, TimePasses, Beacons,
         BeaconLooks, BeaconLeaves, vars, offDevice, hubVars, beaconVars
    <2>2. rec' # "off" => rec # "off"
      BY <1>3 DEF OpenSession, LinkUp, LinkLost, OtaCommand, OtherFrame, TimePasses, Beacons,
         vars, session
    <2> QED
      BY <2>1, <2>2, OwedKept
  <1> QED
    BY <1>1, <1>2, <1>3, WorkerOwed, SessionOwed DEF Next

(* However many updates overlap, and whatever becomes of the session that  *)
(* began them: a relay that is paused, or a hub that is down although it   *)
(* could be started, is still owed by an update that has not ended, so     *)
(* that none of them leaves it behind (fail and ota_link_handle_command).  *)
THEOREM NothingIsLeftStopped == Spec => []StoppedIsOwed
PROOF
  <1>1. Init => StoppedIsOwed
    BY DEF Init, StoppedIsOwed
  <1> QED
    BY <1>1, NextOwed, AlwaysIInv, PTL DEF Spec
=============================================================================
