------------------------------- MODULE Viewer -------------------------------
(***************************************************************************)
(* One viewer of main/relay.c: what viewer_start opens step by step, the   *)
(* rtsp_rx_task it leaves behind, and viewer_close, which has to get that  *)
(* task out of the way before it frees what the task is using.             *)
(*                                                                         *)
(* Two FreeRTOS tasks run here, relay_task (phase) and rtsp_rx_task (rx).  *)
(* They share the event group (bits), the stop flag, the RTSP socket, the  *)
(* peer and the memory of the viewer_t itself.  The only thing that keeps  *)
(* viewer_close away from a running rtsp_rx_task is a race of timeouts, so *)
(* time is modelled: a step of the CPU is instantaneous, a blocking call   *)
(* lasts at most the number of ticks its timeout allows, and Tick lets one *)
(* tick pass when nobody has an instantaneous step to take.                *)
(***************************************************************************)
EXTENDS Integers

CONSTANTS RecvTimeout,  \* io->recv in rtsp_rx_task (1000 ms)
          FeedTime,     \* longest demux -> depacket -> esp_peer_send_video
          SendTimeout,  \* io->send of a keepalive (SO_SNDTIMEO, 10000 ms)
          CloseWait     \* xEventGroupWaitBits in viewer_close (2000 ms)

ASSUME TimeoutsAreTicks ==
  /\ RecvTimeout \in Nat
  /\ FeedTime \in Nat
  /\ SendTimeout \in Nat
  /\ CloseWait \in Nat

VARIABLES
  phase,        \* where relay_task is in viewer_start / viewer_close
  bits,         \* v->events
  peer,         \* v->peer # NULL
  rtsp,         \* v->rtsp # NULL
  rtsp_rx_task, \* v->rtsp_rx_task # NULL
  should_stop,  \* v->rtsp_rx_should_stop
  rx,           \* where rtsp_rx_task is, "none" when there is no such task
  rxLeft,       \* ticks its blocking call may still last
  waitLeft,     \* ticks relay_task may still wait for EVT_RTSP_RX_STOPPED
  has_sprop,    \* the camera's SDP carries sprop-parameter-sets
  first         \* the first frame esp_peer was given: "none", "sprop" or "au"

ownerVars == <<phase, peer, rtsp, rtsp_rx_task, should_stop, waitLeft, has_sprop>>
rxVars    == <<rx, rxLeft>>
vars      == <<ownerVars, rxVars, bits, first>>

Failures  == {"PEER_FAILED", "RTSP_ERROR"}
Bits      == Failures \cup {"RTSP_RX_STOPPED"}

Starting  == {"start_rtsp", "start_peer", "start_rx"}
Closing   == {"close", "wait", "close_peer", "close_rtsp", "free"}
\* "undefined": memory was freed under a task that uses it.
Phases    == {"none", "live", "undefined"} \cup Starting \cup Closing

RxBlocking == {"buffered", "recv", "feed", "send"}
RxInstant  == {"test", "keepalive", "exit"}
RxPlaces   == {"none"} \cup RxBlocking \cup RxInstant

\* The receive task exists: it may still touch the viewer.
RxRuns == rx # "none"

Init ==
  /\ phase = "none" /\ bits = {} /\ peer = FALSE /\ rtsp = FALSE
  /\ rtsp_rx_task = FALSE /\ should_stop = FALSE
  /\ rx = "none" /\ rxLeft = 0 /\ waitLeft = 0
  /\ has_sprop = FALSE /\ first = "none"

\* on_h264_au: a frame goes to esp_peer, unless there is no peer to take it.
GiveFrame(kind) ==
  first' = IF peer /\ first = "none" THEN kind ELSE first

-----------------------------------------------------------------------------
(* relay_task: viewer_start *)

\* calloc clears the viewer; the event group is new.
ViewerStart ==
  /\ phase = "none"
  /\ phase' = "start_rtsp"
  /\ bits' = {} /\ should_stop' = FALSE /\ first' = "none"
  /\ has_sprop' \in BOOLEAN
  /\ UNCHANGED <<peer, rtsp, rtsp_rx_task, waitLeft, rxVars>>

StartRtspOk ==
  /\ phase = "start_rtsp"
  /\ phase' = "start_peer"
  /\ rtsp' = TRUE
  /\ IF has_sprop THEN GiveFrame("sprop") ELSE UNCHANGED first
  /\ UNCHANGED <<bits, peer, rtsp_rx_task, should_stop, waitLeft, has_sprop, rxVars>>

\* Refused before there is a client, or at PLAY or malloc with one.  A viewer
\* that cannot be allocated ends like one that was refused a client.
StartRtspFails ==
  /\ phase = "start_rtsp"
  /\ phase' = "close"
  /\ rtsp' \in BOOLEAN
  /\ UNCHANGED <<bits, peer, rtsp_rx_task, should_stop, waitLeft, has_sprop, first, rxVars>>

\* esp_peer may already call back on_peer_state or on_peer_msg.
StartPeerOk ==
  /\ phase = "start_peer"
  /\ phase' = "start_rx"
  /\ peer' = TRUE
  /\ bits' \in {bits, bits \cup {"PEER_FAILED"}}
  /\ UNCHANGED <<rtsp, rtsp_rx_task, should_stop, waitLeft, has_sprop, first, rxVars>>

\* esp_peer_open fails, or esp_peer_new_connection with the peer open.
StartPeerFails ==
  /\ phase = "start_peer"
  /\ phase' = "close"
  /\ peer' \in BOOLEAN
  /\ UNCHANGED <<bits, rtsp, rtsp_rx_task, should_stop, waitLeft, has_sprop, first, rxVars>>

\* Mutant: the handle of the new task is not kept.
StartRxOk_NoHandle ==
  /\ phase = "start_rx"
  /\ phase' = "live"
  /\ rx' = "buffered" /\ rxLeft' = FeedTime
  /\ UNCHANGED <<bits, peer, rtsp, rtsp_rx_task, should_stop, waitLeft, has_sprop, first>>

StartRxOk ==
  /\ phase = "start_rx"
  /\ phase' = "live"
  /\ rtsp_rx_task' = TRUE
  /\ rx' = "buffered" /\ rxLeft' = FeedTime
  /\ UNCHANGED <<bits, peer, rtsp, should_stop, waitLeft, has_sprop, first>>

StartRxFails ==
  /\ phase = "start_rx"
  /\ phase' = "close"
  /\ UNCHANGED <<bits, peer, rtsp, rtsp_rx_task, should_stop, waitLeft, has_sprop, first, rxVars>>

-----------------------------------------------------------------------------
(* relay_task: a live viewer *)

\* esp_peer_main_loop reports a failed peer, or refuses the answer.
PeerFails ==
  /\ phase = "live"
  /\ bits' = bits \cup {"PEER_FAILED"}
  /\ UNCHANGED <<ownerVars, rxVars, first>>

\* Mutant: only the peer is watched.
CloseOnFailure_PeerOnly ==
  /\ phase = "live"
  /\ "PEER_FAILED" \in bits
  /\ phase' = "close"
  /\ UNCHANGED <<bits, peer, rtsp, rtsp_rx_task, should_stop, waitLeft, has_sprop, first, rxVars>>

\* The session loop sees a failure bit and closes the viewer.
CloseOnFailure ==
  /\ phase = "live"
  /\ bits \cap Failures # {}
  /\ phase' = "close"
  /\ UNCHANGED <<bits, peer, rtsp, rtsp_rx_task, should_stop, waitLeft, has_sprop, first, rxVars>>

\* The admin left, the signaling session ends, or an OTA pauses the relay.
CloseByOwner ==
  /\ phase = "live"
  /\ phase' = "close"
  /\ UNCHANGED <<bits, peer, rtsp, rtsp_rx_task, should_stop, waitLeft, has_sprop, first, rxVars>>

-----------------------------------------------------------------------------
(* relay_task: viewer_close *)

\* Mutant: the stop flag is not raised.
CloseAsksRxToStop_NoFlag ==
  /\ phase = "close"
  /\ rtsp_rx_task
  /\ phase' = "wait"
  /\ waitLeft' = CloseWait
  /\ UNCHANGED <<bits, peer, rtsp, rtsp_rx_task, should_stop, has_sprop, first, rxVars>>

CloseAsksRxToStop ==
  /\ phase = "close"
  /\ rtsp_rx_task
  /\ phase' = "wait"
  /\ should_stop' = TRUE
  /\ waitLeft' = CloseWait
  /\ UNCHANGED <<bits, peer, rtsp, rtsp_rx_task, has_sprop, first, rxVars>>

CloseWithoutRx ==
  /\ phase = "close"
  /\ ~rtsp_rx_task
  /\ phase' = "close_peer"
  /\ UNCHANGED <<bits, peer, rtsp, rtsp_rx_task, should_stop, waitLeft, has_sprop, first, rxVars>>

\* Mutant: the wait is for any bit of the event group.
CloseWaitEnds_AnyBit ==
  /\ phase = "wait"
  /\ bits # {} \/ waitLeft = 0
  /\ phase' = "close_peer"
  /\ bits' = bits \ {"RTSP_RX_STOPPED"}
  /\ rtsp_rx_task' = FALSE /\ waitLeft' = 0
  /\ UNCHANGED <<peer, rtsp, should_stop, has_sprop, first, rxVars>>

\* xEventGroupWaitBits returns; its result is not looked at.
CloseWaitEnds ==
  /\ phase = "wait"
  /\ "RTSP_RX_STOPPED" \in bits \/ waitLeft = 0
  /\ phase' = "close_peer"
  /\ bits' = bits \ {"RTSP_RX_STOPPED"}
  /\ rtsp_rx_task' = FALSE /\ waitLeft' = 0
  /\ UNCHANGED <<peer, rtsp, should_stop, has_sprop, first, rxVars>>

\* esp_peer_close calls on_peer_state(CLOSED) back.
ClosePeer ==
  /\ phase = "close_peer"
  /\ phase' = "close_rtsp"
  /\ peer' = FALSE
  /\ bits' \in IF peer THEN {bits, bits \cup {"PEER_FAILED"}} ELSE {bits}
  /\ UNCHANGED <<rtsp, rtsp_rx_task, should_stop, waitLeft, has_sprop, first, rxVars>>

CloseRtsp ==
  /\ phase = "close_rtsp"
  /\ phase' = "free"
  /\ rtsp' = FALSE
  /\ UNCHANGED <<bits, peer, rtsp_rx_task, should_stop, waitLeft, has_sprop, first, rxVars>>

FreeViewer ==
  /\ phase = "free"
  /\ phase' = IF RxRuns THEN "undefined" ELSE "none"
  /\ UNCHANGED <<bits, peer, rtsp, rtsp_rx_task, should_stop, waitLeft, has_sprop, first, rxVars>>

-----------------------------------------------------------------------------
(* rtsp_rx_task *)

RxGoes(from, to, ticks) ==
  /\ phase # "undefined"
  /\ rx = from
  /\ rx' = to
  /\ rxLeft' = ticks
  /\ UNCHANGED ownerVars

\* What PLAY had read too far is demultiplexed first.
RxBuffered ==
  /\ RxGoes("buffered", "test", 0)
  /\ GiveFrame("au") \/ UNCHANGED first
  /\ UNCHANGED bits

RxContinues ==
  /\ ~should_stop
  /\ RxGoes("test", "recv", RecvTimeout)
  /\ UNCHANGED <<bits, first>>

RxStops ==
  /\ should_stop
  /\ RxGoes("test", "exit", 0)
  /\ UNCHANGED <<bits, first>>

RxReceives ==
  /\ RxGoes("recv", "feed", FeedTime)
  /\ UNCHANGED <<bits, first>>

RxQuiet ==
  /\ rxLeft = 0
  /\ RxGoes("recv", "keepalive", 0)
  /\ UNCHANGED <<bits, first>>

RxLosesCamera ==
  /\ RxGoes("recv", "exit", 0)
  /\ bits' = bits \cup {"RTSP_ERROR"}
  /\ UNCHANGED first

RxFeeds ==
  /\ RxGoes("feed", "keepalive", 0)
  /\ GiveFrame("au") \/ UNCHANGED first
  /\ UNCHANGED bits

\* Half of the session timeout has passed since the last keepalive.
RxSendsKeepalive ==
  /\ RxGoes("keepalive", "send", SendTimeout)
  /\ UNCHANGED <<bits, first>>

RxSkipsKeepalive ==
  /\ RxGoes("keepalive", "test", 0)
  /\ UNCHANGED <<bits, first>>

\* The result of rtsp_client_send_keepalive is ignored.
RxKeepaliveSent ==
  /\ RxGoes("send", "test", 0)
  /\ UNCHANGED <<bits, first>>

\* Its last access to the viewer.
RxExits ==
  /\ RxGoes("exit", "none", 0)
  /\ bits' = bits \cup {"RTSP_RX_STOPPED"}
  /\ UNCHANGED first

-----------------------------------------------------------------------------
(* Time *)

OneLess(n) == IF n > 0 THEN n - 1 ELSE 0

\* No blocking call outlasts its timeout, no instantaneous step is late.
Tick ==
  /\ phase # "undefined"
  /\ phase = "wait" \/ rx \in RxBlocking
  /\ rx \notin RxInstant
  /\ rx \in RxBlocking => rxLeft > 0
  /\ phase = "wait" => waitLeft > 0 /\ "RTSP_RX_STOPPED" \notin bits
  /\ rxLeft' = OneLess(rxLeft)
  /\ waitLeft' = OneLess(waitLeft)
  /\ UNCHANGED <<phase, bits, peer, rtsp, rtsp_rx_task, should_stop, rx, has_sprop, first>>

StartStep ==
  \/ StartRtspOk \/ StartRtspFails
  \/ StartPeerOk \/ StartPeerFails
  \/ StartRxOk \/ StartRxFails

CloseStep ==
  \/ CloseAsksRxToStop \/ CloseWithoutRx \/ CloseWaitEnds
  \/ ClosePeer \/ CloseRtsp \/ FreeViewer

RelayTask ==
  \/ ViewerStart \/ StartStep
  \/ PeerFails \/ CloseOnFailure \/ CloseByOwner
  \/ CloseStep

RxTask ==
  \/ RxBuffered \/ RxContinues \/ RxStops
  \/ RxReceives \/ RxQuiet \/ RxLosesCamera \/ RxFeeds
  \/ RxSendsKeepalive \/ RxSkipsKeepalive \/ RxKeepaliveSent
  \/ RxExits

Next == RelayTask \/ RxTask \/ Tick

Spec == Init /\ [][Next]_vars

(* viewer_start and viewer_close run to their end, the session loop looks  *)
(* at the bits every 10 ms, the scheduler lets rtsp_rx_task run (it has    *)
(* relay_task's priority) and time passes.                                 *)
Fairness ==
  /\ WF_vars(StartStep)
  /\ WF_vars(CloseOnFailure)
  /\ WF_vars(CloseStep)
  /\ WF_vars(RxTask)
  /\ WF_vars(Tick)

FairSpec == Spec /\ Fairness

-----------------------------------------------------------------------------
(* Properties *)

\* Every variable of the viewer keeps to its range.
TypeOK ==
  /\ phase \in Phases
  /\ bits \subseteq Bits
  /\ peer \in BOOLEAN
  /\ rtsp \in BOOLEAN
  /\ rtsp_rx_task \in BOOLEAN
  /\ should_stop \in BOOLEAN
  /\ rx \in RxPlaces
  /\ rxLeft \in Nat
  /\ waitLeft \in Nat
  /\ has_sprop \in BOOLEAN
  /\ first \in {"none", "sprop", "au"}

(* While rtsp_rx_task runs, what it uses is there: the RTSP client whose   *)
(* socket it reads, the peer it feeds, and the viewer_t they hang from.    *)
(* viewer_close waits for the task for this reason ("io->close と recv の  *)
(* 競合を避ける", relay.c:337-339).                                        *)
RxOwnsViewer ==
  RxRuns => rtsp /\ peer /\ phase \in {"live", "close", "wait"}

(* A viewer whose camera connection broke, or whose peer failed, is closed *)
(* and freed by the session loop without anybody asking.                   *)
FailureFreesViewer ==
  bits \cap Failures # {} /\ phase # "none" ~> phase = "none"

(* viewer_close always returns, with everything the viewer owned released. *)
CloseReturns ==
  phase = "close" ~> phase = "none" /\ ~peer /\ ~rtsp /\ ~RxRuns

(* The sprop-parameter-sets of the SDP are the first frame the peer gets   *)
(* ("SDPのsprop-parameter-setsを最初のフレームとして先出しする",           *)
(* relay.c:268).                                                           *)
SpropFirst == has_sprop => first \in {"none", "sprop"}

-----------------------------------------------------------------------------
(* What the wait of viewer_close is long enough for *)

(* The longest rtsp_rx_task can still take, once told to stop, before it   *)
(* raises EVT_RTSP_RX_STOPPED: the flag is only read at the loop head, so  *)
(* a receive in progress is still followed by its feed and by a keepalive. *)
RxBudget ==
  CASE rx = "recv" -> rxLeft + FeedTime + SendTimeout
    [] rx = "feed" -> rxLeft + SendTimeout
    [] rx = "keepalive" -> SendTimeout
    [] rx \in {"buffered", "send"} -> rxLeft
    [] OTHER -> 0

\* The same without the keepalive.
StreamBudget ==
  CASE rx = "recv" -> rxLeft + FeedTime
    [] rx \in {"buffered", "feed"} -> rxLeft
    [] OTHER -> 0

(* What relay.c:337-339 has in mind: a receive and its feed are over       *)
(* before viewer_close gives up (1000 ms, 2000 ms).                        *)
StreamIsShort == RecvTimeout + FeedTime < CloseWait

\* So is a keepalive after them; not with the 10 s the code gives its send.
WaitIsLongEnough == RecvTimeout + FeedTime + SendTimeout < CloseWait

CallsAreBounded ==
  /\ rx \in {"buffered", "feed"} => rxLeft <= FeedTime
  /\ rx = "recv" => rxLeft <= RecvTimeout
  /\ rx = "send" => rxLeft <= SendTimeout

OwnedByPhase ==
  /\ phase \in {"none"} \cup Starting => ~RxRuns /\ ~rtsp_rx_task
  /\ phase \in {"none", "start_rtsp"} => ~rtsp /\ ~peer
  /\ phase = "start_peer" => rtsp /\ ~peer
  /\ phase = "start_rx" => rtsp /\ peer
  /\ phase \in {"live", "wait"} => rtsp_rx_task
  /\ rtsp_rx_task => rtsp /\ peer /\ phase \in {"live", "close", "wait"}
  /\ phase = "close_rtsp" => ~peer
  /\ phase = "free" => ~peer /\ ~rtsp

\* A task whose handle is gone was told to stop.
RxIsKnown ==
  /\ RxRuns /\ ~rtsp_rx_task =>
       should_stop /\ phase \in {"close_peer", "close_rtsp", "free", "undefined"}
  /\ "RTSP_RX_STOPPED" \in bits => ~RxRuns /\ phase \notin Starting

\* The task leaves its loop only when it is told to or has lost the camera.
EndHasReason ==
  /\ rx = "exit" => should_stop \/ "RTSP_ERROR" \in bits
  /\ should_stop => phase \notin Starting \cup {"live"}
  /\ phase = "wait" => should_stop

\* Whatever the timeouts are.
Base ==
  TypeOK /\ CallsAreBounded /\ OwnedByPhase /\ RxIsKnown /\ EndHasReason

\* When a receive and its feed are short.
Timely ==
  /\ phase = "wait" /\ RxRuns =>
       /\ rx \in {"buffered", "recv", "feed", "keepalive"} => StreamBudget < waitLeft
       /\ WaitIsLongEnough => RxBudget < waitLeft
  /\ RxRuns /\ ~rtsp_rx_task =>
       ~WaitIsLongEnough /\ rx \in {"send", "test", "exit"}

-----------------------------------------------------------------------------
(* The viewer keeps the contract its owner relies on. *)

VStateOf(p) ==
  CASE p \in Starting -> "starting"
    [] p \in Closing  -> "closing"
    [] p = "live"     -> "live"
    [] OTHER          -> "none"

Contract == INSTANCE ViewerContract WITH
  vstate    <- VStateOf(phase),
  receiving <- RxRuns,
  failed    <- bits \cap Failures # {}

(* Every step of the detailed viewer is a step the owner expects, or one   *)
(* it cannot see; in particular viewer_close never returns with            *)
(* rtsp_rx_task alive.                                                     *)
KeepsContract == Contract!ViewerSpec
=============================================================================
