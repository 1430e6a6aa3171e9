---------------------------- MODULE RelaySession ----------------------------
(***************************************************************************)
(* relay_task of main/relay.c: the endless loop that keeps one signaling   *)
(* session open, the session's event loop (run_signaling_session), and the *)
(* queue through which the WebSocket event task of main/signaling_client.c *)
(* talks to it.  The viewer it starts and closes is the one promised by    *)
(* ViewerContract.                                                         *)
(*                                                                         *)
(* pc is the place of relay_task, one value for each place where another   *)
(* task can get in between: its calls of viewer_start and viewer_close     *)
(* block for seconds while the event task goes on filling the queue.       *)
(* Deadlines are modelled by whether they have passed (connect_late,       *)
(* retry_due, token_due), with an action that makes each of them pass.     *)
(* The signaling server, the admin's browser and the OTA worker are the    *)
(* environment: faults and moves bound what they may do.                   *)
(***************************************************************************)
EXTENDS ViewerContract, Naturals, Sequences

CONSTANTS
  QueueCap,        \* length of the session's queue (16 in the code)
  MinBackoff,      \* RECONNECT_MIN_BACKOFF_MS = PEER_RETRY_MIN_BACKOFF_MS
  MaxBackoff,      \* RECONNECT_MAX_BACKOFF_MS = PEER_RETRY_MAX_BACKOFF_MS
  MaxFaults,       \* bound: failures of the network, the camera, the peer
  MaxMoves         \* bound: comings and goings of the admin, pauses, errors

ASSUME RelayAssumption ==
  /\ QueueCap \in Nat \ {0}
  /\ MinBackoff \in Nat \ {0}
  /\ MaxBackoff \in Nat
  /\ MinBackoff <= MaxBackoff
  /\ MaxFaults \in Nat
  /\ MaxMoves \in Nat

VARIABLES
  \* relay_task
  s_relay_paused,
  pc,
  after,           \* where it goes on when viewer_start or viewer_close returns
  backoff,         \* backoff_ms
  \* run_signaling_session
  has_q,           \* the queue exists
  q,               \* its messages
  ws,              \* the WebSocket of the signaling client
  signaling_up,
  connected_once,  \* at the end of a session: what it returns
  connect_late,    \* connect_deadline_us has passed
  token_due,       \* token_expiry_us has passed
  admin_present,
  retry_due,       \* peer_retry_deadline_us has passed
  peer_retry_backoff,
  offered,         \* the viewer has sent its offer
  \* the environment
  admin,           \* the admin is in the signaling room
  greeting,        \* the room has yet to announce the admin to a new device
  answer,          \* offer the admin has yet to answer: whose it is
  faults, moves,   \* what is left of the bounds
  \* history, for the properties
  dropped,         \* the session lost a message to a full queue
  cooling          \* an attempt failed and its backoff has not passed

relayVars   == <<s_relay_paused, pc, after, backoff>>
retryVars   == <<retry_due, peer_retry_backoff>>
sessionVars == <<signaling_up, connected_once, connect_late, token_due,
                 admin_present, retryVars>>
queueVars   == <<has_q, q>>
outsideVars == <<admin, greeting, answer>>
boundVars   == <<faults, moves>>
elsewhere   == <<sessionVars, queueVars, ws, viewerVars, offered, outsideVars,
                 boundVars, dropped, cooling>>
vars == <<relayVars, elsewhere>>

Msgs == {"CONNECTED", "DISCONNECTED", "PEER_JOINED_ADMIN", "PEER_LEFT_ADMIN",
         "SDP_ANSWER", "STALE_SDP_ANSWER", "SERVER_ERROR"}

Pcs == {"outer", "open", "head", "recv", "deadline", "pump", "bits", "retry", "token",
        "start", "close", "close_sig", "delete_q", "returned", "delay"}

Init ==
  /\ ViewerInit
  /\ s_relay_paused = FALSE /\ pc = "outer" /\ after = "head"
  /\ backoff = MinBackoff
  /\ has_q = FALSE /\ q = <<>> /\ ws = "none"
  /\ signaling_up = FALSE /\ connected_once = FALSE
  /\ connect_late = FALSE /\ token_due = FALSE
  /\ admin_present = FALSE /\ retry_due = TRUE
  /\ peer_retry_backoff = MinBackoff
  /\ offered = FALSE
  /\ admin = FALSE /\ greeting = FALSE /\ answer = "none"
  /\ faults = MaxFaults /\ moves = MaxMoves
  /\ dropped = FALSE /\ cooling = "no"

\* Mutant: no upper limit.
Doubled_NoLimit(ms) == ms * 2

Doubled(ms) == IF ms * 2 < MaxBackoff THEN ms * 2 ELSE MaxBackoff

Goto(place) == pc' = place /\ UNCHANGED <<s_relay_paused, after, backoff>>

\* relay_task goes on, and nothing else changes.
Passes(from, to) == pc = from /\ Goto(to) /\ UNCHANGED elsewhere

Call(place, next) ==
  pc' = place /\ after' = next /\ UNCHANGED <<s_relay_paused, backoff>>

Fault == faults > 0 /\ faults' = faults - 1 /\ UNCHANGED moves
Move  == moves > 0 /\ moves' = moves - 1 /\ UNCHANGED faults

-----------------------------------------------------------------------------
(* The queue.  An answer is named after the viewer whose offer it answers: *)
(* when that viewer is gone, the answers on their way are stale.  The code *)
(* cannot tell them apart.                                                 *)

\* enqueue: a full queue drops the message.
Enqueue(m) ==
  /\ IF Len(q) < QueueCap
       THEN q' = Append(q, m) /\ UNCHANGED dropped
       ELSE dropped' = TRUE /\ UNCHANGED q
  /\ UNCHANGED has_q

Outdate(m) == IF m = "SDP_ANSWER" THEN "STALE_SDP_ANSWER" ELSE m

AnswersGoStale ==
  /\ q' = [i \in DOMAIN q |-> Outdate(q[i])]
  /\ answer' = IF answer = "current" THEN "stale" ELSE answer
  /\ UNCHANGED <<has_q, admin, greeting>>

-----------------------------------------------------------------------------
(* relay_task, outside of a session *)

\* While paused the loop only sleeps.
OuterLoop ==
  /\ ~s_relay_paused
  /\ Passes("outer", "open")

\* Queue, token and connection: the event task exists from here on.
OpenSession ==
  /\ pc = "open"
  /\ Goto("head")
  /\ has_q' = TRUE /\ q' = <<>> /\ ws' = "connecting"
  /\ signaling_up' = FALSE /\ connected_once' = FALSE
  /\ connect_late' = FALSE /\ token_due' = FALSE
  /\ admin_present' = FALSE /\ retry_due' = TRUE
  /\ peer_retry_backoff' = MinBackoff
  /\ dropped' = FALSE /\ cooling' = "no"
  /\ UNCHANGED <<viewerVars, offered, outsideVars, boundVars>>

\* No queue, no site_id, or signaling_client_connect fails.
OpenFails ==
  /\ pc = "open"
  /\ Fault
  /\ Goto("returned")
  /\ connected_once' = FALSE
  /\ UNCHANGED <<signaling_up, connect_late, token_due, admin_present, retryVars,
                 queueVars, ws, viewerVars, offered, outsideVars, dropped, cooling>>

SessionReturns ==
  /\ pc = "returned"
  /\ pc' = "delay"
  /\ backoff' = IF connected_once THEN MinBackoff ELSE backoff
  /\ UNCHANGED <<s_relay_paused, after, elsewhere>>

DelayEnds ==
  /\ pc = "delay"
  /\ pc' = "outer"
  /\ backoff' = Doubled(backoff)
  /\ UNCHANGED <<s_relay_paused, after, elsewhere>>

-----------------------------------------------------------------------------
(* How a session ends: viewer, then WebSocket, then queue *)

\* viewer_close(v), and what follows it; v may be NULL.
CloseViewerThen(next) ==
  IF vstate = "live"
    THEN BeginClose /\ Call("close", next)
    ELSE UNCHANGED viewerVars /\ Goto(next)

\* Mutant: the viewer is forgotten.
EndSession_LeavesViewer(result) ==
  /\ UNCHANGED viewerVars
  /\ Goto("close_sig")
  /\ connected_once' = result
  /\ UNCHANGED <<signaling_up, connect_late, token_due, admin_present, retryVars>>

EndSession(result) ==
  /\ CloseViewerThen("close_sig")
  /\ connected_once' = result
  /\ UNCHANGED <<signaling_up, connect_late, token_due, admin_present, retryVars>>

\* Mutant: the backoff is doubled, but the deadline stays where it was.
ArmRetry_OldDeadline ==
  /\ peer_retry_backoff' = Doubled(peer_retry_backoff)
  /\ cooling' = "after_viewer"
  /\ UNCHANGED <<signaling_up, connected_once, connect_late, token_due, admin_present,
                 retry_due>>

\* A viewer of an admin who is still there failed, or a retry of it did.
ArmRetry ==
  /\ retry_due' = FALSE
  /\ peer_retry_backoff' = Doubled(peer_retry_backoff)
  /\ cooling' = "after_viewer"
  /\ UNCHANGED <<signaling_up, connected_once, connect_late, token_due, admin_present>>

CloseSignaling ==
  /\ pc = "close_sig"
  /\ ws' = "none"
  /\ greeting' = FALSE
  /\ Goto("delete_q")
  /\ UNCHANGED <<sessionVars, queueVars, viewerVars, offered, admin, answer, boundVars,
                 dropped, cooling>>

DeleteQueue ==
  /\ pc = "delete_q"
  /\ has_q' = FALSE /\ q' = <<>>
  /\ Goto("returned")
  /\ UNCHANGED <<sessionVars, ws, viewerVars, offered, outsideVars, boundVars,
                 dropped, cooling>>
-----------------------------------------------------------------------------
(* run_signaling_session: the head of the loop and the queue *)

PauseEndsSession ==
  /\ pc = "head"
  /\ s_relay_paused
  /\ EndSession(TRUE)
  /\ UNCHANGED <<queueVars, ws, offered, outsideVars, boundVars, dropped, cooling>>

\* Mutant: the loop may go on although it is paused.
LoopHead_Unpausable == Passes("head", "recv")

LoopHead ==
  /\ ~s_relay_paused
  /\ Passes("head", "recv")

ReceiveNothing ==
  /\ q = <<>>
  /\ Passes("recv", "deadline")

Receive(m) ==
  /\ pc = "recv"
  /\ q # <<>>
  /\ Head(q) = m
  /\ q' = Tail(q)
  /\ UNCHANGED <<has_q, ws, offered, outsideVars, boundVars, dropped>>

HandleConnected ==
  /\ Receive("CONNECTED")
  /\ signaling_up' = TRUE
  /\ connected_once' = TRUE
  /\ Goto("deadline")
  /\ UNCHANGED <<connect_late, token_due, admin_present, retryVars,
                 viewerVars, cooling>>

\* Mutant: the loss of the connection is only logged.
HandleDisconnected_OnlyLogs ==
  /\ Receive("DISCONNECTED")
  /\ Goto("deadline")
  /\ UNCHANGED <<sessionVars, viewerVars, cooling>>

HandleDisconnected ==
  /\ Receive("DISCONNECTED")
  /\ EndSession(connected_once)
  /\ UNCHANGED cooling

\* Mutant: the presence of the admin is not remembered.
HandleJoined_Forgets ==
  /\ Receive("PEER_JOINED_ADMIN")
  /\ peer_retry_backoff' = MinBackoff
  /\ IF vstate = "none"
       THEN BeginStart /\ Call("start", "deadline")
       ELSE UNCHANGED viewerVars /\ Goto("deadline")
  /\ cooling' = "no"
  /\ UNCHANGED <<signaling_up, connected_once, connect_late, token_due, admin_present,
                 retry_due>>

\* A viewer that is already there goes on.
HandleJoined ==
  /\ Receive("PEER_JOINED_ADMIN")
  /\ admin_present' = TRUE
  /\ peer_retry_backoff' = MinBackoff
  /\ IF vstate = "none"
       THEN BeginStart /\ Call("start", "deadline")
       ELSE UNCHANGED viewerVars /\ Goto("deadline")
  /\ cooling' = "no"
  /\ UNCHANGED <<signaling_up, connected_once, connect_late, token_due, retry_due>>

\* Mutant: the viewer is left running.
HandleLeft_KeepsViewer ==
  /\ Receive("PEER_LEFT_ADMIN")
  /\ admin_present' = FALSE
  /\ Goto("deadline")
  /\ UNCHANGED <<signaling_up, connected_once, connect_late, token_due, retryVars,
                 viewerVars, cooling>>

HandleLeft ==
  /\ Receive("PEER_LEFT_ADMIN")
  /\ admin_present' = FALSE
  /\ CloseViewerThen("deadline")
  /\ UNCHANGED <<signaling_up, connected_once, connect_late, token_due, retryVars, cooling>>

\* esp_peer may refuse the answer; without a viewer it is dropped.
HandleAnswer ==
  /\ Receive("SDP_ANSWER") \/ Receive("STALE_SDP_ANSWER")
  /\ UNCHANGED viewerVars \/ (vstate = "live" /\ ViewerFails)
  /\ Goto("deadline")
  /\ UNCHANGED <<sessionVars, cooling>>

HandleServerError ==
  /\ Receive("SERVER_ERROR")
  /\ Goto("deadline")
  /\ UNCHANGED <<sessionVars, viewerVars, cooling>>

-----------------------------------------------------------------------------
(* run_signaling_session: the rest of an iteration *)

ConnectTimesOut ==
  /\ pc = "deadline"
  /\ ~signaling_up /\ connect_late
  /\ EndSession(connected_once)
  /\ UNCHANGED <<queueVars, ws, offered, outsideVars, boundVars, dropped, cooling>>

ConnectInTime ==
  /\ signaling_up \/ ~connect_late
  /\ Passes("deadline", IF vstate = "live" THEN "pump" ELSE "retry")

(* esp_peer_main_loop comes to the local SDP: on_peer_msg sends the offer, *)
(* and fails the peer when the WebSocket does not take it.                 *)
PumpSendsOffer ==
  /\ pc = "pump"
  /\ ~offered
  /\ Goto("bits")
  /\ IF ws = "up"
       THEN /\ offered' = TRUE
            /\ answer' = IF admin THEN "current" ELSE answer
            /\ UNCHANGED viewerVars
       ELSE ViewerFails /\ UNCHANGED <<offered, answer>>
  /\ UNCHANGED <<sessionVars, queueVars, ws, admin, greeting, boundVars, dropped, cooling>>

PumpQuiet == Passes("pump", "bits")

ViewerIsFine ==
  /\ ~failed
  /\ Passes("bits", "retry")

ViewerHasFailed ==
  /\ pc = "bits"
  /\ failed
  /\ CloseViewerThen("retry")
  /\ UNCHANGED <<sessionVars, queueVars, ws, offered, outsideVars, boundVars, dropped,
                 cooling>>

RetryStartsViewer ==
  /\ pc = "retry"
  /\ vstate = "none" /\ admin_present /\ retry_due
  /\ BeginStart
  /\ Call("start", "token")
  /\ UNCHANGED <<sessionVars, queueVars, ws, offered, outsideVars, boundVars, dropped,
                 cooling>>

NothingToRetry ==
  /\ ~(vstate = "none" /\ admin_present /\ retry_due)
  /\ Passes("retry", "token")

\* With a viewer the renewal is put off.
TokenEndsSession ==
  /\ pc = "token"
  /\ signaling_up /\ vstate = "none" /\ token_due
  /\ EndSession(TRUE)
  /\ UNCHANGED <<queueVars, ws, offered, outsideVars, boundVars, dropped, cooling>>

TokenIsFine ==
  /\ ~(signaling_up /\ vstate = "none" /\ token_due)
  /\ Passes("token", "head")

-----------------------------------------------------------------------------
(* viewer_start and viewer_close return *)

StartGivesViewer ==
  /\ pc = "start"
  /\ StartSucceeds
  /\ offered' = FALSE
  /\ Goto(after)
  /\ UNCHANGED <<sessionVars, queueVars, ws, outsideVars, boundVars, dropped, cooling>>

\* The camera or the peer cannot be opened: viewer_start calls viewer_close.
StartGivesUp ==
  /\ pc = "start"
  /\ Fault
  /\ StartFails
  /\ UNCHANGED <<relayVars, sessionVars, queueVars, ws, offered, outsideVars, dropped,
                 cooling>>

\* Only the retry arms the next one.
StartGivesNothing ==
  /\ pc = "start"
  /\ EndClose
  /\ Goto(after)
  /\ IF after = "token" THEN ArmRetry ELSE UNCHANGED sessionVars /\ cooling' = "after_join"
  /\ UNCHANGED <<queueVars, ws, offered, outsideVars, boundVars, dropped>>

\* Mutant: with the viewer, what came in while it was closed is thrown away.
CloseReturns_Flushes ==
  /\ pc = "close"
  /\ EndClose
  /\ q' = <<>> /\ answer' = IF answer = "current" THEN "stale" ELSE answer
  /\ Goto(after)
  /\ IF after = "retry" /\ admin_present THEN ArmRetry ELSE UNCHANGED <<sessionVars, cooling>>
  /\ UNCHANGED <<has_q, admin, greeting, ws, offered, boundVars, dropped>>

\* After a failed viewer the next attempt is put off, if the admin is there.
CloseReturns ==
  /\ pc = "close"
  /\ EndClose
  /\ AnswersGoStale
  /\ Goto(after)
  /\ IF after = "retry" /\ admin_present THEN ArmRetry ELSE UNCHANGED <<sessionVars, cooling>>
  /\ UNCHANGED <<ws, offered, boundVars, dropped>>

-----------------------------------------------------------------------------
(* The viewer on its own *)

ViewerBreaks ==
  /\ Fault
  /\ vstate \in {"starting", "live"}
  /\ ViewerFails
  /\ UNCHANGED <<relayVars, sessionVars, queueVars, ws, offered, outsideVars, dropped,
                 cooling>>

\* Told to stop by viewer_close, or after raising EVT_RTSP_ERROR.
ReceiverStops ==
  /\ ReceiverEnds
  /\ UNCHANGED <<relayVars, sessionVars, queueVars, ws, offered, outsideVars, boundVars,
                 dropped, cooling>>

-----------------------------------------------------------------------------
(* The WebSocket event task and what makes it call: server and admin *)

WsConnects ==
  /\ ws = "connecting"
  /\ ws' = "up"
  /\ Enqueue("CONNECTED")
  /\ greeting' = admin
  /\ UNCHANGED <<relayVars, sessionVars, viewerVars, offered, admin, answer, boundVars,
                 cooling>>

\* ERROR and DISCONNECTED of one failure may both arrive.
WsBreaks ==
  /\ ws # "none"
  /\ Fault
  /\ ws' = "down"
  /\ Enqueue("DISCONNECTED")
  /\ greeting' = FALSE
  /\ UNCHANGED <<relayVars, sessionVars, viewerVars, offered, admin, answer, cooling>>

ToDevice(m) ==
  IF ws = "up" THEN Enqueue(m) ELSE UNCHANGED <<queueVars, dropped>>

\* The room tells a new device about the admin who was there before it.
RoomGreets ==
  /\ ws = "up" /\ greeting
  /\ Enqueue("PEER_JOINED_ADMIN")
  /\ greeting' = FALSE
  /\ UNCHANGED <<relayVars, sessionVars, ws, viewerVars, offered, admin, answer, boundVars,
                 cooling>>

AdminJoins ==
  /\ ~admin
  /\ Move
  /\ admin' = TRUE
  /\ ToDevice("PEER_JOINED_ADMIN")
  /\ UNCHANGED <<relayVars, sessionVars, ws, viewerVars, offered, greeting, answer, cooling>>

AdminLeaves ==
  /\ admin /\ ~greeting
  /\ Move
  /\ admin' = FALSE /\ answer' = "none"
  /\ ToDevice("PEER_LEFT_ADMIN")
  /\ UNCHANGED <<relayVars, sessionVars, ws, viewerVars, offered, greeting, cooling>>

AdminAnswers ==
  /\ ws = "up" /\ answer # "none"
  /\ Enqueue(IF answer = "current" THEN "SDP_ANSWER" ELSE "STALE_SDP_ANSWER")
  /\ answer' = "none"
  /\ UNCHANGED <<relayVars, sessionVars, ws, viewerVars, offered, admin, greeting, boundVars,
                 cooling>>

ServerReportsError ==
  /\ ws = "up"
  /\ Move
  /\ Enqueue("SERVER_ERROR")
  /\ UNCHANGED <<relayVars, sessionVars, ws, viewerVars, offered, outsideVars, cooling>>

-----------------------------------------------------------------------------
(* Time passes *)

ConnectDeadlinePasses ==
  /\ ws # "none" /\ ~connect_late
  /\ Fault
  /\ connect_late' = TRUE
  /\ UNCHANGED <<relayVars, signaling_up, connected_once, token_due, admin_present,
                 retryVars, queueVars, ws, viewerVars, offered,
                 outsideVars, dropped, cooling>>

\* A static token has no expiry; a minted one may be due at once.
TokenComesDue ==
  /\ ws # "none" /\ ~token_due
  /\ Fault
  /\ token_due' = TRUE
  /\ UNCHANGED <<relayVars, signaling_up, connected_once, connect_late, admin_present,
                 retryVars, queueVars, ws, viewerVars, offered,
                 outsideVars, dropped, cooling>>

RetryBackoffPasses ==
  /\ ~retry_due \/ cooling # "no"
  /\ retry_due' = TRUE
  /\ cooling' = "no"
  /\ UNCHANGED <<relayVars, signaling_up, connected_once, connect_late, token_due,
                 admin_present, peer_retry_backoff, queueVars, ws, viewerVars, offered,
                 outsideVars, boundVars, dropped>>

-----------------------------------------------------------------------------
(* relay_pause and relay_resume, called by the OTA worker *)

relay_pause ==
  /\ Move
  /\ s_relay_paused' = TRUE
  /\ UNCHANGED <<pc, after, backoff, sessionVars, queueVars, ws, viewerVars, offered,
                 outsideVars, dropped, cooling>>

relay_resume ==
  /\ s_relay_paused
  /\ s_relay_paused' = FALSE
  /\ UNCHANGED <<pc, after, backoff, elsewhere>>

-----------------------------------------------------------------------------
OutsideSession == OuterLoop \/ OpenSession \/ OpenFails \/ SessionReturns \/ DelayEnds

Handle ==
  \/ ReceiveNothing \/ HandleConnected \/ HandleDisconnected
  \/ HandleJoined \/ HandleLeft \/ HandleAnswer \/ HandleServerError

Iteration ==
  \/ PauseEndsSession \/ LoopHead \/ Handle
  \/ ConnectTimesOut \/ ConnectInTime
  \/ PumpSendsOffer \/ PumpQuiet \/ ViewerIsFine \/ ViewerHasFailed
  \/ RetryStartsViewer \/ NothingToRetry
  \/ TokenEndsSession \/ TokenIsFine

ViewerCalls == StartGivesViewer \/ StartGivesUp \/ StartGivesNothing \/ CloseReturns

RelayTask ==
  OutsideSession \/ Iteration \/ ViewerCalls \/ CloseSignaling \/ DeleteQueue

EventTask ==
  \/ WsConnects \/ WsBreaks \/ RoomGreets
  \/ AdminJoins \/ AdminLeaves \/ AdminAnswers \/ ServerReportsError

Time == ConnectDeadlinePasses \/ TokenComesDue \/ RetryBackoffPasses

Next ==
  \/ RelayTask
  \/ ViewerBreaks \/ ReceiverStops
  \/ EventTask \/ Time
  \/ relay_pause \/ relay_resume

Spec == Init /\ [][Next]_vars

(* relay_task is scheduled and none of its calls blocks for ever (each has *)
(* a timeout); a receive task that is told to stop does; deadlines pass; a *)
(* connection attempt that does not fail succeeds; the room greets; a peer *)
(* that is pumped again and again comes to its offer.                      *)
Fairness ==
  /\ WF_vars(RelayTask)
  /\ WF_vars(ReceiverStops)
  /\ WF_vars(RetryBackoffPasses)
  /\ WF_vars(WsConnects)
  /\ WF_vars(RoomGreets)
  /\ SF_vars(PumpSendsOffer)

FairSpec == Spec /\ Fairness

-----------------------------------------------------------------------------
(* Safety *)

\* The queue keeps to its capacity.
QueueOK == q \in Seq(Msgs) /\ Len(q) <= QueueCap

ViewerTypes == vstate \in VStates /\ receiving \in BOOLEAN /\ failed \in BOOLEAN

RelayTypes ==
  /\ s_relay_paused \in BOOLEAN
  /\ pc \in Pcs
  /\ after \in {"head", "deadline", "retry", "token", "close_sig"}
  /\ backoff \in MinBackoff..MaxBackoff

SessionTypes ==
  /\ has_q \in BOOLEAN
  /\ ws \in {"none", "connecting", "up", "down"}
  /\ signaling_up \in BOOLEAN /\ connected_once \in BOOLEAN
  /\ connect_late \in BOOLEAN /\ token_due \in BOOLEAN
  /\ admin_present \in BOOLEAN /\ retry_due \in BOOLEAN
  /\ peer_retry_backoff \in MinBackoff..MaxBackoff
  /\ offered \in BOOLEAN

OutsideTypes ==
  /\ admin \in BOOLEAN /\ greeting \in BOOLEAN
  /\ answer \in {"none", "current", "stale"}
  /\ faults \in 0..MaxFaults /\ moves \in 0..MaxMoves
  /\ dropped \in BOOLEAN /\ cooling \in {"no", "after_join", "after_viewer"}

\* Every variable keeps to its range, and the queue to its capacity.
TypeOK == ViewerTypes /\ RelayTypes /\ SessionTypes /\ OutsideTypes /\ QueueOK

(* The event task never outlives the queue it fills, and a viewer never    *)
(* outlives the signaling client it sends its offer with: every way out of *)
(* a session closes the three in that order.                               *)
OwnersOutlive ==
  /\ ws # "none" => has_q
  /\ vstate # "none" => ws # "none"

(* At the head of the session loop there is a viewer only for an admin who *)
(* has joined and not left; who is in the room, that is, when the link is  *)
(* up, nothing is left to read and nothing was lost to a full queue.       *)
ViewerNeedsAdmin ==
  pc = "head" /\ vstate # "none" =>
    /\ vstate = "live" /\ admin_present
    /\ ws = "up" /\ q = <<>> /\ ~dropped => admin

InLoop == {"head", "recv", "deadline", "pump", "bits", "retry", "token"}

\* The loop of a session that goes on, or a call it comes back from.
Listening == pc \in InLoop \cup {"start"} \/ (pc = "close" /\ after # "close_sig")

Holds(s, m) == \E i \in DOMAIN s : s[i] = m

\* admin_present as it will be when s has been read.
Told(s, known) ==
  \/ \E i \in DOMAIN s :
       /\ s[i] = "PEER_JOINED_ADMIN"
       /\ \A j \in DOMAIN s : i < j => s[j] # "PEER_LEFT_ADMIN"
  \/ known /\ ~Holds(s, "PEER_LEFT_ADMIN")

(* What the session knows of its link and of the room, with the messages   *)
(* it has yet to read, is how things are: nothing that happened is         *)
(* forgotten while a viewer is started or closed for seconds, unless the   *)
(* queue was full (relay.c:527-590, the queue of relay.c:483).             *)
SessionIsTold ==
  Listening /\ ~dropped =>
    /\ ws = "up" => signaling_up \/ Holds(q, "CONNECTED")
    /\ ws = "down" => Holds(q, "DISCONNECTED")
    /\ ws = "up" => (Told(q, admin_present) <=> admin /\ ~greeting)

(* After a viewer or a retry has failed, with the admin still there, the   *)
(* next attempt waits for the backoff (relay.c:508-509, alc-gw-p4#19).     *)
RetriesArePaced ==
  [][pc = "retry" /\ pc' = "start" => cooling # "after_viewer"]_vars

(* A viewer_start that failed at the admin's arrival is not repeated       *)
(* before peer_retry_deadline_us, or the next admin (relay.c:509, 546).    *)
JoinFailureIsPaced ==
  [][pc = "retry" /\ pc' = "start" => cooling # "after_join"]_vars

(* An answer given to a viewer answers that viewer's own offer             *)
(* (signaling_client.h:40-41).                                             *)
AnswerIsForThisOffer ==
  pc = "recv" /\ q # <<>> /\ Head(q) = "STALE_SDP_ANSWER" => vstate # "live"

-----------------------------------------------------------------------------
(* The inductive invariant behind the safety properties: what exists at    *)
(* each place of relay_task. *)

BetweenSessions == {"outer", "open", "returned", "delay"}

PlaceOfSession ==
  /\ pc \in BetweenSessions => ws = "none" /\ ~has_q
  /\ pc \in InLoop \cup {"start", "close", "close_sig"} => ws # "none" /\ has_q
  /\ pc = "delete_q" => ws = "none"

PlaceOfViewer ==
  /\ pc \in BetweenSessions \cup {"close_sig", "delete_q"} => vstate = "none"
  /\ pc \in InLoop => vstate \in {"none", "live"}
  /\ pc \in {"pump", "bits"} => vstate = "live"
  /\ pc = "start" => vstate \in {"starting", "closing"} /\ after \in {"deadline", "token"}
  /\ pc = "close" => vstate = "closing" /\ after \in {"deadline", "retry", "close_sig"}

AdminOfViewer ==
  pc \in InLoop \cup {"start"} /\ vstate # "none" => admin_present

CoolingIsArmed == cooling = "after_viewer" => ~retry_due

\* A live viewer whose receive task has ended is known to have failed.
EndIsTold == vstate = "live" => receiving \/ failed

\* The room greets a device that has connected, if there is an admin.
GreetingIsDue ==
  /\ greeting => ws = "up" /\ admin
  /\ Listening /\ ws = "connecting" => q = <<>> /\ ~admin_present

IInv ==
  /\ TypeOK
  /\ PlaceOfSession
  /\ PlaceOfViewer
  /\ AdminOfViewer
  /\ CoolingIsArmed

-----------------------------------------------------------------------------
(* Liveness.  A message lost to a full queue excuses the session: the code *)
(* has no other way to learn what it said.                                 *)

Idle == pc = "outer" /\ ws = "none" /\ ~has_q /\ vstate = "none"

\* A pause closes the session and idles the relay, wherever it was.
PauseTakesEffect == s_relay_paused ~> Idle \/ ~s_relay_paused

\* A lost WebSocket ends the session, so that the next one can be opened.
LostLinkEndsSession == ws = "down" ~> ws = "none" \/ dropped

\* An admin who stays gets a viewer and its offer, whatever failed before.
AdminIsServed ==
  admin ~> (vstate = "live" /\ offered) \/ ~admin \/ s_relay_paused \/ dropped

\* The camera is let go when the admin has left.
AdminGoneClosesViewer == ~admin ~> vstate = "none" \/ admin \/ dropped
=============================================================================
