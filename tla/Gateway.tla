------------------------------ MODULE Gateway ------------------------------
(***************************************************************************)
(* The firmware update of the gateway: the recorder session of             *)
(* main/recorder_link.c, the workers it starts for "ota" commands, what    *)
(* they do in main/ota_link.c (pause the relay, stop the hub, download,    *)
(* then restart, or bring everything back), the confirmation of a new      *)
(* image, and the restarts in between.                                     *)
(*                                                                         *)
(* A worker's at is the next call it makes.  The socket it reports on is   *)
(* that of the session that started it: live says whether that session     *)
(* still exists.  A report on a freed socket does nothing or crashes, and  *)
(* a crash is a restart like a power loss (Outage), possible at any time.  *)
(* The server, the network, the flash and the bootloader are external.     *)
(***************************************************************************)
EXTENDS HubServer, Sequences

CONSTANTS Workers,      \* OTA tasks
          QueueCap,     \* length of the session's queue (16 in the code)
          MaxCommands,  \* bound: "ota" commands
          MaxFaults,    \* bound: lost links, other frames, marks, starts and
                        \*   stops of the server that fail
          MaxOutages    \* bound: power losses and crashes

ASSUME GatewayAssumption ==
  /\ QueueCap \in Nat \ {0} /\ MaxCommands \in Nat
  /\ MaxFaults \in Nat /\ MaxOutages \in Nat

VARIABLES
  rec,              \* the recorder task: off, no session, one not up, one up
  overdue,          \* connect_deadline_us has passed; once up, token_expiry_us
  link, queue,      \* the WebSocket, the messages of its event task
  worker,
  s_relay_paused,
  confirmed,        \* ota_link_confirm_running_app was here
  running, boot,    \* the slot that runs, the slot to start
  image,            \* the two slots
  commands, faults, outages,            \* what is left of the bounds
  trial, proved, mark_failed            \* history of the present boot

session == <<rec, overdue, link, queue>>
slots == <<running, boot, image>>
bounds == <<commands, faults, outages>>
history == <<trial, proved, mark_failed>>
vars == <<hubVars, session, worker, s_relay_paused, confirmed, slots, bounds,
          history>>

Slots == {0, 1}
Other == 1 - running

Idle == [at |-> "none", live |-> FALSE, alone |-> FALSE]

Init ==
  /\ HubOff
  /\ rec = "off" /\ overdue = FALSE
  /\ link = "none" /\ queue = <<>>
  /\ worker = [w \in Workers |-> Idle]
  /\ s_relay_paused = FALSE /\ confirmed = FALSE
  /\ running = 0 /\ boot = 0
  /\ image = [s \in Slots |-> [state |-> IF s = 0 THEN "valid" ELSE "none",
                               whole |-> s = 0]]
  /\ commands = MaxCommands /\ faults = MaxFaults /\ outages = MaxOutages
  /\ trial = FALSE /\ proved = FALSE /\ mark_failed = FALSE

-----------------------------------------------------------------------------
(* Restarts.  The bootloader tries an image that is new, gives up one that *)
(* was on trial, and passes over what it cannot load.                      *)

Runs(s, state) ==
  /\ running' = s /\ boot' = s
  /\ image' = IF s = boot THEN [image EXCEPT ![s].state = state]
                          ELSE [image EXCEPT ![boot].state = "aborted"]
  /\ trial' = (state = "pending")

Bootloader ==
  /\ IF ~image[boot].whole \/ image[boot].state = "pending"
       THEN Runs(1 - boot, "valid")
       ELSE Runs(boot, IF image[boot].state = "new" THEN "pending" ELSE "valid")
  /\ proved' = FALSE /\ mark_failed' = FALSE

\* What was in RAM is gone.
Restart ==
  /\ Bootloader /\ HubLost
  /\ rec' = "off" /\ overdue' = FALSE
  /\ link' = "none" /\ queue' = <<>>
  /\ worker' = [w \in Workers |-> Idle]
  /\ s_relay_paused' = FALSE /\ confirmed' = FALSE

\* A power loss, or a crash.
Outage ==
  /\ rec # "off" /\ outages > 0 /\ outages' = outages - 1
  /\ Restart
  /\ UNCHANGED <<commands, faults>>

\* All goes well, or one fault more; over a server that would not stop it fails.
StartsHub ==
  \/ hub_link_start("ok") /\ UNCHANGED faults
  \/ ~s_server /\ leftover /\ hub_link_start("fails") /\ UNCHANGED faults
  \/ /\ ~s_server /\ faults > 0 /\ faults' = faults - 1
     /\ \E o \in StartOutcomes \ {"ok"} : hub_link_start(o)

\* The hub, then the recorder link.
app_main ==
  /\ rec = "off" /\ rec' = "idle"
  /\ StartsHub
  /\ UNCHANGED <<overdue, link, queue, worker, s_relay_paused, confirmed,
                 slots, commands, outages, history>>

-----------------------------------------------------------------------------
(* The recorder session: the event task fills the queue *)

\* Mutant: nothing is dropped.
Enqueue_Always(q, m) == Append(q, m)

\* A full queue drops the message.
Enqueue(q, m) == IF Len(q) < QueueCap THEN Append(q, m) ELSE q

offDevice == <<hubVars, worker, s_relay_paused, confirmed, slots, history>>

LinkUp ==
  /\ link = "trying" /\ link' = "open"
  /\ queue' = Enqueue(queue, "CONNECTED")
  /\ UNCHANGED <<rec, overdue, bounds, offDevice>>

\* ERROR and DISCONNECTED both call on_disconnected: one message or two.
LinkLost ==
  /\ link \in {"trying", "open"} /\ faults > 0
  /\ link' = "lost" /\ faults' = faults - 1
  /\ LET q == Enqueue(queue, "DISCONNECTED")
     IN queue' \in {q, Enqueue(q, "DISCONNECTED")}
  /\ UNCHANGED <<rec, overdue, commands, outages, offDevice>>

OtaCommand ==
  /\ link = "open" /\ commands > 0
  /\ commands' = commands - 1
  /\ queue' = Enqueue(queue, "OTA")
  /\ UNCHANGED <<rec, overdue, link, faults, outages, offDevice>>

\* A version command, a pong, anything else.
OtherFrame ==
  /\ link = "open" /\ faults > 0
  /\ faults' = faults - 1
  /\ queue' = Enqueue(queue, "OTHER")
  /\ UNCHANGED <<rec, overdue, link, commands, outages, offDevice>>

-----------------------------------------------------------------------------
(* run_recorder_session *)

\* Credential, token, queue, socket.
OpenSession ==
  /\ rec = "idle" /\ rec' = "waiting"
  /\ overdue' = FALSE
  /\ link' = "trying" /\ queue' = <<>>
  /\ UNCHANGED <<bounds, offDevice>>

\* Every way out frees the socket, and deletes the queue.
CloseSession ==
  /\ rec' = "idle" /\ link' = "none" /\ queue' = <<>> /\ overdue' = FALSE
  /\ worker' = [w \in Workers |-> [worker[w] EXCEPT !.live = FALSE]]

\* Mutant: a new image is not confirmed.
ota_link_confirm_running_app_Never ==
  confirmed' = TRUE /\ UNCHANGED <<image, faults, mark_failed>>

\* Marking the image may fail; it is not tried again.
ota_link_confirm_running_app ==
  /\ confirmed' = TRUE
  /\ \/ /\ confirmed \/ image[running].state # "pending"
        /\ UNCHANGED <<image, faults, mark_failed>>
     \/ /\ ~confirmed /\ image[running].state = "pending"
        /\ image' = [image EXCEPT ![running].state = "valid"]
        /\ UNCHANGED <<faults, mark_failed>>
     \/ /\ ~confirmed /\ image[running].state = "pending"
        /\ faults > 0 /\ faults' = faults - 1 /\ mark_failed' = TRUE
        /\ UNCHANGED image

Receives(m) ==
  /\ rec \in {"waiting", "up"}
  /\ queue # <<>> /\ Head(queue) = m

ReceiveConnected ==
  /\ Receives("CONNECTED")
  /\ rec' = "up" /\ queue' = Tail(queue) /\ overdue' = FALSE
  /\ ota_link_confirm_running_app
  /\ proved' = TRUE
  /\ UNCHANGED <<link, hubVars, worker, s_relay_paused, running, boot, commands,
                 outages, trial>>

ReceiveDisconnected ==
  /\ Receives("DISCONNECTED")
  /\ CloseSession
  /\ UNCHANGED <<hubVars, s_relay_paused, confirmed, slots, bounds, history>>

ReceiveOther ==
  /\ Receives("OTHER")
  /\ queue' = Tail(queue)
  /\ UNCHANGED <<rec, overdue, link, bounds, offDevice>>

\* handle_ota_command: a worker of its own, unless it cannot be started.
ReceiveOta ==
  /\ Receives("OTA")
  /\ queue' = Tail(queue)
  /\ \/ UNCHANGED worker
     \/ LET idle == {w \in Workers : worker[w].at = "none"}
        IN /\ idle # {}
           /\ worker' = [w \in Workers |->
                IF w = CHOOSE v \in idle : TRUE
                  THEN [at |-> "pause", live |-> TRUE, alone |-> idle = Workers]
                  ELSE [worker[w] EXCEPT !.alone = FALSE]]
  /\ UNCHANGED <<rec, overdue, link, hubVars, s_relay_paused, confirmed, slots,
                 bounds, history>>

ConnectTimesOut ==
  /\ rec = "waiting" /\ overdue
  /\ CloseSession
  /\ UNCHANGED <<hubVars, s_relay_paused, confirmed, slots, bounds, history>>

\* Mutant: the token is renewed and the connection kept.
TokenRunsOut_KeepsLink ==
  /\ rec = "up" /\ overdue /\ overdue' = FALSE
  /\ UNCHANGED <<rec, link, queue, bounds, offDevice>>

\* A ping that fails is not noticed: this is what ends a dead session.
TokenRunsOut ==
  /\ rec = "up" /\ overdue
  /\ CloseSession
  /\ UNCHANGED <<hubVars, s_relay_paused, confirmed, slots, bounds, history>>

TimePasses ==
  /\ rec \in {"waiting", "up"}
  /\ ~overdue /\ overdue' = TRUE
  /\ UNCHANGED <<rec, link, queue, bounds, offDevice>>

Session ==
  \/ ReceiveConnected \/ ReceiveDisconnected \/ ReceiveOther \/ ReceiveOta
  \/ ConnectTimesOut \/ TokenRunsOut

-----------------------------------------------------------------------------
(* ota_link_handle_command and fail, by one worker *)

Goes(w, from, to) ==
  worker[w].at = from /\ worker' = [worker EXCEPT ![w].at = to]

onlyWorkers == <<session, confirmed, commands, outages, history>>

relay_pause(w) ==
  /\ Goes(w, "pause", "stop")
  /\ s_relay_paused' = TRUE
  /\ UNCHANGED <<onlyWorkers, faults, hubVars, slots>>

\* The update goes on also over a server that would not stop.
StopsHub(w) ==
  /\ \/ Goes(w, "stop", "stopping") /\ hub_link_stop_asks /\ UNCHANGED faults
     \/ Goes(w, "stop", "started") /\ ~s_server /\ UNCHANGED <<hubVars, faults>>
     \/ Goes(w, "stopping", "started") /\ hub_link_stop_ends /\ UNCHANGED faults
     \/ /\ Goes(w, "stopping", "started") /\ hub_link_stop_fails
        /\ faults > 0 /\ faults' = faults - 1
  /\ UNCHANGED <<onlyWorkers, s_relay_paused, slots>>

\* The calls of the progress callback between two phases.
Reports(w) ==
  /\ \/ Goes(w, "started", "begin")
     \/ Goes(w, "ok", "restart")
     \/ Goes(w, "error", "resume_hub")
  /\ UNCHANGED <<onlyWorkers, faults, s_relay_paused, hubVars, slots>>

\* esp_https_ota_begin and the start of the writing: refused while the
\* running image is on trial; the other slot is erased.
Begins(w) ==
  /\ \/ Goes(w, "begin", "error") /\ UNCHANGED image
     \/ /\ Goes(w, "begin", "download") /\ image[running].state # "pending"
        /\ image' = [image EXCEPT ![Other] = [state |-> "none", whole |-> FALSE]]
  /\ UNCHANGED <<onlyWorkers, faults, s_relay_paused, hubVars, running, boot>>

\* One more piece, reported now and then.
Writes(w) ==
  /\ worker[w].at = "download"
  /\ image' = [image EXCEPT ![Other].whole = FALSE]
  /\ UNCHANGED <<onlyWorkers, faults, worker, s_relay_paused, hubVars, running, boot>>

\* Mutant: the download is taken for the update.
Downloaded_IsEnough(w) ==
  /\ \/ Goes(w, "download", "error")
     \/ Goes(w, "download", "ok")
  /\ UNCHANGED <<onlyWorkers, faults, s_relay_paused, hubVars, slots>>

\* esp_https_ota_perform fails, or all is there; the read time-out and the
\* size of the image end the download.
Downloaded(w) ==
  /\ \/ Goes(w, "download", "error")
     \/ Goes(w, "download", "finish")
  /\ UNCHANGED <<onlyWorkers, faults, s_relay_paused, hubVars, slots>>

\* esp_https_ota_finish: the image is verified, and the next to start.
Finishes(w) ==
  /\ \/ Goes(w, "finish", "error") /\ UNCHANGED <<boot, image>>
     \/ /\ Goes(w, "finish", "ok")
        /\ boot' = Other
        /\ image' = [image EXCEPT ![Other] = [state |-> "new", whole |-> TRUE]]
  /\ UNCHANGED <<onlyWorkers, faults, s_relay_paused, hubVars, running>>

esp_restart(w) ==
  /\ worker[w].at = "restart"
  /\ Restart
  /\ UNCHANGED bounds

\* Mutant: the relay is left as it is.
Resumes_OnlyHub(w) ==
  /\ worker[w].at = "resume_hub"
  /\ worker' = [worker EXCEPT ![w] = Idle]
  /\ StartsHub
  /\ UNCHANGED <<onlyWorkers, s_relay_paused, slots>>

\* The end of fail: the hub if it will, then the relay.
Resumes(w) ==
  /\ \/ /\ Goes(w, "resume_hub", "resume")
        /\ StartsHub
        /\ UNCHANGED s_relay_paused
     \/ /\ worker[w].at = "resume"
        /\ worker' = [worker EXCEPT ![w] = Idle]
        /\ s_relay_paused' = FALSE
        /\ UNCHANGED <<hubVars, faults>>
  /\ UNCHANGED <<onlyWorkers, slots>>

OtaStep(w) ==
  \/ relay_pause(w) \/ StopsHub(w) \/ Reports(w) \/ Begins(w) \/ Downloaded(w)
  \/ Finishes(w) \/ esp_restart(w) \/ Resumes(w)

Beacons ==
  /\ BeaconLooks \/ BeaconLeaves
  /\ UNCHANGED <<session, worker, s_relay_paused, confirmed, slots, bounds, history>>

Next ==
  \/ Outage \/ app_main \/ OpenSession
  \/ LinkUp \/ LinkLost \/ OtaCommand \/ OtherFrame
  \/ Session \/ TimePasses
  \/ \E w \in Workers : OtaStep(w) \/ Writes(w)
  \/ Beacons

\* Tasks run, clocks run, every call of the update ends.
Spec ==
  /\ Init /\ [][Next]_vars
  /\ WF_vars(app_main) /\ WF_vars(Session) /\ WF_vars(TimePasses)
  /\ \A w \in Workers : WF_vars(OtaStep(w))

-----------------------------------------------------------------------------
(* Properties *)

Ats == {"none", "pause", "stop", "stopping", "started", "begin", "download",
        "finish", "ok", "restart", "error", "resume_hub", "resume"}
Images == [state : {"none", "new", "pending", "valid", "aborted"}, whole : BOOLEAN]

TypeOK ==
  /\ HubTypeOK
  /\ rec \in {"off", "idle", "waiting", "up"} /\ overdue \in BOOLEAN
  /\ link \in {"none", "trying", "open", "lost"}
  /\ queue \in Seq({"CONNECTED", "DISCONNECTED", "OTA", "OTHER"})
  /\ Len(queue) <= QueueCap
  /\ worker \in [Workers -> [at : Ats, live : BOOLEAN, alone : BOOLEAN]]
  /\ s_relay_paused \in BOOLEAN /\ confirmed \in BOOLEAN
  /\ running \in Slots /\ boot \in Slots /\ image \in [Slots -> Images]
  /\ commands \in Nat /\ faults \in Nat /\ outages \in Nat
  /\ trial \in BOOLEAN /\ proved \in BOOLEAN /\ mark_failed \in BOOLEAN

Restarted == rec # "off" /\ rec' = "off"

(* After an update that no other one overlaps has announced success, the   *)
(* next start, by esp_restart or by a power loss, is of the new image.     *)
OkIsRun ==
  [][Restarted =>
       \A w \in Workers : worker[w].alone /\ worker[w].at \in {"ok", "restart"} =>
         running' # running /\ trial']_vars

(* A new image is kept over the next restart if and only if it reached the *)
(* recorder, unless the flash refused the mark                             *)
(* (ota_link_confirm_running_app).                                         *)
TrialDecides ==
  [][Restarted /\ trial /\ boot = running =>
       ((running' = running) <=> (proved /\ ~mark_failed))]_vars

\* The calls of an update that still has a relay, or a hub, to bring back.
OwesRelay == Ats \ {"none", "pause"}
OwesHub == {"started", "begin", "download", "finish", "ok", "restart", "error",
            "resume_hub"}

(* A relay that is paused is owed by an update that has not ended, and so  *)
(* is a hub that is down, unless it would not start, however many updates  *)
(* overlap and whatever becomes of the sessions that began them            *)
(* (ota_link_handle_command, fail).                                        *)
StoppedIsOwed ==
  /\ s_relay_paused => \E w \in Workers : worker[w].at \in OwesRelay
  /\ rec # "off" /\ ~s_server =>
       last_start = "fails" \/ \E w \in Workers : worker[w].at \in OwesHub

(* A paused relay is resumed, and a hub that was stopped is started again  *)
(* unless the server itself fails, after every way an update can end.      *)
ServicesComeBack ==
  /\ s_relay_paused ~> ~s_relay_paused
  /\ ~s_server ~> (s_server \/ last_start = "fails")

(* A session whose link is lost is left, also when the queue had no room   *)
(* for the news (the connect timeout, the end of the token).               *)
DeadLinkIsLeft == (link = "lost") ~> (link # "lost")

(* A worker reports on the socket of a session that still exists           *)
(* (ws_client.h: sending is left to the session's own loop).               *)
NoStaleSocket ==
  \A w \in Workers : worker[w].at \in {"started", "ok", "error"} => worker[w].live
=============================================================================
