# TLA+ models of alc-gw-p4

alc-gw-p4 is the ESP32-P4 firmware that relays one RTSP camera (C212, stream2)
to an admin's browser over WebRTC, and that stands in for the gateway of a
CoreS3 hub at unattended sites.  This directory holds specifications of its
concurrent and protocol logic, the TLC configurations that check them, and
TLAPS proofs about them.

    tlc -workers 2 -config MCViewer.cfg MCViewer       # one run
    tlapm ViewerProofs.tla                             # one module of proofs

`PROJECT.json` lists runs, theorems, hazards, findings, the lines each
definition models, and for each property a mutation of the code that breaks it.

## 1. The system

FreeRTOS tasks, with what they share:

| task | code | shares |
|---|---|---|
| `relay` | relay.c `relay_task`, `run_signaling_session` | the queue, `s_relay_paused`, the viewer's event group, stop flag and memory |
| `rtsp_rx` (one per viewer) | relay.c `rtsp_rx_task` | the viewer, its RTSP client and socket, its peer |
| WebSocket event tasks (two) | ws_client.c, signaling_client.c, recorder_link.c callbacks | the session's queue |
| `recorder` | recorder_link.c | its queue, its WebSocket |
| `ota` (one per command) | recorder_link.c `ota_worker_task`, ota_link.c | the recorder's WebSocket, hub_link, the relay flag |
| httpd worker, `hub_beacon` | hub_link.c | `s_server`, `s_beacon_task`, `s_beacon_stop_requested` |
| console | console_cmds.c | credentials in NVS |

Besides these the chip restarts: `esp_restart` after an update, a power loss or
a crash at any time; the bootloader then chooses one of two slots.

Components:

* **Viewer** (relay.c 119-398).  State: RTSP client, peer, receive task, event
  bits, stop flag.  Operations: `viewer_start` (RTSP, then peer, then task),
  `viewer_close`, callbacks of esp_peer, the receive loop.  Hard: two tasks
  tear it down together, and only timeouts keep them apart.  Correct when
  nothing is used after it is freed, when every failure leads to a close, and
  when the close returns with everything released.
* **Relay task and signaling session** (relay.c 425-683).  State: backoff,
  queue, WebSocket, `admin_present`, retry deadline and backoff, pause flag,
  viewer.  Operations: one loop iteration (pause, message, connect timeout,
  pump, failure, retry, ping, token), pause, resume.  Hard: blocks for seconds
  while messages queue up; joins, leaves, answers, failures and pauses in any
  order.  Correct when an admin who stays is served, nothing is left behind
  when a session ends, and retries are paced.
* **Signaling client** (signaling_client.c).  Turns WebSocket events into
  messages of a 16-entry queue and drops what does not fit.
* **Demultiplexer** (rtsp_demux.c).  State: parser state, channel, length,
  position, buffer.  Hard: any cut of the stream, frames larger than the
  buffer.  Correct when it never overruns, never loses the frame boundaries,
  and delivers exactly the frames that fit.
* **Depacketizer** (h264_depacket.c).  State: access unit under construction,
  last sequence number, discarding flag.  Hard: loss, reordering, wrap.
  Correct when an access unit it delivers after a loss starts at an IDR and has
  no hole.
* **RTSP client** (rtsp_client.c, rtsp_digest.c, rtsp_sdp.c, rtsp_io_socket.c).
  State: CSeq, challenge, session, receive buffer.  Operations: open, play
  (OPTIONS, DESCRIBE, SETUP, PLAY, each sent again once after a 401), keepalive,
  teardown, close, the hand-over of what was read too far.  Hard: responses and
  frames on one socket, cut anywhere; late and repeated responses.  Correct when
  it acts on the answer to its last request only, offers refused credentials no
  more, loses no byte of the stream, gives every session back, and ends.
* **Recorder link** (recorder_link.c).  State: queue, WebSocket, deadlines.
  Operations: one iteration of the session loop (connected, disconnected, frame,
  connect timeout, token), one worker per "ota" command.  Hard: the queue drops,
  the WebSocket is freed under a worker.  Correct when a dead link is left.
* **OTA update** (ota_link.c).  Pauses the relay, stops the hub, downloads into
  the other slot, then restarts, or brings both back; confirms a new image at
  the first connection to the recorder.  Hard: several updates at once, failures
  at every call, restarts in between.  Correct when what updates have stopped
  comes back however they overlap, an announced success is what starts next, and a
  new image stays exactly if it reached the recorder.
* **Hub link** (hub_link.c).  State: `s_server`, `s_beacon_task`,
  `s_beacon_stop_requested`, one session context per connection.  Operations:
  start, stop, beacon task, hello, auth.  Hard: the beacon task is only asked to
  leave and looks every 5 s, while stop and start may follow each other at once;
  the peer chooses the order of frames.  Correct when a running server is
  announced, a stopped one no longer, also when httpd_stop fails, and only an
  answered challenge verifies.
* **Credential store** (credential.c): two NVS keys that belong together, read
  by the sessions and written by the console.
* **WebSocket client** (ws_client.c): reassembly of frames from pieces.
* **Auth HTTP client, boot, Ethernet**: request/response and straight-line
  code.  mbedtls is vendored, `examples/` is a template.

The hazards of these components, each at its line, are in `PROJECT.json`.

## 2. Modules

| module | models | uses |
|---|---|---|
| `ViewerContract` | what a viewer promises its owner | |
| `Viewer` | the detailed viewer: relay task, receive task, time | refines `ViewerContract` |
| `RelaySession` | relay task, session loop, queue, event task, admin, pause | extends `ViewerContract` |
| `RtspDemux` | demultiplexer and camera | |
| `H264Depacket` | depacketizer, camera and network | |
| `RtspClient` | RTSP client, its use by the viewer, camera | |
| `HubServer` | server and beacon tasks: start, stop, leave | |
| `Gateway` | recorder session, OTA workers, confirmation, restarts | extends `HubServer` |
| `HubLink` | connections of the hub, credential, console | extends `HubServer` |
| `MC*` | constants and entry points for TLC | |
| `ViewerProofs`, `RelayProofs`, `RtspDemuxProofs`, `H264DepacketProofs`, `RtspClientProofs`, `HubServerProofs`, `GatewayProofs`, `HubLinkProofs` | theorems | |

`HubServer` has the shared part of two compositions: `Gateway` calls it from
app_main and from the workers, `HubLink` from the owner of its connections.  Its
lemmas (`HubServerProofs`) are used by the proofs about both.

`RelaySession` and `Viewer` meet in `ViewerContract`: the session composes its
own steps with the contract's actions (`BeginStart`, `StartSucceeds`,
`EndClose`, ...), and `Viewer` is shown to implement the contract.  That splits
a product of two large state spaces into two that TLC exhausts.

### Viewer

`phase` is the place of `relay_task` in `viewer_start` or `viewer_close`, `rx`
that of `rtsp_rx_task`; there is a place wherever the other task can get in
between.  `bits` is the event group; `peer`, `rtsp` and `rtsp_rx_task` say which
pointer is not NULL.  Each blocking call (`recv`, feeding the peer, the
keepalive send, the bounded wait of `viewer_close`) lasts at most its constant
number of ticks.  `Tick` is only possible when no running task has an
instantaneous step: the CPU is fast compared with a tick.  `first` remembers
which frame the peer saw first.  A free under a running receive task leads to
the phase `"undefined"`, where nothing more is said.

### RelaySession

`pc` is the place of `relay_task`; `after` is where it goes on when
`viewer_start` or `viewer_close` returns.  One action is one block of the loop
body.  `viewer_close; signaling_client_close; vQueueDelete` are three steps, so
that events can arrive between them.  Deadlines are Booleans (`connect_late`,
`token_due`, `retry_due`) with an action that lets each pass.  Messages are
their types; an answer is "stale" when the viewer whose offer it answers is
gone, which is a ghost distinction: both kinds are handled by the same code.
`dropped` and `cooling` are history variables and guard nothing.

### RtspDemux

One step is one byte.  The six states are the six cases of the switch.  A byte
has `Base` values; the length field has two bytes.  Between frames the camera
sends text without a dollar; inside a frame any byte, a dollar included.

### H264Depacket

One step feeds one packet; a packet is what the code reads of it (kind of
payload, marker, IDR, sequence number), and the buffer counts units.  `au` lists
the packets that went into `au_len`, so that properties can speak about what a
delivered access unit is made of.  The camera numbers its packets without bound,
the wire takes the number modulo `SeqMod`.  The network loses packets, delivers
them twice, or holds one back.  `Near` bounds how far: a packet that is off by
exactly a turn of the counter cannot be told from the right one by any receiver.
Malformed packets that the code returns on before it looks at the sequence
number are no packets here.

### RtspClient

`pc` is the place in `rtsp_client_play` (send, read a header, read a body), then
the life of the viewer: ready, streaming, closed.  `buf` is `c->buf` from
`buf_pos` on, in units: a header block, a part of a body, a piece of a frame,
junk.  `recv` returns any prefix of the wire.  `to`, the serial number of the
request a response was made for, is history; the code only sees the CSeq.
`Teardown` and the keepalive may fail to send; a TEARDOWN that failed is counted
in `unsent`.  `Useful` and `Rejected` are the checks of `rtsp_client_play` after
each request.  The result of the SDP parser and of the digest is nondeterministic.

### HubServer, Gateway, HubLink

`beaconing` and `leaving` count the beacon tasks in their loop and behind it:
there can be several.  `leftover` is a server that httpd_stop failed to stop:
s_server is NULL, but it still listens, keeps its connections, and holds the
port, so that a later start fails.  In `Gateway` a worker's `at` is the next
call of `ota_link_handle_command`; hub_link_stop is two steps (ask the beacon,
stop the server, which may fail), fail three (report, hub, relay).  The flash is
two slots with a state and whether the image is whole; a worker that writes
makes it not whole, also under another worker.  The bootloader (external) tries
a new image once and goes back when it was not confirmed, or passes over one it
cannot load. `alone` says that no other update overlaps; `live` that the session
whose WebSocket the worker holds still exists.  Deadlines are `overdue`.

In `HubLink` a credential is a number, id and secret apart, so that a torn pair
is two different numbers.  `at` is the place of the one server task in
`handle_auth`, which blocks over two requests.  `nvs` is what a read returns,
`flash` what surely survives: a power loss leaves for each key either.
`raced` is history: some start came while a beacon task of an earlier one was on
its way out, or left one in its loop without a handle.

## 3. Runs

| run | states | shows |
|---|---|---|
| `viewer` | 1,050 | all viewer properties, with a keepalive send bounded by 500 ms |
| `viewer_uaf` | violation | with the real timeouts the viewer is freed under its receive task |
| `viewer_sprop` | violation | SPS/PPS of the SDP never reach the peer |
| `relay` | 107,319 | all session properties |
| `relay_stale` | violation | an answer to a dead viewer's offer is given to its successor |
| `relay_join_retry` | violation | a failed start at the admin's arrival is repeated at once |
| `demux` | 1,195,803 | all demultiplexer properties |
| `h264` | 769,978 | all depacketizer properties |
| `rtsp` | 733,879 | all client properties |
| `gateway` | 236,192 | update, confirmation, services, dead links |
| `gateway_socket` | violation | a worker reports on a WebSocket that was freed |
| `hub` | 1,343,550 | handshake, credential pairs, the beacon's start and end |

**viewer** uses ticks of 250 ms: receive 4, feed 1, send 2, wait 8.  Receive and
wait are the code's 1000 and 2000 ms.  The send is *not* the code's: it must
satisfy `WaitIsLongEnough` (receive + feed + send < wait), and the code's
10,000 ms does not.  The run therefore shows that the design is right when the
send is short (the normal case on a LAN), and `viewer_uaf` shows what the code
allows when it is not.  One viewer after another is unbounded.  Any number of
rounds of the receive loop is covered, since every variable is finite.

**relay**: queue of 2, backoff 1..3, two faults (network, camera, peer,
deadline) and two moves (admin, pause, server error).  Two faults suffice for a
failure during the recovery from a failure; two moves for leave after join,
pause with an admin present, or a second arrival; the short queue makes drops
happen.  Backoff 1, 2, 3 shows doubling and cap.  The violation runs use a
queue of 3.

**demux**: 3 byte values give lengths 0..8 over a buffer of 3, so that empty,
fitting, exactly full and oversized frames all occur, with a dollar among the
payload bytes.

**h264**: five packets, two-bit sequence numbers (they wrap within the run), a
buffer of three units (a STAP-A has two, so units overflow it from a second or a
fourth packet on).  Five packets hold a loss, the packets thrown away after it,
an IDR to recover at and a fragmented unit behind it.  The camera stops after
the last packet: deadlock is not checked here.

**rtsp**: two units of buffer and of wire, one of body: a header with the first
piece of a frame behind it, a response behind a late one, a body that is half
read with its header, and one that is too long all occur.  Five requests are a
play with one refused or repeated request and its TEARDOWN, or with a keepalive;
reopening starts over, without bound.  `TakeCap` is the room rtsp_rx_task has
for what was read too far (1500 bytes); what can follow a header in the buffer
of 1536 fits as long as the response to PLAY has 36 bytes or more.

**gateway**: two workers and two commands (one update, two in turn, two that
overlap), one fault (lost link, start or stop of the hub, mark of the image, a
frame that fills the queue), one outage besides the restarts that updates make; a
queue of two, so that messages are dropped.

**hub**: two connections, two hellos each (a second challenge after a
verification), three moves among stops, saves and outages (each stop may fail):
two stops with a start in between make two beacon tasks, two saves with an
outage a torn pair.

### Deadlock

Deadlock is checked in every passing run but `h264`.  `viewer_uaf` turns it off,
since `"undefined"` has no successor.

### Fairness

* Viewer: weak fairness of the steps of `viewer_start` and `viewer_close`, of
  the session's reaction to a failure bit (it looks every 10 ms), of the
  receive task and of time.  Every blocking call has a timeout and both tasks
  have priority 5, so each keeps running.  Nothing is assumed about the
  environment: cameras and peers need never fail, and owners need never close.
* RelaySession: weak fairness of the relay task (all its calls are bounded), of
  a receive task that was told to stop, and of the retry backoff.  Of the
  environment: a connection attempt that does not fail succeeds, the room
  greets a device with the admin who is already there, and a peer that is
  pumped again and again makes its offer (strong, since failures interrupt the
  pumping).  Faults are finite, so these say "if the world gets better".
* RtspClient: weak fairness of `rtsp_client_play`: every receive and send has
  the socket's timeout, which is the step `PlayFails`.  Nothing is assumed about
  the camera.
* Gateway: weak fairness of app_main, of the session loop (it wakes every
  second), of time (a deadline passes in the end), and of each worker: every
  call of an update ends, also the download, by the read timeout and the size of
  the image.  Commands, faults and outages are not assumed to happen.
* HubLink: weak fairness of the beacon tasks, which look every 5 s.  The server
  task and the console need not move.

## 4. Properties

Safety.  `RxOwnsViewer`: what the receive task uses exists.  `OwnersOutlive`:
queue ⊇ WebSocket ⊇ viewer, in lifetime.  `ViewerNeedsAdmin`: no viewer at the
loop head without an admin, who is in the room once everything is read.
`RetriesArePaced`: what a step may never do. `SessionIsTold`: what the session
knows of its link and of the admin, with the messages it has yet to read, is how
things are.  `NoOverrun`, `InSync`, `DeliversFrames`.  `NoHole`,
`FragmentsWhole`, `KeyframeFlag`, `KeyAfterLoss`: what an access unit is made
of; `Recovers`: from an IDR on every unit that comes whole, in order and fits is
delivered, so that discarding ends with the first IDR.  `AnswersMatch`,
`StreamIntact`, `SessionsEnd`, `RefusedIsFinal`. `StoppedIsOwed`: a relay or a
hub that an update has stopped is owed by a worker that has not ended, however
many overlap.  `OkIsRun`, `TrialDecides` relate an update to the start that
follows it.  `HandshakeHolds`, `PairHolds`, `Announced`.

Some name their excuse, because the code gives no more: `OkIsRun`
speaks of an update that no other one overlaps (recorder_link.c:168 starts a
second one at any time, and two write the same slot); `TrialDecides` of a mark
the flash took; `PairHolds` of a save that did not run meanwhile and came to its
end; `BeaconStops` of starts that did not cross a beacon task of an earlier one;
`SessionIsTold` of a queue that dropped nothing.  `StoppedIsOwed` and
`ServicesComeBack` excuse the hub, not the relay, when its last start failed,
which it does when httpd_stop has failed before.  `SessionsEnd` counts a TEARDOWN
whose send failed apart: the camera then has to drop the session by itself.

Liveness.  `FailureFreesViewer`, `CloseReturns`; `PauseTakesEffect`,
`LostLinkEndsSession`, `AdminIsServed`, `AdminGoneClosesViewer`.  The last three
of these are excused by a message lost to a full queue: then the code has no
other way to learn about it, and the hazard list says what follows.  `PlayEnds`,
`ServicesComeBack`, `BeaconStops`; `DeadLinkIsLeft` needs no such excuse: the
connect timeout or the end of the token leaves a session whose disconnection was
dropped.

Refinement.  `KeepsContract`: Viewer implements ViewerContract; its core is that
`viewer_close` never returns while the receive task lives, and that this task
never ends on a live viewer without raising a failure.

## 5. Findings

1. `viewer_close` waits 2000 ms; a receive and a blocked keepalive send may take
   11 s.  The result of the wait is not looked at, and the viewer is freed under
   its task (relay.c:340).
2. The SPS/PPS are handed over before the peer exists and are dropped
   (relay.c:287, against the comment at 268).
3. Answers are not tied to offers: a late one is applied to the next viewer
   (relay.c:560, against signaling_client.h:40-41).
4. A failed `viewer_start` at PEER_JOINED arms no deadline and is repeated in the
   same iteration (relay.c:605, against the comment at 508-509).
5. An OTA worker keeps the WebSocket of the session that started it; the session
   frees it when the link is lost or the token runs out, and the worker goes on
   to report on it (recorder_link.c:163, against ws_client.h:14-16).

Not a run of its own, but the excuse in `BeaconStops` (`raced`): a beacon task
that was asked to leave may still be asleep when the hub is started again.  It
either sees the request withdrawn, and then there are two beacon tasks, or has
just left the loop and clears `s_beacon_task` of the new one (hub_link.c:289).
The same happens when the new task finds no socket (259).  Then the next
hub_link_stop finds no task to ask (342), and the beacon goes on announcing a
server that is down, against hub_link.h:27-31.  A start, stop, start, stop
within 5 s is an update that fails at once, followed by another.

## 6. Proofs

All constants are arbitrary naturals, within the named assumptions
(`TimeoutsAreTicks`, `RelayAssumption`, `DemuxAssumption`, `DepacketAssumption`,
`RtspAssumption`, `GatewayAssumption`, `HubAssumption`), which TLC evaluates.

* **ViewerProofs.**  `ViewerTypeCorrect` needs nothing.
  `ViewerImplementsContract` holds for any timeouts, of every behaviour that
  does not run into the use after free (`phase` is never `"undefined"`).
  `ReceiverIsSafe` assumes `StreamIsShort`, which the code's 1000 and 2000 ms
  satisfy, and leaves open exactly what `viewer_uaf` finds: unless
  `WaitIsLongEnough`, the task can be in a keepalive, or on its way out behind
  it, without its viewer; it never receives from a closed client nor feeds a
  closed peer.  None of this is inductive.  `Base` says which pointers are set
  in which phase (`OwnedByPhase`), that a task whose handle is gone was told to
  stop (`RxIsKnown`), that it leaves its loop for a reason (`EndHasReason`), and
  the bound of each blocking call; it holds whatever the timeouts.  `Timely`
  adds time: in the wait, what is left of a receive and its feed
  (`StreamBudget`), and when the wait is long enough also of the keepalive
  (`RxBudget`), is below what is left of the wait.  A tick takes one from both;
  the feed and the send that may follow a receive are in the budget from the
  start.
* **RelayProofs.**  The inductive invariant: types, what exists at each place of
  the relay task (`PlaceOfSession`, `PlaceOfViewer`), a viewer in the loop means
  an admin (`AdminOfViewer`), and a cooling retry has its deadline ahead
  (`CoolingIsArmed`).  The two action properties follow from it.
  `NothingIsForgotten` is the safety core of three liveness properties: the link
  and the presence of the admin are what the session will know when it has read
  its queue (`Told`), up to a message that was dropped.  It rests on three lemmas
  about sequences: what appending, taking the head and marking answers as stale
  do to what a queue tells.  `SessionKeepsContract` is the other half of
  `ViewerImplementsContract`: owner and viewer meet in `ViewerContract`, each
  shown to move it as it says.  `StreamEndsAloud` follows from the contract alone.
* **RtspDemuxProofs.**  The invariant says what each parser state has read of
  the camera's frame: `Header`, `Body`, and `Buffered` (the buffer holds the
  bytes so far).  It holds for every byte width and capacity, 256 and the
  code's buffer included.
* **H264DepacketProofs.**  For every modulus, buffer and number of packets.
  `NoHole` rests on the lemma `Successor`: two numbers whose difference is one
  modulo `SeqMod`, and that are as near as the network keeps them, follow each
  other.  The inductive invariant ties `last_seq` to the history (`SeqInv`),
  says that the packets of the unit under construction are consecutive and end
  at the last one fed (`AuInv`), that an active fragment has its start among
  them and that the flag is right (`NalInv`); a gap empties the unit, which is
  what keeps all of this true.  `LossIsRecovered` needs the converse, that
  nothing is thrown away without cause.  `RecInv` says that while units are owed
  nothing is discarded (`OwedInv`), that what is built is a part of what the
  camera has built, so that it fits when the whole does (`SizeInv`), that it is
  not empty unless the camera's is (`FillInv`), and that camera and depacketizer
  are in the middle of the same fragmented NAL (`FragmentInv`); `NumberInv`
  keeps the network behind the camera.
* **RtspClientProofs.**  `SessionsEnd` and `RefusedIsFinal` from an invariant
  that ties `have_session` to SETUPs minus TEARDOWNs, sent or failed to be sent,
  in every place of the client, and says where a client can be after a refusal.
  `ResponsesMatch`
  (`MatchInv`): the CSeq of a request is its serial number, and a response on
  the wire or in the buffer carries that of the request it was made for, or
  none; one that an earlier request left behind has a smaller one and is passed
  over.
  `StreamStaysIntact` (`PlayInv`, `RoomInv`, `FlowInv`): what was delivered, what
  is buffered and what is on the wire are, one behind the other, what the camera
  sent; each step moves the cuts.  It assumes `TakeRoom`, that what can follow a
  header in a full buffer fits the demultiplexer's 1500 bytes.  With the code's
  1536 bytes this is so when the response to PLAY has 36 bytes or more: status
  line, CSeq and empty line are 28, and a Session line makes it more than 36.
  `PlayIsShort` (`CountInv`)
  counts: four requests, each sent a second time at most once.
* **GatewayProofs.**  The invariant has three parts besides the types.
  `AloneInv`: a worker that is alone is the only one.  `WritingInv`: nothing is
  written while the running image is on trial, and what a worker that is alone
  has finished is in the other slot, whole, and next to start.  `TrialInv`: the
  state of the running image against the history of this boot, and a whole image
  to fall back to as long as it is on trial.  Any number of workers, any number of
  outages.  `NothingIsLeftStopped` proves `StoppedIsOwed` of workers that overlap:
  whoever has paused the relay or stopped the hub, some worker that has yet to
  bring it back remains.  It is inductive with the rest; the step that ends one of
  several workers is what it turns on.
* **HubServerProofs, HubLinkProofs.**  Type lemmas of the shared operations, then
  the connections (`ConnInv`), the store (`StoreInv`: outside of a save, the
  halves differ only when `torn`), the load in progress (`LoadInv`), and
  `Announced`, which is inductive by itself: a start clears the request after it
  has set the server up, so no older request can end the new beacon.
  `LeftoverIsAsked` is about the opposite end: without its server a beacon has
  been asked to leave, unless a start crossed one of an earlier start (`raced`,
  the excuse of `BeaconStops`).

Where a proof needs induction over data, it does without the library's
induction theorems, whose operator parameter the provers cannot instantiate.  The
numbers at which a statement fails are a set, and a set of naturals has a least
member (`LeastNumber`, from the finiteness of what is below it); there the
recursive function is expanded once.  For this `Frames`, the frames in a piece of
the stream, is a recursive function and not `SelectSeq`.

Every safety invariant and every action property of the passing runs is stated
by a theorem, `RxOwnsViewer` together with the way out that the code leaves.
Only model-checked are the liveness properties, since fairness and ENABLED are
beyond the prover (the safety cores named above are what they rest on), and the
violations, which are counterexamples.

## 7. Not modelled

* Text: JSON, SDP, RTSP headers, digests (`handle_json_message` is modelled by
  the message it queues, a response by the fields the client reads).
* rtsp_digest.c and rtsp_sdp.c: pure text functions, covered by host tests.  The
  digest uses the same `nc` for every request of a nonce, a limitation that
  rtsp_client.c:448-452 states itself; nothing here depends on it.
* The heap (leaks), stacks, priorities beyond fairness; esp_peer, TLS, drivers,
  Ethernet.
* The time of the sessions: deadlines pass at any moment after they are set,
  which includes every real timing; the recorder's backoff is any pause (its
  doubling is the relay's).
* `signaling_client_ping` and the recorder's ping change no state of the program,
  their results are ignored.  The lengths of the queues (16) are constants.
* ws_client.c beyond events and sends, auth_http.c beyond outcomes: both collect
  pieces into a buffer and drop a piece that is too large (see the hazards).
* Two failures in one call of `hub_link_start`: the registration of the handler
  fails and httpd_stop, called to undo the start, fails too.  Two workers in
  httpd_stop with the same handle at once.
* What the network does with a TEARDOWN or a keepalive that was sent; a send that
  fails is modelled, and nobody tries again.
* mbedtls and its tests, about 98 % of the lines of the repository, are vendored;
  `examples/` is a template.  The program itself has about 4,000 lines, and the
  map names the lines of those that carry its control.

Assumptions about the outside: the camera sends frames only after it has
answered PLAY; a text between frames has no dollar; a packet without payload
carries no marker; the network moves no packet by a whole turn of the sequence
number; a crash is a restart.

## 8. Plan

Done, in the order of importance: the contract, the viewer, the session, the
demultiplexer; the gateway, the hub link with the credential, the depacketizer
and the RTSP client; proofs about each.  What is left:

| next | module | properties | theorems |
|---|---|---|---|
| 1 | `WsClient`: reassembly of frames, shared with the body of auth_http.c | what is delivered was sent as one frame (the tail after an oversized one is not) | buffer bound |
| 2 | demultiplexer and depacketizer composed | what the peer gets is a subsequence of the camera's access units | from the two invariants |
| 3 | an abstract relay (idle, connected, serving) that RelaySession implements | the download against a relay that is still coming to rest | refinement |
