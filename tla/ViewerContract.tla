--------------------------- MODULE ViewerContract ---------------------------
(***************************************************************************)
(* What a viewer (viewer_t of main/relay.c) promises to the signaling      *)
(* session that owns it, whatever happens inside:                          *)
(*   - viewer_start either hands out a live viewer, whose RTSP receive     *)
(*     task runs, or closes what it had opened and hands out nothing;      *)
(*   - a failure of the peer or of the camera is remembered until the      *)
(*     owner closes the viewer;                                            *)
(*   - the receive task ends when it is told to, or after a failure;       *)
(*   - viewer_close gives the viewer's memory back only when its receive   *)
(*     task has stopped.                                                   *)
(* Viewer.tla is the detailed viewer that implements it; RelaySession.tla  *)
(* is the owner, built on these actions.                                   *)
(***************************************************************************)

VARIABLES vstate,   \* the owner's view of the viewer
          receiving,\* its RTSP receive task runs
          failed    \* EVT_PEER_FAILED or EVT_RTSP_ERROR was raised

viewerVars == <<vstate, receiving, failed>>

VStates == {"none", "starting", "live", "closing"}

ViewerInit ==
  /\ vstate = "none"
  /\ receiving = FALSE
  /\ failed = FALSE

\* viewer_start is called.
BeginStart ==
  /\ vstate = "none"
  /\ vstate' = "starting"
  /\ failed' = FALSE
  /\ UNCHANGED receiving

\* It returns a viewer: its last step was to create the receive task.
StartSucceeds ==
  /\ vstate = "starting"
  /\ vstate' = "live"
  /\ receiving' = TRUE
  /\ UNCHANGED failed

\* It fails before there is a receive task, and closes what it opened.
StartFails ==
  /\ vstate = "starting"
  /\ vstate' = "closing"
  /\ UNCHANGED <<receiving, failed>>

\* A callback of esp_peer or the receive task raises a failure.
ViewerFails ==
  /\ vstate # "none"
  /\ failed' = TRUE
  /\ UNCHANGED <<vstate, receiving>>

\* The receive task ends, asked to or because the camera is gone: never
\* without telling, so that the owner of a live viewer can rely on failed.
ReceiverEnds ==
  /\ receiving
  /\ vstate = "closing" \/ failed
  /\ receiving' = FALSE
  /\ UNCHANGED <<vstate, failed>>

\* viewer_close is called on a live viewer.
BeginClose ==
  /\ vstate = "live"
  /\ vstate' = "closing"
  /\ UNCHANGED <<receiving, failed>>

\* viewer_close returns: only a viewer nobody uses is freed.
EndClose ==
  /\ vstate = "closing"
  /\ ~receiving
  /\ vstate' = "none"
  /\ UNCHANGED <<receiving, failed>>

ViewerNext ==
  \/ BeginStart \/ StartSucceeds \/ StartFails
  \/ ViewerFails \/ ReceiverEnds
  \/ BeginClose \/ EndClose

ViewerSpec == ViewerInit /\ [][ViewerNext]_viewerVars
=============================================================================
