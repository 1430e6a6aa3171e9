---------------------------- MODULE MCRtspClient ----------------------------
(* Model checking of RtspClient. *)
EXTENDS RtspClient
=============================================================================
