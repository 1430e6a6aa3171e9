---------------------------- MODULE MCRtspDemux ----------------------------
(* Model checking of RtspDemux: the width of a byte comes from the .cfg. *)
EXTENDS RtspDemux
=============================================================================
