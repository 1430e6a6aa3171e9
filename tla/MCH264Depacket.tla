--------------------------- MODULE MCH264Depacket ---------------------------
(* Model checking of H264Depacket. *)
EXTENDS H264Depacket
=============================================================================
