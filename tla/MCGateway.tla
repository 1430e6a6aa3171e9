----------------------------- MODULE MCGateway -----------------------------
(* Model checking of Gateway: the bounds come from the .cfg files. *)
EXTENDS Gateway
=============================================================================
