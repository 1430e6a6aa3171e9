--------------------------- MODULE MCRelaySession ---------------------------
(* Model checking of RelaySession: the bounds come from the .cfg files. *)
EXTENDS RelaySession
=============================================================================
