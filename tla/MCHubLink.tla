----------------------------- MODULE MCHubLink -----------------------------
(* Model checking of HubLink: the bounds come from the .cfg file. *)
EXTENDS HubLink
=============================================================================
