------------------------------ MODULE MCViewer ------------------------------
(* Model checking of Viewer: the timeouts come from the .cfg files. *)
EXTENDS Viewer
=============================================================================
