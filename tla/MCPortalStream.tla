---------------------------- MODULE MCPortalStream --------------------------
(* A page that selects topics twice, with room to connect again on either side. *)
EXTENDS PortalStream
=============================================================================
