------------------------------- MODULE MCSeer -------------------------------
(* The seer service with small topics and few restarts; the cfg files choose what may fail. *)
EXTENDS Seer
=============================================================================
