--------------------------- MODULE MCSseConsumer ----------------------------
(* Requests to /consume, with no other listener in the process. *)
EXTENDS SseConsumer
=============================================================================
